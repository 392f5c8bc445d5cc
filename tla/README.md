# A TLA+ model of code-rag

code-rag indexes GitLab repositories into Elasticsearch and answers questions
about the code. This directory holds TLA+ modules of the parts of it whose
behaviour depends on the order in which things happen or on boundaries that are
easy to get wrong, the TLC configurations that check them on small instances, and
TLAPS proofs of what matters most. `PROJECT.json` lists components, runs, hazards
and theorems, and maps every definition to the lines of code it models. Paths below
are relative to `src/src/code_rag/` unless they name a document of the repository.

## The system

| Part | State | Operations | Hard because |
|---|---|---|---|
| Job queue (`apps/jobs`, `adapters/elasticsearch/_jobs.py`) | job status and job result documents in Elasticsearch; per poll thread the job it runs | routes enqueue; poll threads claim, execute, finish or fail; the command line records results | several processes claim from one index; leases expire and are not renewed; processes die anywhere; two documents per job |
| Indexing service (`apps/indexing`, `_indexing.py`) | chunk, file, symbol, edge, community and repo documents | full and incremental jobs, `delete_file`, `replace_file`, `prune_orphaned_edges`, `rebuild_communities` | one request per step and no transactions; searches lag behind writes; a pool indexes files concurrently; failed jobs are retried |
| Index aliases (`_base.py`) | aliases and versioned backing indices | `ensure_indices`, `reindex`, `swap_alias` | test-then-act by several processes; migrations are interrupted; the application keeps writing |
| Permissions (`apps/permissions`, `permission_store.py`) | one record per user in Elasticsearch, a cache per process | `upsert`, `resolve_allowed_projects` | cache fills race with updates; other processes' caches are not told |
| Rate limiter (`apps/ratelimit`) | a deque of time stamps per key | `allow` | the clock is read before the lock is taken |
| Retrieval (`apps/retrieval`) | a shared thread pool, an LRU/TTL cache of query embeddings | `search`: legs run concurrently, rank fusion, graph expansion, reranking | bounded pool, legs that fail, cache at its cap |
| Search (`apps/retrieval`, `_search.py`) | none of its own | legs, rank fusion, graph expansion, communities, reranking | hits of several legs are one object; scopes, cuts and hops interact |
| Git cache (`adapters/git`) | bare mirrors and worktrees on disk, a lock per repository and process | `checkout`, `cleanup` | several processes share the mirrors; clones are interrupted; a checkout that raises leaves its directory |
| Chunking (`apps/chunking`) | none | windows of lines with overlap, sections, declarations, splitting, ids, parents, symbols, edges | boundaries, line numbers, names that are not unique |
| Embedding provider (`adapters/embeddings`, `adapters/http`) | none | batches in a pool, retries | results arrive in any order, too few, or not at all |
| Communities (`apps/communities`) | community documents | label propagation over the symbol graph, deletion and indexing of the result | labels are replaced in place; the rebuild may raise anywhere; deletion sees the last refresh |
| The rest | settings, HTTP clients, authentication, redaction, metrics, evaluation, answer formatting | | stateless or external |

How they interact: the routes write job documents and the poll threads of every
API process read them; a poll thread runs the indexing service, which checks out
a worktree through the git cache, chunks and embeds files, and writes through the
aliases that migrations move; searches go through the rate limiter, resolve
permissions, and read through the same aliases.

What makes each part correct:

* Queue - it implements the abstract queue `LeasedQueue`; an enqueued job is run under at most one
  unexpired lease; a claim never takes a settled job; no claim is lost from the attempts counter;
  success implies a result; an active job is settled in the end.
* Indexing - once jobs have settled, the indices are the snapshot of the commit,
  whatever failed before; after a full job no edge lacks its chunk; pruning deletes
  nothing that is still linked.
* Aliases - an alias serves one backing; a re-run never copies into the serving
  one; moving an alias changes no document.
* Permissions - an answer is one the store gave within the last cache lifetime; a
  process drops everything its own update outdated.
* Rate limiter - no window holds more than the limit; nothing is refused below it.
* Retrieval - a search ends, also when legs raise and the pool closes; an answer is
  built from all its legs and holds nothing out of scope; expansion stays within its hops;
  the embedding cache keeps its lifetimes and drops the least recently used entry.
* Git cache - a job gets the files it asked for; checkouts end, raise only for cause, and
  leave no directory that nobody knows of.
* Chunking and embedding - cutting loses no line; numbers, parents, symbols and edges name
  what is there; a vector belongs to the text it is stored with.
* Communities - symbols of one community are joined by edges; propagation converges; the
  index holds the communities of the last rebuild.

## Modules

| Module | Models | Runs |
|---|---|---|
| `LeasedQueue` | what a queue of leased jobs promises | |
| `JobQueue`, `MCJobQueue` | queue, routes, poll threads; implements `LeasedQueue` | `job_queue`, `job_queue_liveness`, `job_queue_enqueue` |
| `IndexStore` | indices with delayed refresh, bulk and delete-by-query | |
| `IndexingService`, `MCIndexingService` | jobs over `IndexStore` | `indexing`, `indexing_generations` |
| `AliasMigration`, `MCAliasMigration` | start-up, migration, traffic through one alias | `alias_migration` |
| `RateLimiter`, `MCRateLimiter` | one process's limiter | `rate_limiter` |
| `PermissionService`, `MCPermissionService` | store, caches, requests, updates | `permissions` |
| `Retrieval`, `MCRetrieval` | searches, their thread pool, the embedding cache | `retrieval` |
| `Chunking` | windows, sections and splitting over one file | (in `file_documents`) |
| `FileDocuments`, `MCFileDocuments` | extends `Chunking`: declarations, documents, embedding, the index of one file | `file_documents` |
| `Communities` | rebuilds of the communities of a changing graph | (in `code_graph`) |
| `HybridSearch`, `MCHybridSearch` | extends `Communities`: a search over its graph and its documents | `code_graph` |
| `GitCache`, `MCGitCache` | mirror, locks and worktrees of one repository | `git_cache` |
| `Places` | filters and stable sorts of sequences, as functions | (in `file_documents`, `code_graph`) |
| `JobQueueProofs`, `IndexingServiceProofs`, `RateLimiterProofs`, `GitCacheProofs`, `AliasMigrationProofs`, `PermissionServiceProofs` | theorems about the module they are named after | |
| `ChunkingProofs` | theorems about `Chunking` and `FileDocuments` | |
| `SearchProofs` | theorems about `Communities`, `HybridSearch` and `Retrieval` | |

`Places` defines filters (`Picked`) and stable sorts (`Descending`) by the places of the
elements, where the usual definitions recurse: the lists of chunks, texts and hits that
the code filters and sorts are then something a proof can speak of.

### JobQueue

`doc` and `results` are the two Elasticsearch indices, `seqNo` the version that
`if_seq_no` compares. A poll thread's `pc` follows `_poll` and `_run`: `poll`,
`claim` (it holds the search's `hits`, taken at `stamp`), `execute`, `record` and
`finish` (the two writes of `finish_job`), `fail`. A request handler's `pc` separates
the read of `enqueue_job` from its write. Every call that may raise has an action
for it: `ClaimRaises`, `ExecuteRaises`, `RecordRaises`, `FinishRaises`,
`FailRaises`; a write that raises may have been applied. `Crash` drops what the thread
knew. `epoch` and `claims` are history. Status writes use `refresh=True` and claims
are conditional, so searches are modelled as current (a stale hit could only be refused).

`Promised` maps this to `LeasedQueue`, in which there are no documents, versions, hits or
requests: a job is taken while it is free and for no longer than the lease, settled only by
a worker that took it, and succeeds only with a recorded result. The map is the obvious one:
status and lease from the document, a worker's job from the claim of its thread, and
recorded results from the other index. What the
abstract queue does not promise is as telling: a lease that ran out does not stop its
worker, which may settle the job over a later claim.

Bounds: two jobs, two threads, two handlers, three requests, a clock of two ticks
with a lease of one: enough for a claim, its expiry, a second claim while the first
thread still runs, and a request for a failed job in between. Faults that abandon a
job are enabled only while its lease can still expire before `MaxClock`; otherwise the
bounded clock, not the code, would leave it unsettled.

Fairness of `job_queue_liveness`: time passes, and each poll thread that is up takes
its next step (`_poll` loops until the process stops, and every exception inside is
caught). Nothing makes a crashed process come back; one thread of the run never
crashes, which is what the claim "jobs survive restarts and any worker can claim
abandoned jobs" needs.

### IndexStore and IndexingService

`live` is what a read by id sees, `seen` what a search sees, `unrefreshed` the ids
written since the last refresh, on which a delete-by-query conflicts and proceeds. A
document is a kind, a path and a content: one document of each kind stands for all of
them. Ids follow the code: chunk and edge ids hash the content, file and symbol ids do
not. A worker runs a job one request at a time: deletions, then up to `FileWorkers`
files at once, each four deletes and a bulk insert, then the repo document, and for a
full job pruning and the refresh inside `rebuild_communities`. A job of the webhook (`push`)
becomes a full one when the comparison of its commits is empty (`FullJobs`). Exceptions and crashes
may strike between any two requests, and inside the bulk insert. The history of the
branch and GitLab's list of renames are constants; the instance renames a file,
rewrites one, turns one into a submodule, one into a binary, brings a path back, and ends
with a commit that changes no file.

A running job whose lease has run out (`LeaseExpires`) may be claimed by a second worker while
the first one is still at it; both then write, and either settles the job. Pruning is three
requests: the aggregation of the sources of all edges (`ListSources`), which returns
`MaxSources` of them at most and says nothing when it left some out, the read of their chunks
by id (`FindOrphans`), and the delete (`DeleteOrphans`). `cut` is history: the last list was cut.

Three facts about the environment are constants so that runs can say what the code
needs. `InOrder`: a job is not run again once a later one of the branch has started.
`LeasesHold`: an execution ends, or its worker dies, within its lease, which is 900 seconds by
default (`lock_ttl_seconds`) and renewed by nobody. `RefreshBetween`: a refresh interval passes
between two jobs. The queue guarantees none of them. With all three, the indices converge
(`indexing`); without the last, two generations of a file stay (`indexing_generations`). Jobs
that fail may be given up: convergence is claimed for jobs that are done, the absence of orphan
edges for any full job that is done and whose list was not cut.

Bounds: four jobs over four commits of three paths, two files at once, one worker (in order,
jobs do not overlap), two exceptions or crashes, and room for two sources in the list, where
jobs that were given up leave more of them.

### AliasMigration

One alias of the eight; they are treated one after the other and independently. Each
Elasticsearch request is an action. `migrating` lets the run stop the traffic during a
migration (`LiveTraffic = FALSE`), which is what it takes to keep the documents; with
`LiveTraffic = TRUE` it goes on, as the runbook has it, and `MoveKeepsDocuments` fails (see
below).

The copy is a task of the server (`tasks`): `StartTask` takes what its source was at the last
refresh, as the reindex API reads it by a search, and goes on document by document
(`CopyDoc`) whatever becomes of the command that asked for it. `Crash` stands for a command
that dies and for one whose request times out; neither ends the task. Two more facts about the
environment are needed: `TasksAwaited`, a migration is asked for when no task of an earlier one
goes on (the runbook has one operator process and forbids two competing invocations,
`docs/MIGRATIONS.md:66-68`, and a task that outlived its command competes in the same way), and
`RefreshFirst`, the serving index has been refreshed since the last write before a migration.
The code ensures neither.

Bounds: three start-ups of the old version and a migration that is cut off up to twice (three
tasks), over two documents and four writes.

### RateLimiter

`Arrive` reads the clock, `Admit` is the critical section. `MaxDelay` is the longest a
thread waits for the lock; the properties are stated with that slack, and without waiting
(`MaxDelay = 0`) they are the plain sliding window. `admitted` is history.

### PermissionService

Two processes with a cache each, request threads that go through `lookup`, `get` and
`store` as separate steps, and updates that write the record and then clear the cache of
their own process. The store keeps every record as history so that an answer can be
compared with what the store said earlier. `AnswersRecent` bounds the age of an answer by
the cache lifetime plus the delay of one lookup and one fill, in all processes; that the
README of code-rag calls authorization "consistent across multiple API workers" is to be
read with that bound.

### Retrieval

A search's `pc` follows `search`: it submits its first legs and waits for the embedding, submits the
legs that need it, joins all legs in the code's order, and ranks. `leg` holds the state of each
future, `queue` the work queue of the shared `ThreadPoolExecutor`, `open` whether `close()` was
called (queued legs still run, and `submit` raises). Each `submit` is a step, so that `close()` and
other searches come in between and a search may fail with part of its legs in the queue. `IndexLegs`
stands for the legs that only search the index (bm25, symbol, edge): they behave alike, and the
instance has one of them. The embedding leg follows `_cached_query_embedding`: the clock is read
when the leg starts (`stamp`), the lookup is one critical section, the provider is called outside of
the lock (`calling`), and storing and trimming are another one. Fusion, graph expansion and
reranking change no shared state: here they are one step, which may raise; `HybridSearch` has them
in detail.

Bounds: two searches over three queries, a pool of two workers, a cache of two entries
that earlier searches have filled (`Warm`), a lifetime and a clock of one tick, one call
that raises. Two searches are eight legs for two workers, so the pool is full; both can miss
on one query together and store in either order; a third query makes the cache evict, and a
failed search leaves legs in the queue.

Fairness: one weak fairness condition on `Proceed`, i.e. the process keeps running
while one of its threads can, and calls return or raise (the HTTP clients have timeouts).
Arrivals, `close()` and the clock are not fair.

### Chunking and FileDocuments

`Chunking` cuts one file. A line is its width, because that is all the cutting looks at; a
chunk carries the numbers that it will be cited with (`first`, `last`) next to the lines its
text really is (`from`, `to`), so that the two can be compared. `Extract` chooses between raw
chunks and windows over the whole file, `Keep` and `Split` are the two branches of
`split_large_chunks`, `Window` is one turn of the loop of `fixed_size_chunks`. `SplitLast` is
there because a text joined from lines and split again has lost an empty last line.

`FileDocuments` starts before and goes on after it. `Parse` turns the nodes of a syntax tree
into declarations the way each family of chunkers does: Python does not look into functions,
the grammar chunkers look everywhere, the regular expressions guess where a declaration ends.
Trees, matches and the lines with a credential are inputs. `Build` is everything between the
last window and the first request: ids (`Id`), parents, symbols, edges, chunks left out for a
credential, and the vectors that stored chunks of the same id and text hand over. `Send`,
`Answer` and its failing siblings are the requests of `HttpEmbeddingProvider`, batch by batch
in its pool, with the retries of `request_with_retries`; `Replace` puts the vectors where they
belong and writes, `Fail` is the exception. `Again` indexes the file once more, possibly under
a changed header. A text is what distinguishes it (lines, id, parents, header, redaction), and
a vector is the set of texts it was the answer to: one, unless the provider answers several
with one object (`AnswerOneObject`), which `_batch_items` gives to every text of the batch.
`shared` remembers that it happened; `VectorsMatchText` says what holds then and what without.
An edge is the id of its source chunk; which targets it has, and that unnamed windows of
configuration and route files have edges too, makes no difference to where edges point from.

Bounds: texts of up to three lines that are empty, short or longer than a chunk, and chosen
ones of five; five-line documents with headings; five-line sources whose trees have a class
with a method that declares a function, a class inside a block with a method on the same
line, two functions of one name, two classes of one, a constructor inside of its class and one
on the same line; overlaps from negative to longer than any
window. Two runs over the file, batches of two texts, two workers, two requests that go wrong,
and as many attempts: enough for a batch that fails once and succeeds, one that fails for
good, and answers out of order next to reused vectors. The limit has to be positive (7000
by default): with zero a window would take no line at all.

### Communities and HybridSearch

`Communities` is `rebuild_communities` with `CommunityDetector` inside of it. `Adjacency`
resolves names of edges as the detector does: the symbol of that name, or the only one with
that last component. `Visit` replaces the label of one symbol by the most frequent one of its
neighbours, in place and in the order of the names; a round ends when all are visited, and
the rounds end when one changes nothing or `MaxRounds` is reached. `Detect` groups, ranks and
cuts; `Delete` and `Write` are the two requests, with the same delayed refresh as `IndexStore`;
`Fail` is the exception that the service swallows, anywhere in between. `Reindex` lets other
jobs change the edges between two rebuilds.

`HybridSearch` composes a search with it: it reads the edges that jobs left and the community
documents as of the last refresh. Which chunks a query matches, and in which order, is any
choice among those in scope (`Matching`); everything made of them is the code's: `Fuse` with
the weights of reciprocal rank fusion in fixed point, `matched` (a hit is the object of the
leg that found it first, so the mark of the edge leg is lost on a chunk that the symbol leg
found), `Seed`, `Expand`, the second fusion as a running sum, the boosts, the blend with the
cross-encoder's scores and the order of equal scores.

`neighbor_chunks` makes three requests, each of a size of its own: `EdgePage` for the edges,
also for those that lead to no symbol, `SymbolPage` for the symbols their ends may name, and
what is still missing for the chunks. `Resolved` is every choice that Elasticsearch may make
for the first two.

Bounds: two rebuilds over four symbols and two names that are no symbol's, one ambiguous and
one of another project; any graph made of seven edges, changed edge by edge between rebuilds;
two rounds; one request that raises. Searches run over two of the graphs, with one seed, two
hops and two neighbours, pages of two edges and three symbols (the code has 5 and 2 for each
neighbour asked for, at least 25 and 20), so that each cut bites, and for a user who may see
the project of the symbols and one who may not. `UpdatesConverge` gives a measure that every
changed label improves: more links join equal labels, or as many do and no label has grown. So
the cap on rounds is not what ends propagation.

### GitCache

The mirror of one repository, the lock each process has for it, and the directories of
worktrees. `Begin` makes the directory before the lock is asked for, as the code does; under
the lock a thread clones or fetches and then checks out. A git command has a begin and an end
(`Clone`, `GitReturns`), because another process may run one meanwhile: the mirror gets the
branch as the server had it at some moment in between, also when that sets it back. `Die` kills
a process in any step, with or without its git command.

The worktree is a plain clone of the mirror, so `refs/heads/<branch>` exists there only for the
branch that the mirror's HEAD names, which is the server's default when the mirror was cloned:
`default` says whether the indexed branch is that one, `atHead` what the mirror made of it. A
job without a commit always raises for another branch. A push may be forced (`Push`):
`history` holds, for each commit, what the branch had when it was pushed, and a commit that the
branch has lost is found as long as git has not removed it (`MayFind`, `kept`). `cleanup`
removes the directory, or fails, logs it and leaves the directory (`Use`). `left` and `stuck`
are history: the checkouts that raised or whose process died, and the directories whose removal
failed.

Bounds: two threads, in one process or in two; one push, three checkouts and one failure or
death. A thread that waits for the lock, one that holds it, and in the other deployment a
process that interferes are all there.

Fairness of `CheckoutEnds`: git commands end and a thread that can go on does
(`WF_vars(Proceed(t))`). The first is an assumption, as `_run` sets no timeout
(`git_repo_cache.py:60`): a git command that hangs keeps the lock of its repository. A thread
that waits for the lock is helped by nothing stronger: the lock need not be fair, because there
are finitely many requests to overtake it.


## What the runs showed

The passing runs hold. Two runs show where the code does not do what its
documentation says; each is a finding in `PROJECT.json`:

* `job_queue_enqueue` - a request that saw a failed job overwrites it after another
  request has requeued it and a thread has claimed or even completed it.
* `indexing_generations` - replacing a file within a refresh interval of its last
  replacement leaves both contents searchable.

Modelling showed more that a user of this code should know. No run is spent on it; the
properties claim what is left, and say so in their comments:

* Removed paths - a full index deletes no document of a path that is gone, while
  `README.md:382` of code-rag says that it stores only active snapshots. A push that sets a
  branch back has an empty comparison and becomes such a full index. `SnapshotConverges` fails
  as soon as two full jobs have a removal between them.
* Two workers at one job - a job that outlives its lease is claimed by a second worker while
  the first goes on. With `LeasesHold = FALSE` and two workers `SnapshotConverges`,
  `NoOrphanEdges` and `PruneKeepsLinkedEdges` all fail; the lease has to be longer than any job.
* Pruning beyond 50 000 sources - the list of sources is cut without notice, and orphans beyond
  it stay. `NoOrphanEdges` fails without its condition on `cut`.
* Copies that outlive their command - a reindex whose command died or timed out goes on in the
  server. A re-run that does not wait for it moves the alias, and the old task then writes into
  the serving backing: `NeverCopiesOverServing` fails with `TasksAwaited = FALSE`.
* Writes just before a migration - the copy reads what searches see, so a write since the last
  refresh is lost even without traffic: `MoveKeepsDocuments` fails with `RefreshFirst = FALSE`.
* Migrations under traffic - a document written through the alias during a migration is
  lost, and one deleted comes back, though `docs/MIGRATIONS.md:6` speaks of an index swapped
  underneath live traffic: `MoveKeepsDocuments` fails with `LiveTraffic = TRUE`. The rollback
  by reindexing (`docs/MIGRATIONS.md:56-59`) copies into an older backing that exists already,
  so what was deleted since the migration comes back too.
* Line numbers of pieces - the pieces of a declaration or section longer than
  `max_chunk_chars` are numbered from line 1 of it, not of the file (`WindowChunk`), and carry
  no symbol, although `python_chunker.py:3` speaks of "accurate line boundaries". Pieces of
  two declarations can share an id, and one of them is lost: `NumbersNameTheText` and
  `IndexLosesOnlyPieces` claim the rest.
* One line, one name, one id - a class written on one line with its constructor (as in Java or
  C#) and the constructor have the same lines and the same name, hence one chunk id, and the
  later one takes the place of the class in the index: members then have a parent that is no
  class. The proofs of `ParentsEnclose` and `IndexLosesOnlyPieces` failed at this case; the
  properties now say it, and the instance of `file_documents` has it.
* Text before the first markdown heading is in no chunk (`Section`).
* A text cut into windows ends with windows that repeat the tail of the previous one and add
  nothing.
* Two classes of one name share their members: a method is linked to whichever was
  registered last. A chunk left out for a credential leaves the `parent_chunk_id` of its
  members dangling.
* Vectors handed over from stored chunks are not compared by model, so that changing the
  model alone re-embeds nothing, where `docs/MIGRATIONS.md:63-65` expects it. An answer of the
  provider that is one object instead of a list gives its vector to every text of the batch,
  and later runs reuse it; too few vectors make the file fail.
* `neighbor_chunks` cuts its result to size before chunks that were seen are dropped, and reads a
  page of edges and one of symbols before that, which edges to nothing and chunks of one name use
  up. So an expansion may come back with fewer neighbours than there are. Neighbours are resolved by
  the last component of a name. The mark of an edge match is lost on chunks the symbol leg found
  before.
* `community_detector.py:13` calls the propagation synchronous; labels are replaced in place,
  which is also why it cannot oscillate (`UpdatesConverge`).
* A clone that is interrupted leaves a directory that later checkouts fetch into. The
  lock is one per process: two processes may make a fetch of each other fail, or set a mirror
  back. A checkout that raises leaves its worktree directory, and so does a removal that fails.
* A job without a commit of a branch that is not the server's default can never be checked out,
  and each attempt leaves a directory; the same goes for a commit that a forced push removed,
  once git has dropped it from the mirror.
* A comparison that GitLab cut short is taken for complete.
* `finish_job` may raise after the status was written; the job then ends as failed, with
  the result of a success next to it.

## Proofs

Every safety invariant and every action property that a passing run checks is also proved.
Each theorem holds for all values of the constants that satisfy the named assumption of its
module, and is checked to the last leaf; what a theorem assumes beyond that stands in its
ASSUME. In each module the argument has the same three parts: an invariant stronger than the
property, that every step keeps it (one step per action), and that it implies the property.

`JobQueueProofs` (from `QueueAssumption`):

* `TypeCorrect` by `Typing`: `TypeOK` alone is not inductive; `Typed` adds that a thread
  past `poll` holds a job, one that records has an outcome, and a request past the route
  has a job.
* `LeasesExclude` by `LeaseInvariance`: `LeaseInv` adds to the property that stamps lie in
  the past (`StampsPast`), that a hit whose version is still current is claimable at its
  stamp (`FreshHits`: this is where the conditional update earns its keep), and that the
  document of a job carries the latest lease taken since it was enqueued (`LatestLease`).
  Steps fall in two classes, those that take no lease (`LetGo`) and the claim (`TakeLease`).
* `ClaimsTakeClaimable`, an action property, from the same invariant.
* `SucceededHaveResults` by `ResultInvariance`: a thread about to write the status has
  written the result.
* `AttemptsCounted`: besides the property, a hit whose version is current shows the current
  attempts (`CurrentHits`), so that a claim that writes the attempts it read plus one loses
  no other claim.
* `QueueKeepsPromise`, that `JobQueue` implements `LeasedQueue` under `Promised`. Every action
  maps to one of the abstract queue or to a stutter; `ClaimsOfRunners` says when a claim of
  the concrete queue finds the job free in the abstract one.

`IndexingServiceProofs` (from `IndexingAssumption`), for any history, list of jobs, number of
workers and files in parallel, and number of exceptions and crashes:

* `JobsOneByOne`: with jobs claimed in order (`InOrder`) and within their leases
  (`LeasesHold`), a job that runs has one worker, those before it have ended, those after it
  wait. Nothing else keeps two jobs of a branch, or two executions of one, apart.
* `PruningKeepsLinkedEdges` needs only that: nobody writes a chunk between the read by id and
  the deletion (`OrphansOnly`), however refreshes fall.
* `FullJobsLeaveNoOrphans` by `DocsInvariance`, under `Environment` (`InOrder`, `LeasesHold` and
  `RefreshBetween`), unless the list of sources was cut. The invariant `DocsOf` says of a worker's
  job: what it has still to delete or replace is as the refresh before the job left it, so a
  delete-by-query sees it and does not conflict (`Untouched`); the documents of a path go kind by
  kind, chunks first (`Cleared`); and an edge that has lost its chunk is an old one, which pruning
  can find and delete (`Orphans`).
* `JobsConverge` by `SnapshotInvariance`. Of the job whose turn it is (`Turn`: all before are
  done, none after has started) `SnapshotOf` says that the paths it does not touch are as the
  job before left them, through all its attempts, and that a path it is through with is as its
  commit has it. A second attempt begins anywhere, which is why nothing is claimed of touched
  paths while the job is not through with them.

  Without `InOrder` an older job writes over a newer one, without `LeasesHold` two executions of one
  job do, and without `RefreshBetween` two generations stay, so no hypothesis can be dropped.
  `HistoryFollowed` says of the history what the code needs for the claim to be true: the first job
  is full, an incremental one follows a job of the commit before its own, what GitLab calls renamed
  has changed, and no full job has a path to remove, since a full index removes none. TLC evaluates
  it for the instances (`MCHistoryFollowed`).

`RateLimiterProofs` (from `LimiterAssumption`): `Invariance` relates the bucket to the
history: the bucket is a suffix of the admissions, each stamp is at most `MaxDelay` older
than its admission, and what was popped is older than the window at the time of popping.
`BucketsTyped`, `LimitsEveryWindow` and `RefusesOnlyFull` follow.

`ChunkingProofs` (from `ChunkingAssumption`), for files of any length: `Invariance` proves
the conjunction of where the chunker is in the list of raw chunks (`Position`), which text is
being windowed (`TextKnown`), that the windows so far hold every line before the start of the
next one (`WindowsCover`), and that every raw chunk passed is in chunks (`PassedSettled`). What
a line's width is does not matter there, only that the limit is positive, so that a window
takes at least one line and the next one starts no later than this one ended. `TypeCorrect`,
`LosesNoLine` and `NumbersTheText` follow. `AdvancesEveryWindow` also needs that a wider range
of lines is no shorter text, which is where widths come in.

The same module goes on to `FileDocuments` (from `FileDocumentsAssumption`), for any number of
lines, batches, workers, attempts, faults and runs over the file. `DocInvariance` proves `DocInv`:
what the chunks are (`ChunkInv` adds to the invariant of the chunker that each chunk is known: a raw
chunk, or a window of one or of the file); that the documents are those of the kept chunks, in their
order (`Built`); that the batches are the slices of the texts that have no vector, each answered
with its own texts, by one object, too short, or not at all (`Batched`); that no request is on its
way once a file is through (`Quiet`); and what every stored document was made of (`StoredFiled`).
The lemmas that carry it: the batches tile the list of texts, so the concatenation of complete
answers is that list (`SlicesTile`, `TilesCount`); if no answer is missing at the end, none was too
short (`EnoughIsAll`); two chunks of one id are one chunk, unless one of them is a piece or they are
declarations of one name on the same lines (`SameIdSameChunk`). `VectorsOfTexts`,
`LinksAlwaysResolve`, `LosesOnlyPieces` and `FailuresHaveCauses` are its parts.

`ParentsAreAround` assumes `ParsedFiles`: every file is what `Parse` makes of a `Tree`, whose
nodes are inside of what the nodes around them are inside of, and only code has classes. That
is what the parsers deliver and nothing about names; TLC evaluates `Tree` for the trees of the
instance (`MCTrees`). The lemma `ParsesNest` finds the class of the outermost parent around the
declaration, whichever language family parsed it, and `StoredNest` carries it through ids
into the index.

`SearchProofs`, about three modules:

* Communities, for any graph (from `CommunitiesAssumption`). `LabelInvariance` proves that a
  set of symbols which no edge leaves keeps its own labels, round after round and visit after
  visit; `LabelsFollowEdges` is that for the components of the graph. `RebuildsReplace` says
  that what is stored is what the last rebuild wrote; it assumes `RefreshBetween`, because a
  deletion by query sees the index as of its last refresh. `LabelsConverge` counts: the links
  of a symbol that agree are as many as its neighbours with its label (`VotesAreLinks`, a
  bijection), a visit changes no other link, and the label that wins has at least as many.
* HybridSearch (from `HybridSearchAssumption`). `SearchInv` says that all a search has found is
  `Visible` to its user, and `Walked` that the expansion after k requests is within k edges of the
  seeds and, after the first, has missed no neighbour of the seeds if they and all edges at the
  seeds fit in one request (`NearFound`). The page of symbols needs no condition: it is never
  smaller than the answer (`PagesHold`). `AnswersInScope` and `ExpansionBounded` follow; the latter
  needs that the recursive function `Reach` exists (`ReachExists`, by the least number at which it
  would not).
* Retrieval (from `RetrievalAssumption`). `PoolInv` relates the queue, the legs and the place
  of each search: a leg in the queue is there once and has not begun (`Queued`), and what a
  search is past has ended (`Progress`). It gives `OutcomesHaveCauses`. `CacheInv` adds that
  an entry expires no later than a lifetime after its making and that stamps lie in the past
  (`Lifetimes`), and that entries stand in the order of their last use and never exceed the
  cap (`Recency`). It gives `HitsFresh` and `LeastRecentEvicted`: two searches that missed
  together may store in either order without breaking either.

`GitCacheProofs`: `GitTyping`, then `LockHeld` (the thread that works on a mirror is the one
that holds the lock of its process), then `CheckoutInvariance`, which follows a request into
the mirror and the worktree: what was asked for was on the server when the job began
(`Asked`), a git command sees the branch as of then or later (`Saw`), what a fetch brought
stays in the mirror until the checkout where all threads are of one process (`Brought`), and a
worktree holds the commit asked for, or, for the head of the branch and one process, nothing
older than the request (`Fresh`). `WorktreesFresh` follows. `HistoryInvariance` says of the
branch that it loses commits to forced pushes only and that none comes back (`Descends`), so
that a commit it still has was in it whenever the mirror was fetched; with the mirror as each
step expects it (`MirrorInv`) this gives `CheckoutsFailForCause`. `NoOtherWorktrees` needs that
a directory has one user, and none once it is abandoned (`WorktreeInv`). They use no fairness.

`AliasMigrationProofs`: `AliasTyping` needs only `AliasAssumption`. The others are under
`OneMigration`: no traffic during a migration, one operator at a time (`docs/MIGRATIONS.md:66-68`
has it run by hand) who waits for the task of an earlier run (`TasksAwaited`), and start-ups of one
version; `MovesKeepDocuments` also assumes `RefreshFirst`. The invariants say what a thread between
its test and its act still may rely on (`Single`, `Putting`, `Migrating`, `Moving`), and `CopyInv`
that what the new backing has and what the copy has still to write are the documents of the serving
one. `AliasAlwaysServesOne`, `CopiesElsewhere` and `MovesKeepDocuments` follow.

`PermissionServiceProofs`: `PermissionTyping`; `OwnUpdatesAreSeen` by `OwnInv`: a server has
completed no update of a record that was not written, and neither is an editor about to;
`AnswersAreRecent` by `RecentInv`: what a request is about to store was current when it read
it (`Fetched`), its next step is at most `MaxDelay` away (`Prompt`), and an entry expires one
lifetime and one fill after its record was replaced (`Fresh`). The theorem assumes
`TTL + MaxDelay > 0`: its bound is strict, and without lifetime and delays an answer may be
given in the very tick in which its record is replaced.

Only model-checked:

* Liveness - `ActiveJobSettles`, `SearchEnds`, `CheckoutEnds`. The prover handles neither
  fairness nor ENABLED. (`UpdatesConverge` is the safety half of termination: the measure is
  proved to improve, that rounds therefore end is not stated as a theorem.)
* What the two runs that end in a violation show; a counterexample is its own proof.
* The arithmetic of ranking: which of the hits in scope come first is computed by TLC and no
  property is about it.

Two remarks on form. Induction as a rule over formulas is not available to the installed
provers; where a proof needs it, it takes the least number that would be a counterexample
(`LeastOf`, from `WFMin`). And `ChunkingProofs` and `SearchProofs` each have their own lemmas on
numbers, sequences and `Places`, as each is self-contained.

## Plan

Done, in this order: the queue and its proofs; indexing; aliases, permissions and the limiter;
retrieval; chunking, then from chunks to documents; communities and the search over their
graph; the git cache; the abstract queue; the proofs about aliases, permissions,
communities and checkouts; those about jobs and snapshots, documents, searches and the cache.

Left:

1. An abstract bounded cache that the cache of `Retrieval` implements, and an abstract index of
   snapshots that `IndexingService` implements, job by job, under the hypotheses of
   `JobsConverge`.
2. That what is stored of a file depends only on the file and its header: two runs with one
   header that end well leave the same index.
3. `GitCache` under `IndexingService`: the files of a job as those of its worktree, which for
   a job without a commit may be any head since it began.

## Not modelled

* What Elasticsearch does with a query: scoring, analyzers, mappings, kNN. Any choice
  among the documents in scope stands for it.
* Numbers and text of models: embeddings, cross-encoder scores, MaxSim; they are inputs,
  or stand for the text they were made from.
* Text heuristics: query expansion and classification, secret redaction, the file
  classifier (constant `Skipped`), the grammars of tree-sitter and the regular expressions of
  fallback chunking (their results are inputs), labels and summaries of communities, the layout
  of answers.
* Services without state of their own: the authenticator, answer providers, GitLab's
  lookups of projects, metrics, repository metadata, the evaluator, the assembly of the API,
  settings and domain models. What matters of the settings are constants of the modules.
