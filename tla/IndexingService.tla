--------------------------- MODULE IndexingService ---------------------------
(***************************************************************************)
(* IndexingService over IndexStore: the full and incremental jobs of one   *)
(* project and branch, run by queue workers that fail, crash and are       *)
(* retried.  A job deletes and replaces files one Elasticsearch request at *)
(* a time, several files of a job at once.  The repository's history is a  *)
(* constant; chunking, embedding and the community index are left out.     *)
(***************************************************************************)
EXTENDS IndexStore, Integers, Sequences

CONSTANTS
    Absent,          \* no such path in a commit
    NotAFile,        \* a path that is no regular file: a submodule, a dangling link
    History,         \* the commits of the branch: a sequence of [Paths -> content]
    Renames,         \* for each commit, the pairs <<old, new>> GitLab reports as renamed
    Skipped,         \* contents the classifier refuses (binary, generated, too large)
    JobList,         \* the jobs in the order they are enqueued: [type, commit]; a
                     \* "push" comes from the webhook
    Workers,         \* queue workers
    FileWorkers,     \* index_file_workers
    InOrder,         \* environment: a job waits for the earlier ones to settle
    LeasesHold,      \* environment: an execution ends, or its worker dies, within its lease
    RefreshBetween,  \* environment: a refresh interval passes between two jobs
    MaxSources,      \* the size of the aggregation of source ids: 50_000
    MaxFaults        \* bound: exceptions and crashes

Commits == 1..Len(History)
JobIds  == 1..Len(JobList)
Contents == Versions \cup {Absent, NotAFile}

ASSUME IndexingAssumption ==
    /\ NoVersion \notin Versions /\ Absent \notin Versions /\ NotAFile \notin Versions
    /\ History \in Seq([Paths -> Contents])
    /\ Renames \in [Commits -> SUBSET (Paths \X Paths)]
    /\ Skipped \subseteq Versions
    /\ JobList \in Seq([type : {"full", "incremental", "push"}, commit : Commits])
    /\ \A k \in JobIds : JobList[k].type # "full" => JobList[k].commit > 1
    /\ FileWorkers \in Nat \ {0} /\ MaxSources \in Nat /\ MaxFaults \in Nat
    /\ {InOrder, LeasesHold, RefreshBetween} \subseteq BOOLEAN

VARIABLES
    jobState,    \* new, running, expired (running, its lease has run out), failed, done
    job,         \* the job a worker runs, or 0
    phase,       \* where it is in that job
    step,        \* for each path of the job, the next request for it
    broken,      \* an exception was raised while files were indexed
    orphans,     \* the source ids prune_orphaned_edges listed, then those without a chunk
    cut,         \* history: the last such list was cut at MaxSources
    repo,        \* active_commit_sha of the repo document (0: none)
    faults       \* exceptions and crashes so far

jobVars == <<jobState, job, phase, step, broken, orphans, cut, repo, faults>>
vars == <<storeVars, jobVars>>

Phases == {"idle", "delete", "index", "repo", "prune", "lookup", "unlink", "refresh"}
Idle == [p \in Paths |-> "none"]

\* Type correctness.
TypeOK ==
    /\ StoreTypeOK
    /\ jobState \in [JobIds -> {"new", "running", "expired", "failed", "done"}]
    /\ job \in [Workers -> JobIds \cup {0}]
    /\ phase \in [Workers -> Phases]
    /\ step \in [Workers -> [Paths -> Kinds \cup {"none", "bulk"}]]
    /\ broken \in [Workers -> BOOLEAN]
    /\ orphans \in [Workers -> SUBSET (Paths \X Versions)]
    /\ cut \in BOOLEAN
    /\ repo \in Commits \cup {0}
    /\ faults \in 0..MaxFaults

Init ==
    /\ StoreInit
    /\ jobState = [k \in JobIds |-> "new"]
    /\ job = [w \in Workers |-> 0]
    /\ phase = [w \in Workers |-> "idle"]
    /\ step = [w \in Workers |-> Idle]
    /\ broken = [w \in Workers |-> FALSE]
    /\ orphans = [w \in Workers |-> {}]
    /\ cut = FALSE
    /\ repo = 0
    /\ faults = 0

-----------------------------------------------------------------------------
(* What a job touches.                                                     *)

Content(c, p) == History[c][p]

\* The comparison of a commit with the one before it.
Changed(c)     == {p \in Paths : Content(c - 1, p) # Content(c, p)}
RenamedFrom(c) == {r[1] : r \in Renames[c]}
RenamedTo(c)   == {r[2] : r \in Renames[c]}
Deleted(c)     == {p \in Changed(c) \ RenamedFrom(c) : Content(c, p) = Absent}
NewPaths(c)    == RenamedTo(c) \cup {p \in Changed(c) : Content(c, p) # Absent}

\* The job of a webhook becomes a full one where the comparison shows nothing, as after a
\* merge that changes no file; that of the incremental route then has nothing to do.
FullJobs ==
    {j \in {JobList[k] : k \in JobIds} :
       \/ j.type = "full"
       \/ j.type = "push" /\ Changed(j.commit) = {} /\ Renames[j.commit] = {}}

RegularFiles(c) == {p \in Paths : Content(c, p) \in Versions}

PathsToDeleteNoRenames(j) == IF j \in FullJobs THEN {} ELSE Deleted(j.commit)

\* Deleted paths, old paths of renames, and new paths that are not files.
PathsToDelete(j) ==
    IF j \in FullJobs THEN {}
    ELSE Deleted(j.commit) \cup RenamedFrom(j.commit)
           \cup (NewPaths(j.commit) \ RegularFiles(j.commit))

PathsToIndex(j) ==
    IF j \in FullJobs THEN RegularFiles(j.commit)
    ELSE NewPaths(j.commit) \cap RegularFiles(j.commit)

Indexable(c, p) == Content(c, p) \in Versions \ Skipped

FileDocs(c, p) == {[kind |-> k, path |-> p, version |-> Content(c, p)] : k \in Kinds}

-----------------------------------------------------------------------------
(* Jobs: claiming, failing, crashing.                                      *)

JobOf(w)  == JobList[job[w]]

\* Claimable: waiting, running with a lease that has run out, or failed and enqueued
\* again.  With InOrder no job is run again once a later one has started.
MayClaim(k) ==
    /\ jobState[k] \in {"new", "expired", "failed"}
    /\ \A i \in 1..(k - 1) : jobState[i] # "new"
    /\ InOrder => /\ \A i \in JobIds : i < k => jobState[i] \in {"done", "failed"}
                  /\ \A i \in JobIds : i > k => jobState[i] = "new"
    /\ RefreshBetween => Refreshed

\* The lease of a running job runs out; no worker renews it.  A worker that is still at
\* the job does not notice, and a second one may claim it.
LeaseExpires(k) ==
    /\ jobState[k] = "running"
    /\ LeasesHold => \A w \in Workers : job[w] # k
    /\ jobState' = [jobState EXCEPT ![k] = "expired"]
    /\ UNCHANGED <<storeVars, job, phase, step, broken, orphans, cut, repo, faults>>

ToDo(S) == [p \in Paths |-> IF p \in S THEN "chunk" ELSE "none"]

\* The worktree of the commit is checked out and the deletions begin.
Claim(w, k) ==
    /\ phase[w] = "idle" /\ MayClaim(k)
    /\ jobState' = [jobState EXCEPT ![k] = "running"]
    /\ job' = [job EXCEPT ![w] = k]
    /\ phase' = [phase EXCEPT ![w] = "delete"]
    /\ step' = [step EXCEPT ![w] = ToDo(PathsToDelete(JobList[k]))]
    /\ UNCHANGED <<storeVars, broken, orphans, cut, repo, faults>>

Leave(w) ==
    /\ job' = [job EXCEPT ![w] = 0]
    /\ phase' = [phase EXCEPT ![w] = "idle"]
    /\ step' = [step EXCEPT ![w] = Idle]
    /\ broken' = [broken EXCEPT ![w] = FALSE]
    /\ orphans' = [orphans EXCEPT ![w] = {}]

\* finish_job and fail_job write the status, whoever may have claimed the job since.
Release(w, outcome) ==
    /\ jobState' = [jobState EXCEPT ![job[w]] = outcome]
    /\ Leave(w)

Fault == faults < MaxFaults /\ faults' = faults + 1

\* The worker's process dies; its job stays running until the lease runs out.
Crash(w) ==
    /\ phase[w] # "idle" /\ Fault
    /\ Leave(w)
    /\ UNCHANGED <<storeVars, jobState, cut, repo>>

\* Outside the file pool an exception ends the job with a failed result, also
\* when the write of the repo document was applied before its reply was lost.
JobRaises(w) ==
    /\ phase[w] \in {"delete", "repo", "prune", "lookup", "unlink"} /\ Fault
    /\ repo' \in {repo} \cup IF phase[w] = "repo" THEN {JobOf(w).commit} ELSE {}
    /\ Release(w, "failed")
    /\ UNCHANGED <<storeVars, cut>>

-----------------------------------------------------------------------------
(* Files: delete_file and replace_file, request by request.                *)

Started(w) == {p \in Paths : step[w][p] \notin {"none", "chunk"}}

\* Deletions run one file after the other, the pool FileWorkers at a time.
MayStart(w) == Cardinality(Started(w)) < (IF phase[w] = "delete" THEN 1 ELSE FileWorkers)

Replaces(w, p) == phase[w] = "index" /\ Indexable(JobOf(w).commit, p)

After(w, p) ==
    CASE step[w][p] = "chunk"  -> "file"
      [] step[w][p] = "file"   -> "symbol"
      [] step[w][p] = "symbol" -> "edge"
      [] step[w][p] = "edge"   -> IF Replaces(w, p) THEN "bulk" ELSE "none"

\* The documents one delete_by_query of delete_file asks for.
QueryOf(w, p) == {d \in seen : d.kind = step[w][p] /\ d.path = p}

DeleteFile(w, p) ==
    /\ phase[w] \in {"delete", "index"}
    /\ step[w][p] \in Kinds
    /\ step[w][p] = "chunk" => MayStart(w)
    /\ DeleteByQuery(QueryOf(w, p))
    /\ step' = [step EXCEPT ![w][p] = After(w, p)]
    /\ UNCHANGED <<jobState, job, phase, broken, orphans, cut, repo, faults>>

BulkInsert(w, p) ==
    /\ step[w][p] = "bulk"
    /\ Put(FileDocs(JobOf(w).commit, p))
    /\ step' = [step EXCEPT ![w][p] = "none"]
    /\ UNCHANGED <<jobState, job, phase, broken, orphans, cut, repo, faults>>

\* Indexing one file raises, in the bulk request with some items written.  The
\* pool lets the files it has started finish and drops the others.
FileRaises(w, p) ==
    /\ phase[w] = "index" /\ step[w][p] # "none" /\ Fault
    /\ IF step[w][p] = "bulk"
         THEN \E D \in SUBSET FileDocs(JobOf(w).commit, p) : Put(D)
         ELSE UNCHANGED storeVars
    /\ step' = [step EXCEPT ![w][p] = "none"]
    /\ broken' = [broken EXCEPT ![w] = TRUE]
    /\ UNCHANGED <<jobState, job, phase, orphans, cut, repo>>

PoolRaises(w) ==
    /\ broken[w] /\ Started(w) = {}
    /\ Release(w, "failed")
    /\ UNCHANGED <<storeVars, cut, repo, faults>>

DeletesEnd(w) ==
    /\ phase[w] = "delete" /\ step[w] = Idle
    /\ phase' = [phase EXCEPT ![w] = "index"]
    /\ step' = [step EXCEPT ![w] = ToDo(PathsToIndex(JobOf(w)))]
    /\ UNCHANGED <<storeVars, jobState, job, broken, orphans, cut, repo, faults>>

FilesEnd(w) ==
    /\ phase[w] = "index" /\ step[w] = Idle /\ ~broken[w]
    /\ phase' = [phase EXCEPT ![w] = "repo"]
    /\ UNCHANGED <<storeVars, jobState, job, step, broken, orphans, cut, repo, faults>>

-----------------------------------------------------------------------------
(* The end of a job.                                                       *)

\* _index_repo; an incremental job is then done, a full one goes on to prune.
IndexRepo(w) ==
    /\ phase[w] = "repo"
    /\ repo' = JobOf(w).commit
    /\ IF JobOf(w) \in FullJobs
         THEN /\ phase' = [phase EXCEPT ![w] = "prune"]
              /\ UNCHANGED <<jobState, job, step, broken, orphans>>
         ELSE Release(w, "done")
    /\ UNCHANGED <<storeVars, cut, faults>>

ChunkOf(p, v) == [kind |-> "chunk", path |-> p, version |-> v]

FoundBySearch(p, v) == ChunkOf(p, v) \in seen
FoundAlways(p, v) == TRUE
FoundById(p, v) == ChunkOf(p, v) \in live

\* What a terms aggregation over the values S returns: MaxSources of them at most.
Buckets(S) ==
    {B \in SUBSET S : /\ Cardinality(B) <= MaxSources
                      /\ Cardinality(B) < MaxSources => B = S}

Sources == {<<d.path, d.version>> : d \in {e \in seen : e.kind = "edge"}}

\* prune_orphaned_edges: an aggregation of the sources of the edges searches see; that
\* it left some out is not looked at ...
ListSources(w) ==
    /\ phase[w] = "prune"
    /\ \E B \in Buckets(Sources) : /\ orphans' = [orphans EXCEPT ![w] = B]
                                   /\ cut' = (B # Sources)
    /\ phase' = [phase EXCEPT ![w] = "lookup"]
    /\ UNCHANGED <<storeVars, jobState, job, step, broken, repo, faults>>

\* ... then a read of their chunks by id ...
FindOrphans(w) ==
    /\ phase[w] = "lookup"
    /\ orphans' = [orphans EXCEPT ![w] = {o \in orphans[w] : ~FoundById(o[1], o[2])}]
    /\ phase' = [phase EXCEPT ![w] = "unlink"]
    /\ UNCHANGED <<storeVars, jobState, job, step, broken, cut, repo, faults>>

\* ... and a delete of the edges of the missing ones.
DeleteOrphans(w) ==
    /\ phase[w] = "unlink"
    /\ DeleteByQuery({d \in seen : d.kind = "edge" /\ <<d.path, d.version>> \in orphans[w]})
    /\ orphans' = [orphans EXCEPT ![w] = {}]
    /\ phase' = [phase EXCEPT ![w] = "refresh"]
    /\ UNCHANGED <<jobState, job, step, broken, cut, repo, faults>>

\* rebuild_communities refreshes what it reads, and swallows every exception.
RebuildCommunities(w) ==
    /\ phase[w] = "refresh"
    /\ Refresh({"chunk", "symbol", "edge"}) \/ UNCHANGED storeVars
    /\ Release(w, "done")
    /\ UNCHANGED <<cut, repo, faults>>

RefreshInterval ==
    /\ \E k \in Kinds : /\ {d \in live : d.kind = k} # {d \in seen : d.kind = k}
                           \/ \E key \in unrefreshed : key.kind = k
                        /\ Refresh({k})
    /\ UNCHANGED jobVars

WorkerStep(w) ==
    \/ \E k \in JobIds : Claim(w, k)
    \/ \E p \in Paths : DeleteFile(w, p) \/ BulkInsert(w, p) \/ FileRaises(w, p)
    \/ DeletesEnd(w) \/ FilesEnd(w) \/ PoolRaises(w) \/ IndexRepo(w)
    \/ ListSources(w) \/ FindOrphans(w) \/ DeleteOrphans(w) \/ RebuildCommunities(w)
    \/ JobRaises(w) \/ Crash(w)

Next ==
    \/ RefreshInterval
    \/ \E k \in JobIds : LeaseExpires(k)
    \/ \E w \in Workers : WorkerStep(w)

Spec == Init /\ [][Next]_vars

-----------------------------------------------------------------------------
(* Properties.                                                             *)

\* A history in which the jobs miss nothing: the first one is full; a full one finds no
\* document of a path that has gone; an incremental one follows a job of the commit
\* before its own, and a path that GitLab calls renamed has changed.
HistoryFollowed ==
    \A k \in JobIds :
        LET now == JobList[k].commit IN
        IF JobList[k] \in FullJobs
          THEN k > 1 => \A p \in Paths : Indexable(JobList[k - 1].commit, p) => p \in RegularFiles(now)
          ELSE /\ k > 1 /\ JobList[k - 1].commit = now - 1
               /\ RenamedFrom(now) \subseteq Changed(now) \cup RenamedTo(now)

\* The jobs up to k are done and no later one has started.
SettledAt(k) ==
    /\ \A i \in JobIds : i <= k => jobState[i] = "done"
    /\ \A i \in JobIds : i > k => jobState[i] = "new"

Snapshot(c) == UNION {FileDocs(c, p) : p \in {q \in Paths : Indexable(c, q)}}

\* Active-snapshot semantics: whatever failed or crashed before a job was run
\* again, once the jobs are done the indices hold the documents of the last
\* commit's files and nothing else - no file left over from a rename or a
\* deletion, no second generation of one, none lost - and the repo document
\* names that commit.
SnapshotConverges ==
    \A k \in JobIds : SettledAt(k) => /\ live = Snapshot(JobList[k].commit)
                                      /\ repo = JobList[k].commit

\* After a full job every edge has its source chunk, also when earlier jobs
\* failed half way and were given up: what they left without a chunk is pruned,
\* unless the branch has more sources than the aggregation returns.
NoOrphanEdges ==
    \A k \in JobIds :
        /\ JobList[k] \in FullJobs /\ jobState[k] = "done" /\ ~cut
        /\ \A i \in JobIds : i > k => jobState[i] = "new"
        => \A d \in live : d.kind = "edge" => ChunkOf(d.path, d.version) \in live

\* Pruning never deletes an edge whose chunk exists, even when the refresh of
\* the edges runs ahead of that of the chunks.
PruneKeepsLinkedEdges ==
    [][\A w \in Workers :
         phase[w] = "unlink" /\ phase'[w] = "refresh" =>
           \A d \in live : d.kind = "edge" /\ ChunkOf(d.path, d.version) \in live => d \in live']_vars

\* A file is never searchable in two generations: replacing it removes the
\* documents of its earlier content.
OneGeneration ==
    \A d, e \in live : d.kind = "chunk" /\ e.kind = "chunk" /\ d.path = e.path => d = e
=============================================================================
