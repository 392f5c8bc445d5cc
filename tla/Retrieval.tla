------------------------------ MODULE Retrieval ------------------------------
(***************************************************************************)
(* The retrieval service of one process: searches that run their legs in   *)
(* one bounded thread pool and wait for them, legs that raise, the cache   *)
(* of query embeddings they share, and the closing of the pool.            *)
(* What a leg finds, how hits are fused and how they are reranked is data. *)
(***************************************************************************)
EXTENDS Integers, Sequences, FiniteSets, SequencesExt, FiniteSetsExt, Functions

CONSTANTS
    Searches,          \* request threads, each with one search
    Queries,
    NoQuery,
    MaxWorkers,        \* retrieval_max_workers
    MaxEntries,        \* query_embedding_cache_max_entries; 0 disables the cache
    TTL,               \* query_embedding_cache_ttl_seconds, in ticks; 0 disables it
    Warm,              \* what earlier searches left in the cache, last used last
    IndexLegs,         \* the legs that need no embedding: bm25, symbol and edge search
    HydeEnabled,       \* hyde_enabled
    CommunityEnabled,  \* community_detection_enabled
    MaxFailures,       \* bound: calls that raise
    MaxClock           \* bound: ticks of the clock

ASSUME RetrievalAssumption ==
    /\ NoQuery \notin Queries
    /\ MaxWorkers \in Nat \ {0}
    /\ {MaxEntries, TTL, MaxFailures, MaxClock} \subseteq Nat
    /\ Warm \in Seq(Queries) /\ IsInjective(Warm)
    /\ Len(Warm) <= (IF TTL = 0 THEN 0 ELSE MaxEntries)
    /\ {HydeEnabled, CommunityEnabled} \subseteq BOOLEAN
    /\ IndexLegs \in Seq(STRING)
    /\ \A i \in DOMAIN IndexLegs : IndexLegs[i] \notin {"embedding", "knn", "community"}
    /\ \A i, j \in DOMAIN IndexLegs : IndexLegs[i] = IndexLegs[j] => i = j

VARIABLES
    pc,        \* where each search is
    query,     \* what it searches for
    leg,       \* the future of each of its legs
    queue,     \* the work queue of the pool
    open,      \* the pool accepts work
    cache,     \* the embeddings cached, least recently used first
    stamp,     \* the clock as the embedding leg of a search read it
    clock,     \* time.monotonic()
    failures,
    raised,    \* history: what raised in a search
    served,    \* history: when the embedding a search took from the cache was made
    used       \* history: the order in which queries were last looked up or stored

history == <<raised, served, used>>
poolVars == <<pc, query, leg, queue, open, cache, stamp, clock, failures, history>>

FirstLegs  == IndexLegs \o <<"embedding">>
SecondLegs == IF CommunityEnabled THEN <<"knn", "community">> ELSE <<"knn">>
JoinOrder  == IndexLegs \o SecondLegs
PoolLegs   == Range(FirstLegs) \cup Range(SecondLegs)

\* A leg is "calling" while the embedding provider computes what was not cached.
LegStates == {"none", "queued", "running", "calling", "done", "failed"}
Steps     == {"idle", "first", "embedding", "second", "join", "rank", "answered", "failed"}
NotServed == -1

\* `made' is history: when the embedding was returned.
Entry == [query : Queries, expires : Int, made : Int]
Cached == {cache[i].query : i \in DOMAIN cache}

\* Type correctness; no query has two entries.
PoolTypeOK ==
    /\ pc \in [Searches -> Steps]
    /\ query \in [Searches -> Queries \cup {NoQuery}]
    /\ leg \in [Searches -> [PoolLegs -> LegStates]]
    /\ queue \in Seq([search : Searches, leg : PoolLegs])
    /\ open \in BOOLEAN
    /\ cache \in Seq(Entry)
    /\ \A i, j \in DOMAIN cache : cache[i].query = cache[j].query => i = j
    /\ stamp \in [Searches -> Nat]
    /\ {clock, failures} \subseteq Nat
    /\ raised \in [Searches -> SUBSET (PoolLegs \cup {"hyde", "rank"})]
    /\ served \in [Searches -> Int]
    /\ used \in [Queries -> Nat]

PoolInit ==
    /\ pc = [s \in Searches |-> "idle"]
    /\ query = [s \in Searches |-> NoQuery]
    /\ leg = [s \in Searches |-> [l \in PoolLegs |-> "none"]]
    /\ queue = <<>>
    /\ open = TRUE
    /\ cache = [i \in DOMAIN Warm |-> [query |-> Warm[i], expires |-> TTL, made |-> 0]]
    /\ used = [q \in Queries |-> SelectInSeq(Warm, LAMBDA x : x = q)]
    /\ stamp = [s \in Searches |-> 0]
    /\ clock = 0
    /\ failures = 0
    /\ raised = [s \in Searches |-> {}]
    /\ served = [s \in Searches |-> NotServed]

-----------------------------------------------------------------------------
(* A search: it submits its legs and waits for them.                       *)

Goto(s, step) == pc' = [pc EXCEPT ![s] = step]

\* A request arrives.
Search(s) ==
    /\ pc[s] = "idle"
    /\ \E q \in Queries : query' = [query EXCEPT ![s] = q]
    /\ Goto(s, "first")
    /\ UNCHANGED <<leg, queue, open, cache, stamp, clock, failures, history>>

\* pool.submit of the next of these legs.
Submit(s, legs, then) ==
    \E i \in DOMAIN legs :
        /\ leg[s][legs[i]] = "none" /\ \A j \in 1..(i - 1) : leg[s][legs[j]] # "none"
        /\ leg' = [leg EXCEPT ![s][legs[i]] = "queued"]
        /\ queue' = Append(queue, [search |-> s, leg |-> legs[i]])
        /\ IF i = Len(legs) THEN Goto(s, then) ELSE UNCHANGED pc

\* A closed pool refuses work: submit raises, and the legs already in the pool stay.
Refused(s) == Goto(s, "failed") /\ UNCHANGED <<leg, queue>>

\* First everything that needs no embedding, and the embedding itself; then the vector
\* and the community leg, which need it.
SubmitNext(s) ==
    /\ pc[s] \in {"first", "second"}
    /\ IF ~open THEN Refused(s)
       ELSE IF pc[s] = "first" THEN Submit(s, FirstLegs, "embedding")
       ELSE Submit(s, SecondLegs, "join")
    /\ UNCHANGED <<query, open, cache, stamp, clock, failures, history>>

\* embedding_future.result().
TakeEmbedding(s) ==
    /\ pc[s] = "embedding"
    /\ \/ leg[s]["embedding"] = "done" /\ Goto(s, "second")
       \/ leg[s]["embedding"] = "failed" /\ Goto(s, "failed")
    /\ UNCHANGED <<query, leg, queue, open, cache, stamp, clock, failures, history>>

Raise(s, what) ==
    /\ failures < MaxFailures
    /\ failures' = failures + 1
    /\ raised' = [raised EXCEPT ![s] = @ \cup {what}]

\* The second embedding, of query and hypothetical snippet, is computed by the
\* request thread itself and may raise.
HydeRaises(s) ==
    /\ pc[s] = "embedding"
    /\ leg[s]["embedding"] = "done"
    /\ HydeEnabled
    /\ Raise(s, "hyde")
    /\ Goto(s, "failed")
    /\ UNCHANGED <<query, leg, queue, open, cache, stamp, clock, served, used>>

Ended(s, l) == leg[s][l] \in {"done", "failed"}

\* The results are taken in this order, and the first failed leg fails the search.
Join(s) ==
    /\ pc[s] = "join"
    /\ \/ /\ \A i \in DOMAIN JoinOrder : leg[s][JoinOrder[i]] = "done"
          /\ Goto(s, "rank")
       \/ /\ \E i \in DOMAIN JoinOrder :
               /\ leg[s][JoinOrder[i]] = "failed"
               /\ \A j \in 1..(i - 1) : leg[s][JoinOrder[j]] = "done"
          /\ Goto(s, "failed")
    /\ UNCHANGED <<query, leg, queue, open, cache, stamp, clock, failures, history>>

\* Fusion, graph expansion, fusion again, reranking; the answer is built.
Rank(s) ==
    /\ pc[s] = "rank"
    /\ Goto(s, "answered")
    /\ UNCHANGED <<query, leg, queue, open, cache, stamp, clock, failures, history>>

\* Graph expansion searches the index and the reranker calls a service.
RankRaises(s) ==
    /\ pc[s] = "rank"
    /\ Raise(s, "rank")
    /\ Goto(s, "failed")
    /\ UNCHANGED <<query, leg, queue, open, cache, stamp, clock, served, used>>

\* close(): queued legs still run.
Close ==
    /\ open
    /\ open' = FALSE
    /\ UNCHANGED <<pc, query, leg, queue, cache, stamp, clock, failures, history>>

-----------------------------------------------------------------------------
(* The pool.                                                               *)

Work == Searches \X PoolLegs

Waiting == {s \in Searches : pc[s] \notin {"idle", "answered", "failed"}}
BusyOrWaiting == {w \in Work : leg[w[1]][w[2]] \in {"running", "calling"}}
                    \cup {<<s, "search">> : s \in Waiting}
Busy == {w \in Work : leg[w[1]][w[2]] \in {"running", "calling"}}

\* A free worker takes the oldest leg; the embedding leg starts by reading the clock.
Start ==
    /\ queue # <<>>
    /\ Cardinality(Busy) < MaxWorkers
    /\ LET s == Head(queue).search
           l == Head(queue).leg IN
       /\ leg' = [leg EXCEPT ![s][l] = "running"]
       /\ stamp' = IF l = "embedding" THEN [stamp EXCEPT ![s] = clock] ELSE stamp
    /\ queue' = Tail(queue)
    /\ UNCHANGED <<pc, query, open, cache, clock, failures, history>>

LegReturns(s, l) ==
    /\ l # "embedding"
    /\ leg[s][l] = "running"
    /\ leg' = [leg EXCEPT ![s][l] = "done"]
    /\ UNCHANGED <<pc, query, queue, open, cache, stamp, clock, failures, history>>

SwallowsNothing(l) == FALSE
Swallows(l) == l = "community"

\* The community leg turns an exception into no hits, the others hand it on.
LegRaises(s, l) ==
    /\ leg[s][l] = IF l = "embedding" THEN "calling" ELSE "running"
    /\ Raise(s, l)
    /\ leg' = [leg EXCEPT ![s][l] = IF Swallows(l) THEN "done" ELSE "failed"]
    /\ UNCHANGED <<pc, query, queue, open, cache, stamp, clock, served, used>>

-----------------------------------------------------------------------------
(* The embedding leg: _cached_query_embedding.                             *)

Caching == TTL > 0 /\ MaxEntries > 0

PlaceOf(q) == CHOOSE i \in DOMAIN cache : cache[i].query = q
Without(q) == IF q \in Cached THEN RemoveAt(cache, PlaceOf(q)) ELSE cache

NeverStale(e, now) == TRUE
Live(e, now) == e.expires > now

NotMoved(q) == cache
MovedToEnd(q) == Append(Without(q), cache[PlaceOf(q)])

Use(q) == used' = [used EXCEPT ![q] = 1 + Max({used[x] : x \in Queries})]

\* Under the lock: a live entry is the answer, and now the most recently used one.
Hit(s) ==
    /\ leg[s]["embedding"] = "running"
    /\ Caching
    /\ \E i \in DOMAIN cache :
         /\ cache[i].query = query[s]
         /\ Live(cache[i], stamp[s])
         /\ served' = [served EXCEPT ![s] = cache[i].made]
    /\ cache' = MovedToEnd(query[s])
    /\ Use(query[s])
    /\ leg' = [leg EXCEPT ![s]["embedding"] = "done"]
    /\ UNCHANGED <<pc, query, queue, open, stamp, clock, failures, raised>>

\* An expired entry is dropped, and the embedding is computed outside of the lock.
Miss(s) ==
    /\ leg[s]["embedding"] = "running"
    /\ Caching => \A i \in DOMAIN cache :
                    cache[i].query = query[s] => ~Live(cache[i], stamp[s])
    /\ cache' = Without(query[s])
    /\ leg' = [leg EXCEPT ![s]["embedding"] = "calling"]
    /\ UNCHANGED <<pc, query, queue, open, stamp, clock, failures, history>>

Trimmed(entries) ==
    IF Len(entries) > MaxEntries
      THEN SubSeq(entries, Len(entries) - MaxEntries + 1, Len(entries)) ELSE entries

\* The result is stored for a lifetime from the time the leg began, in place of
\* what another search stored meanwhile, and the least recently used one goes.
Store(s) ==
    /\ leg[s]["embedding"] = "calling"
    /\ leg' = [leg EXCEPT ![s]["embedding"] = "done"]
    /\ IF Caching
         THEN /\ cache' = Trimmed(Append(Without(query[s]),
                            [query |-> query[s], expires |-> stamp[s] + TTL, made |-> clock]))
              /\ Use(query[s])
         ELSE UNCHANGED <<cache, used>>
    /\ UNCHANGED <<pc, query, queue, open, stamp, clock, failures, raised, served>>

Tick ==
    /\ clock < MaxClock
    /\ clock' = clock + 1
    /\ UNCHANGED <<pc, query, leg, queue, open, cache, stamp, failures, history>>

-----------------------------------------------------------------------------

Continue(s) ==
    \/ SubmitNext(s) \/ TakeEmbedding(s) \/ HydeRaises(s) \/ Join(s)
    \/ Rank(s) \/ RankRaises(s)

Finish(s, l) == LegReturns(s, l) \/ LegRaises(s, l)

EmbedQuery(s) == Hit(s) \/ Miss(s) \/ Store(s)

Proceed ==
    \/ Start
    \/ \E s \in Searches : \/ Continue(s) \/ EmbedQuery(s)
                           \/ \E l \in PoolLegs : Finish(s, l)

PoolNext ==
    \/ \E s \in Searches : Search(s)
    \/ Proceed
    \/ Close
    \/ Tick

\* The process runs as long as one of its threads can: a call of the index or of the
\* embedding provider returns or raises in the end. Every step is one of finitely
\* many of its search, so no fairness between the threads is needed.
Fairness == WF_poolVars(Proceed)

PoolSpec == PoolInit /\ [][PoolNext]_poolVars /\ Fairness

-----------------------------------------------------------------------------
(* Properties.                                                             *)

\* A search that answers has the results of all its legs, and one that fails does
\* so because a call outside of the community leg raised or the pool was closed:
\* "Community search failed; continuing without it" is all a user sees of it.
OutcomeHasCause ==
    \A s \in Searches :
        /\ pc[s] = "answered" =>
              /\ raised[s] \subseteq {"community"}
              /\ \A i \in DOMAIN JoinOrder : leg[s][JoinOrder[i]] = "done"
        /\ pc[s] = "failed" => ~open \/ raised[s] \ {"community"} # {}

\* An embedding is taken from the cache only within its lifetime, counted from when
\* it was returned to when the lookup began, even if another search stored it late.
HitsAreFresh ==
    \A s \in Searches : served[s] # NotServed => stamp[s] - served[s] < TTL

\* What leaves the cache has expired, or everything that stays was used after it:
\* two searches that miss together and store in either order keep this.
EvictsLeastRecent ==
    [][\A q \in Cached \ Cached' :
         \/ \E i \in DOMAIN cache : cache[i].query = q /\ cache[i].expires <= clock
         \/ \A r \in Cached' : used'[r] > used[q]]_poolVars

\* Every search ends, and what it submitted runs to its end even if the search has
\* failed meanwhile: also when legs raise, when all workers are taken and when the
\* pool is closed under it. No leg waits for another leg of the pool.
SearchEnds ==
    \A s \in Searches :
        pc[s] # "idle" ~>
          /\ pc[s] \in {"answered", "failed"}
          /\ \A l \in PoolLegs : leg[s][l] # "none" => Ended(s, l)
=============================================================================
