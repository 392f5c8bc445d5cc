------------------------------ MODULE JobQueue ------------------------------
(***************************************************************************)
(* The durable index-job queue: request handlers that enqueue jobs, poll   *)
(* threads of every API worker that claim, execute and settle them, and    *)
(* the two Elasticsearch indices (job status and job results) they share.  *)
(*                                                                         *)
(* Every write to the status index is made with refresh=True and claims    *)
(* are conditional on the version read, so a search is modelled as seeing  *)
(* the current documents: a search that still saw an older version could   *)
(* only return hits whose claim is refused.  All hosts share one clock.    *)
(***************************************************************************)
EXTENDS Integers, FiniteSets

CONSTANTS
    Jobs,          \* job ids: stable_id(type, project, branch, old sha, new sha)
    Threads,       \* poll threads, max_workers of them in each API process
    Clients,       \* concurrent request handlers of the API
    MayCrash,      \* the threads whose process may die
    NoJob,         \* "holds no job"
    LockTTL,       \* index_job_lock_ttl_seconds, in ticks
    PageSize,      \* size of the claim search (10 in the code)
    MaxClock,      \* bound: ticks of the clock
    MaxRequests    \* bound: requests and command-line runs

ASSUME QueueAssumption ==
    /\ NoJob \notin Jobs
    /\ MayCrash \subseteq Threads
    /\ {LockTTL, MaxClock, MaxRequests} \subseteq Nat
    /\ PageSize \in Nat \ {0}

VARIABLES
    doc,           \* job status documents
    results,       \* job result documents
    clock,         \* utcnow()
    pc,            \* where each poll thread is
    hits,          \* the claim search's hits a thread has not tried yet
    stamp,         \* the "now" of that search
    claim,         \* the job a thread executes, and the lease it took on it
    outcome,       \* the status of the result it is about to record
    client,        \* where each request handler is
    requests,      \* requests made so far
    epoch,         \* history: how often each job was written as queued
    claims         \* history: how often it was claimed since then

store  == <<doc, results>>
thread == <<pc, hits, stamp, claim, outcome>>
ghosts == <<epoch, claims>>
vars   == <<store, clock, thread, client, requests, ghosts>>

NoLease   == -1
NoDoc     == [status |-> "absent", submitted |-> 0, lease |-> NoLease,
              attempts |-> 0, seqNo |-> 0]
NoClaim   == [job |-> NoJob, lease |-> NoLease, epoch |-> 0]
IdleState == [pc |-> "idle", job |-> NoJob, sawFailed |-> FALSE, submitted |-> 0]

Doc   == [status : {"absent", "queued", "running", "succeeded", "failed"},
          submitted : Nat, lease : Int, attempts : Nat, seqNo : Nat]
Hit   == [job : Jobs, seqNo : Nat, attempts : Nat, submitted : Nat]
Claim == [job : Jobs \cup {NoJob}, lease : Int, epoch : Nat]
Request == [pc : {"idle", "read", "write"}, job : Jobs \cup {NoJob},
            sawFailed : BOOLEAN, submitted : Nat]

\* Type correctness.
TypeOK ==
    /\ doc \in [Jobs -> Doc]
    /\ results \in [Jobs -> {"none", "succeeded", "failed"}]
    /\ clock \in Nat
    /\ pc \in [Threads -> {"poll", "claim", "execute", "record", "finish", "fail", "down"}]
    /\ hits \in [Threads -> SUBSET Hit]
    /\ stamp \in [Threads -> Nat]
    /\ claim \in [Threads -> Claim]
    /\ outcome \in [Threads -> {"none", "succeeded", "failed"}]
    /\ client \in [Clients -> Request]
    /\ requests \in Nat
    /\ epoch \in [Jobs -> Nat]
    /\ claims \in [Jobs -> Nat]

Init ==
    /\ doc = [j \in Jobs |-> NoDoc]
    /\ results = [j \in Jobs |-> "none"]
    /\ clock = 0
    /\ pc = [t \in Threads |-> "poll"]
    /\ hits = [t \in Threads |-> {}]
    /\ stamp = [t \in Threads |-> 0]
    /\ claim = [t \in Threads |-> NoClaim]
    /\ outcome = [t \in Threads |-> "none"]
    /\ client = [c \in Clients |-> IdleState]
    /\ requests = 0
    /\ epoch = [j \in Jobs |-> 0]
    /\ claims = [j \in Jobs |-> 0]

-----------------------------------------------------------------------------
(* Request handlers: the index and webhook routes, and enqueue_job.        *)

\* The route looks up the recorded result first and answers from it when the
\* job already succeeded; otherwise submit() stamps a new record.
SubmitRequest(c, j) ==
    /\ client[c].pc = "idle"
    /\ requests < MaxRequests
    /\ requests' = requests + 1
    /\ IF results[j] = "succeeded"
         THEN UNCHANGED client
         ELSE client' = [client EXCEPT ![c] = [pc |-> "read", job |-> j,
                                               sawFailed |-> FALSE, submitted |-> clock]]
    /\ UNCHANGED <<store, clock, thread, ghosts>>

Active(j) == doc[j].status \in {"queued", "running"}

\* enqueue_job returns the existing status of an active or completed job.
ReadStatus(c) ==
    /\ client[c].pc = "read"
    /\ IF Active(client[c].job) \/ doc[client[c].job].status = "succeeded"
         THEN client' = [client EXCEPT ![c] = IdleState]
         ELSE client' = [client EXCEPT ![c] =
                [pc |-> "write", job |-> @.job, submitted |-> @.submitted,
                 sawFailed |-> doc[@.job].status = "failed"]]
    /\ UNCHANGED <<store, clock, thread, requests, ghosts>>

\* The write is unconditional over a document seen failed and a create
\* otherwise; losing the create to another request, it adopts that job.
WriteQueued(c) ==
    /\ client[c].pc = "write"
    /\ client' = [client EXCEPT ![c] = IdleState]
    /\ LET j == client[c].job IN
       IF client[c].sawFailed \/ doc[j].status = "absent"
         THEN /\ doc' = [doc EXCEPT ![j] = [status |-> "queued",
                                            submitted |-> client[c].submitted,
                                            lease |-> NoLease, attempts |-> 0,
                                            seqNo |-> @.seqNo + 1]]
              /\ epoch' = [epoch EXCEPT ![j] = @ + 1]
              /\ claims' = [claims EXCEPT ![j] = 0]
         ELSE UNCHANGED <<doc, epoch, claims>>
    /\ UNCHANGED <<results, clock, thread, requests>>

\* The command line runs a job without the queue and records its result
\* under the same job id.
RunFromCli(j) ==
    /\ requests < MaxRequests
    /\ requests' = requests + 1
    /\ \E r \in {"succeeded", "failed"} : results' = [results EXCEPT ![j] = r]
    /\ UNCHANGED <<doc, clock, thread, client, ghosts>>

-----------------------------------------------------------------------------
(* Poll threads: claim_next_job.                                           *)

ExpiredAnyLease(j, now) == TRUE
Expired(j, now) == doc[j].lease < now

ClaimableOnlyQueued(j, now) == doc[j].status = "queued"

Claimable(j, now) ==
    \/ doc[j].status = "queued"
    \/ doc[j].status = "running" /\ Expired(j, now)

\* The search returns the PageSize claimable jobs submitted first, ties in any
\* order.
IsPage(P, now) ==
    LET all == {j \in Jobs : Claimable(j, now)} IN
    /\ P # {} /\ P \subseteq all
    /\ P = all \/ Cardinality(P) = PageSize
    /\ Cardinality(P) <= PageSize
    /\ \A p \in P, q \in all \ P : doc[p].submitted <= doc[q].submitted

\* A search that finds nothing, or that raises, leaves the thread polling.
Search(t) ==
    /\ pc[t] = "poll"
    /\ \E P \in SUBSET Jobs :
         /\ IsPage(P, clock)
         /\ hits' = [hits EXCEPT ![t] =
              {[job |-> j, seqNo |-> doc[j].seqNo, attempts |-> doc[j].attempts,
                submitted |-> doc[j].submitted] : j \in P}]
    /\ stamp' = [stamp EXCEPT ![t] = clock]
    /\ pc' = [pc EXCEPT ![t] = "claim"]
    /\ UNCHANGED <<store, clock, claim, outcome, client, requests, ghosts>>

AnyVersion(h) == TRUE
SameVersion(h) == doc[h.job].seqNo = h.seqNo

NextHit(t, h) == h \in hits[t] /\ \A g \in hits[t] : h.submitted <= g.submitted

\* The conditional update: if_seq_no and if_primary_term of the hit.
WriteClaim(t, h) ==
    /\ SameVersion(h)
    /\ doc' = [doc EXCEPT ![h.job] = [status |-> "running", submitted |-> @.submitted,
                                      lease |-> stamp[t] + LockTTL,
                                      attempts |-> h.attempts + 1,
                                      seqNo |-> @.seqNo + 1]]
    /\ claims' = [claims EXCEPT ![h.job] = @ + 1]

ClearHits(t) ==
    /\ hits' = [hits EXCEPT ![t] = {}]
    /\ stamp' = [stamp EXCEPT ![t] = 0]

ClaimHit(t) ==
    /\ pc[t] = "claim"
    /\ \E h \in hits[t] :
         /\ NextHit(t, h)
         /\ WriteClaim(t, h)
         /\ claim' = [claim EXCEPT ![t] = [job |-> h.job, lease |-> stamp[t] + LockTTL,
                                           epoch |-> epoch[h.job]]]
    /\ ClearHits(t)
    /\ pc' = [pc EXCEPT ![t] = "execute"]
    /\ UNCHANGED <<results, clock, outcome, client, requests, epoch>>

\* A version conflict: the job went to someone else, try the next hit.
LoseHit(t) ==
    /\ pc[t] = "claim"
    /\ \E h \in hits[t] :
         /\ NextHit(t, h)
         /\ ~SameVersion(h)
         /\ IF hits[t] = {h}
              THEN ClearHits(t) /\ pc' = [pc EXCEPT ![t] = "poll"]
              ELSE /\ hits' = [hits EXCEPT ![t] = @ \ {h}]
                   /\ UNCHANGED <<pc, stamp>>
    /\ UNCHANGED <<store, clock, claim, outcome, client, requests, ghosts>>

\* Faults that leave a job to nobody stop while its lease can still expire
\* before the bounded clock does.
FaultsPossible == clock + LockTTL < MaxClock

\* The update raises: _poll logs it and searches again.  Its write may have
\* been applied, and then nobody executes the job until its lease expires.
ClaimRaises(t) ==
    /\ pc[t] = "claim" /\ FaultsPossible
    /\ \/ \E h \in hits[t] : NextHit(t, h) /\ WriteClaim(t, h)
       \/ UNCHANGED <<doc, claims>>
    /\ ClearHits(t)
    /\ pc' = [pc EXCEPT ![t] = "poll"]
    /\ UNCHANGED <<results, clock, claim, outcome, client, requests, epoch>>

-----------------------------------------------------------------------------
(* Poll threads: _run, with finish_job and fail_job.  Neither looks at who *)
(* holds the lease, or at the status it overwrites.                        *)

ExecuteUnfinished(t) ==
    /\ pc[t] = "execute"
    /\ \E r \in {"succeeded", "running"} : outcome' = [outcome EXCEPT ![t] = r]
    /\ pc' = [pc EXCEPT ![t] = "record"]
    /\ UNCHANGED <<store, clock, hits, stamp, claim, client, requests, ghosts>>

\* The indexing service catches its own errors and returns a failed result.
Execute(t) ==
    /\ pc[t] = "execute"
    /\ \E r \in {"succeeded", "failed"} : outcome' = [outcome EXCEPT ![t] = r]
    /\ pc' = [pc EXCEPT ![t] = "record"]
    /\ UNCHANGED <<store, clock, hits, stamp, claim, client, requests, ghosts>>

\* A bad payload, an unsupported type or a failed comparison raises instead.
ExecuteRaises(t) ==
    /\ pc[t] = "execute"
    /\ pc' = [pc EXCEPT ![t] = "fail"]
    /\ UNCHANGED <<store, clock, hits, stamp, claim, outcome, client, requests, ghosts>>

WriteNothing(t) == UNCHANGED results

WriteResult(t) == results' = [results EXCEPT ![claim[t].job] = outcome[t]]

\* finish_job, first write: the result document.
RecordResult(t) ==
    /\ pc[t] = "record"
    /\ WriteResult(t)
    /\ pc' = [pc EXCEPT ![t] = "finish"]
    /\ UNCHANGED <<doc, clock, hits, stamp, claim, outcome, client, requests, ghosts>>

RecordRaises(t) ==
    /\ pc[t] = "record"
    /\ WriteResult(t) \/ UNCHANGED results
    /\ pc' = [pc EXCEPT ![t] = "fail"]
    /\ UNCHANGED <<doc, clock, hits, stamp, claim, outcome, client, requests, ghosts>>

WriteStatusKeepingLease(j, s) ==
    doc' = [doc EXCEPT ![j].status = s, ![j].seqNo = @ + 1]

WriteStatus(j, s) ==
    doc' = [doc EXCEPT ![j] = [status |-> s, submitted |-> @.submitted, lease |-> NoLease,
                               attempts |-> @.attempts, seqNo |-> @.seqNo + 1]]

\* The thread's locals die with _run, or with the process.
Forget(t) ==
    /\ claim' = [claim EXCEPT ![t] = NoClaim]
    /\ outcome' = [outcome EXCEPT ![t] = "none"]

\* finish_job, second write: the status document.
FinishStatus(t) ==
    /\ pc[t] = "finish"
    /\ WriteStatus(claim[t].job, outcome[t])
    /\ Forget(t)
    /\ pc' = [pc EXCEPT ![t] = "poll"]
    /\ UNCHANGED <<results, clock, hits, stamp, client, requests, ghosts>>

\* The update or the read after it raises: _run goes on to fail_job even when
\* the status was already written.
FinishRaises(t) ==
    /\ pc[t] = "finish"
    /\ WriteStatus(claim[t].job, outcome[t]) \/ UNCHANGED doc
    /\ pc' = [pc EXCEPT ![t] = "fail"]
    /\ UNCHANGED <<results, clock, hits, stamp, claim, outcome, client, requests, ghosts>>

FailStatus(t) ==
    /\ pc[t] = "fail"
    /\ WriteStatus(claim[t].job, "failed")
    /\ Forget(t)
    /\ pc' = [pc EXCEPT ![t] = "poll"]
    /\ UNCHANGED <<results, clock, hits, stamp, client, requests, ghosts>>

\* fail_job raises before its write: the job stays running until its lease
\* expires.
FailRaises(t) ==
    /\ pc[t] = "fail" /\ FaultsPossible
    /\ Forget(t)
    /\ pc' = [pc EXCEPT ![t] = "poll"]
    /\ UNCHANGED <<store, clock, hits, stamp, client, requests, ghosts>>

-----------------------------------------------------------------------------
(* The environment.                                                        *)

\* The process dies, or is stopped: a daemon thread gets five seconds and is
\* then cut off wherever it is.
Crash(t) ==
    /\ t \in MayCrash /\ pc[t] # "down" /\ FaultsPossible
    /\ pc' = [pc EXCEPT ![t] = "down"]
    /\ ClearHits(t)
    /\ Forget(t)
    /\ UNCHANGED <<store, clock, client, requests, ghosts>>

Start(t) ==
    /\ pc[t] = "down"
    /\ pc' = [pc EXCEPT ![t] = "poll"]
    /\ UNCHANGED <<store, clock, hits, stamp, claim, outcome, client, requests, ghosts>>

Tick ==
    /\ clock < MaxClock
    /\ clock' = clock + 1
    /\ UNCHANGED <<store, thread, client, requests, ghosts>>

ClientStep(c) ==
    \/ \E j \in Jobs : SubmitRequest(c, j)
    \/ ReadStatus(c)
    \/ WriteQueued(c)

ThreadStep(t) ==
    \/ Search(t) \/ ClaimHit(t) \/ LoseHit(t)
    \/ Execute(t) \/ ExecuteRaises(t)
    \/ RecordResult(t) \/ RecordRaises(t)
    \/ FinishStatus(t) \/ FinishRaises(t) \/ FailStatus(t)

ThreadFault(t) == ClaimRaises(t) \/ FailRaises(t) \/ Crash(t) \/ Start(t)

Next ==
    \/ \E c \in Clients : ClientStep(c)
    \/ \E j \in Jobs : RunFromCli(j)
    \/ \E t \in Threads : ThreadStep(t) \/ ThreadFault(t)
    \/ Tick

Spec == Init /\ [][Next]_vars

\* Time passes and a live poll thread keeps polling; nothing obliges a dead
\* process to come back.
Fairness == WF_vars(Tick) /\ \A t \in Threads : WF_vars(ThreadStep(t))

FairSpec == Spec /\ Fairness

-----------------------------------------------------------------------------
(* Properties.                                                             *)

Running(t) == pc[t] \in {"execute", "record", "finish", "fail"}

\* Two threads may execute the same enqueued job at once (nothing renews a
\* lease), but never both under a lease that has not expired: a second claim
\* waits for the first one's lease, and a raced claim fails on the version.
LeaseExclusion ==
    \A t, u \in Threads :
        /\ t # u /\ Running(t) /\ Running(u)
        /\ claim[t].job = claim[u].job /\ claim[t].epoch = claim[u].epoch
        => claim[t].lease < clock \/ claim[u].lease < clock

\* The attempts counter read from a search hit and written back through the
\* conditional update loses no claim made since the job was last enqueued.
AttemptsCountClaims == \A j \in Jobs : doc[j].attempts = claims[j]

\* Whatever crashes or raises, a job reads "succeeded" only once a result was
\* recorded for it: finish_job writes the result first.
SucceededHasResult ==
    \A j \in Jobs : doc[j].status = "succeeded" => results[j] # "none"

\* A claim takes a queued job, or a running one whose lease has run out at the
\* time of the write: however old the search hit, never a settled job and
\* never one claimed or settled in between.
ClaimTakesClaimable ==
    [][\A j \in Jobs : claims'[j] > claims[j] => Claimable(j, clock)]_vars

\* Every enqueued or running job is settled in the end, as long as one poll
\* thread survives: crashes, lost replies and failed settlements only delay it
\* until its lease expires.
ActiveJobSettles == \A j \in Jobs : Active(j) ~> ~Active(j)

\* "Persist a queued index job if it is not already active or completed":
\* enqueue_job writes a queued document over no document or a failed one only.
EnqueueOnlyIdle ==
    [][\A j \in Jobs : epoch'[j] # epoch[j] => doc[j].status \in {"absent", "failed"}]_vars

\* The queue keeps what LeasedQueue promises: status, lease and results are what the
\* two indices say, and a worker's job is the claim of its thread.
Promised ==
    INSTANCE LeasedQueue
      WITH Workers  <- Threads,
           Lease    <- LockTTL,
           now      <- clock,
           status   <- [j \in Jobs |-> doc[j].status],
           until    <- [j \in Jobs |-> doc[j].lease],
           work     <- [t \in Threads |-> claim[t].job],
           recorded <- {j \in Jobs : results[j] # "none"}

\* Whatever crashes, raises or races, every step of the queue is a step of the promised
\* one, or none that a reader of the queue sees.
KeepsPromise == Promised!Spec

=============================================================================
