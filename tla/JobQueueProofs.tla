--------------------------- MODULE JobQueueProofs ---------------------------
(* Proofs about JobQueue, for every set of jobs, threads and clients, every *)
(* lease length and every bound; at the end, that it implements LeasedQueue. *)
EXTENDS JobQueue, TLAPS

-----------------------------------------------------------------------------
(* Type correctness.                                                        *)

\* A thread that records or finishes has a result to write.
HasOutcome == \A t \in Threads : pc[t] \in {"record", "finish"} => outcome[t] # "none"

\* A thread that executes, records, finishes or fails holds a job.
HasJob == \A t \in Threads : Running(t) => claim[t].job \in Jobs

\* A request that is past the route's own check is about a job.
HasRequest == \A c \in Clients : client[c].pc # "idle" => client[c].job \in Jobs

Typed == TypeOK /\ HasOutcome /\ HasJob /\ HasRequest

\* The two records every action rebuilds: the updated document of a job, and
\* the empty claim a thread is left with.
LEMMA DocWrite ==
    ASSUME NEW d \in Doc, NEW s \in {"queued", "running", "succeeded", "failed"},
           NEW sub \in Nat, NEW l \in Int, NEW a \in Nat
    PROVE  [status |-> s, submitted |-> sub, lease |-> l, attempts |-> a,
            seqNo |-> d.seqNo + 1] \in Doc
  BY DEF Doc

\* The values of what is not there are typed.
LEMMA Blanks == NoDoc \in Doc /\ NoClaim \in Claim /\ IdleState \in Request
  BY DEF NoDoc, NoClaim, IdleState, NoLease, Doc, Claim, Request

\* finish_job and fail_job keep the document's type.
LEMMA WriteStatusTyped ==
    ASSUME doc \in [Jobs -> Doc], NEW j \in Jobs, NEW s \in {"succeeded", "failed"},
           WriteStatus(j, s)
    PROVE  doc' \in [Jobs -> Doc]
  <1>1. /\ doc[j] \in Doc /\ doc[j].submitted \in Nat /\ doc[j].attempts \in Nat
        /\ NoLease \in Int
    BY DEF Doc, NoLease
  <1>2. [status |-> s, submitted |-> doc[j].submitted, lease |-> NoLease,
         attempts |-> doc[j].attempts, seqNo |-> doc[j].seqNo + 1] \in Doc
    BY <1>1, DocWrite
  <1> QED BY <1>2 DEF WriteStatus

\* So does the conditional update of a claim.
LEMMA WriteClaimTyped ==
    ASSUME TypeOK, NEW t \in Threads, NEW h \in hits[t], WriteClaim(t, h),
           LockTTL \in Nat
    PROVE  /\ h \in Hit /\ h.job \in Jobs
           /\ doc' \in [Jobs -> Doc]
           /\ claims' \in [Jobs -> Nat]
           /\ [job |-> h.job, lease |-> stamp[t] + LockTTL, epoch |-> epoch[h.job]] \in Claim
  <1>1. h \in Hit /\ h.job \in Jobs /\ h.attempts \in Nat
    BY DEF TypeOK, Hit
  <1>2. /\ doc \in [Jobs -> Doc] /\ doc[h.job] \in Doc /\ doc[h.job].submitted \in Nat
        /\ stamp[t] + LockTTL \in Int /\ h.attempts + 1 \in Nat
    BY <1>1 DEF TypeOK, Doc
  <1>3. [status |-> "running", submitted |-> doc[h.job].submitted,
         lease |-> stamp[t] + LockTTL, attempts |-> h.attempts + 1,
         seqNo |-> doc[h.job].seqNo + 1] \in Doc
    BY <1>2, DocWrite
  <1>4. doc' \in [Jobs -> Doc]
    BY <1>2, <1>3 DEF WriteClaim
  <1>5. claims' \in [Jobs -> Nat]
    BY <1>1 DEF WriteClaim, TypeOK
  <1>6. epoch[h.job] \in Nat
    BY <1>1 DEF TypeOK
  <1>7. [job |-> h.job, lease |-> stamp[t] + LockTTL, epoch |-> epoch[h.job]] \in Claim
    BY <1>1, <1>2, <1>6 DEF Claim
  <1> QED BY <1>1, <1>4, <1>5, <1>7

\* Every action of a handler, a poll thread or the environment keeps each
\* variable in its type.
THEOREM Typing == Spec => []Typed
<1> USE QueueAssumption
<1>1. Init => Typed
  <2> SUFFICES ASSUME Init PROVE Typed
    OBVIOUS
  <2>1. \A c \in Clients : client[c].pc = "idle"
    BY DEF Init, IdleState
  <2> QED BY <2>1, Blanks DEF Init, Typed, TypeOK, HasOutcome, HasJob, HasRequest, Running
<1>2. Typed /\ [Next]_vars => Typed'
  <2> SUFFICES ASSUME Typed, [Next]_vars PROVE Typed'
    OBVIOUS
  <2> USE DEF Typed, TypeOK, HasOutcome, HasJob, HasRequest, Running, store, thread, ghosts
  <2>1. ASSUME NEW c \in Clients, ClientStep(c) PROVE Typed'
    <3>1. ASSUME NEW j \in Jobs, SubmitRequest(c, j) PROVE Typed'
      <4> DEFINE new == [pc |-> "read", job |-> j, sawFailed |-> FALSE, submitted |-> clock]
      <4>1. new \in Request /\ new.job = j
        BY DEF Request
      <4>2. client' = client \/ client' = [client EXCEPT ![c] = new]
        BY <3>1 DEF SubmitRequest
      <4> HIDE DEF new
      <4>3. client' \in [Clients -> Request] /\ HasRequest'
        BY <4>1, <4>2
      <4> QED BY <3>1, <4>3 DEF SubmitRequest
    <3>2. CASE ReadStatus(c)
      <4> DEFINE seen == [pc |-> "write", job |-> client[c].job,
                          submitted |-> client[c].submitted,
                          sawFailed |-> doc[client[c].job].status = "failed"]
      <4>1. client[c] \in Request /\ client[c].job \in Jobs
        BY <3>2 DEF ReadStatus
      <4>2. seen \in Request /\ seen.job \in Jobs
        BY <4>1 DEF Request
      <4>3. client' \in [Clients -> Request]
        BY <3>2, <4>2, Blanks DEF ReadStatus
      <4>4. HasRequest'
        BY <3>2, <4>2, Blanks DEF ReadStatus, IdleState
      <4> QED BY <3>2, <4>3, <4>4 DEF ReadStatus
    <3>3. CASE WriteQueued(c)
      <4> DEFINE j == client[c].job
      <4>1. client[c] \in Request /\ j \in Jobs /\ doc[j] \in Doc /\ client[c].submitted \in Nat
        BY <3>3 DEF WriteQueued, Request
      <4>2. [status |-> "queued", submitted |-> client[c].submitted, lease |-> NoLease,
             attempts |-> 0, seqNo |-> doc[j].seqNo + 1] \in Doc
        BY <4>1, DocWrite DEF NoLease
      <4>3. doc' \in [Jobs -> Doc] /\ epoch' \in [Jobs -> Nat] /\ claims' \in [Jobs -> Nat]
        BY <3>3, <4>1, <4>2 DEF WriteQueued
      <4>4. client' \in [Clients -> Request] /\ HasRequest'
        BY <3>3, Blanks DEF WriteQueued, IdleState
      <4> QED BY <3>3, <4>3, <4>4 DEF WriteQueued
    <3> QED BY <2>1, <3>1, <3>2, <3>3 DEF ClientStep
  <2>2. ASSUME NEW j \in Jobs, RunFromCli(j) PROVE Typed'
    BY <2>2 DEF RunFromCli
  <2>3. ASSUME NEW t \in Threads, ThreadStep(t) \/ ThreadFault(t) PROVE Typed'
    <3>1. CASE Search(t)
      <4>1. PICK P \in SUBSET Jobs : hits' = [hits EXCEPT ![t] =
              {[job |-> j, seqNo |-> doc[j].seqNo, attempts |-> doc[j].attempts,
                submitted |-> doc[j].submitted] : j \in P}]
        BY <3>1 DEF Search
      <4>2. \A j \in Jobs : [job |-> j, seqNo |-> doc[j].seqNo, attempts |-> doc[j].attempts,
                             submitted |-> doc[j].submitted] \in Hit
        BY DEF Hit, Doc
      <4>3. hits' \in [Threads -> SUBSET Hit]
        BY <4>1, <4>2
      <4> QED BY <3>1, <4>3 DEF Search
    <3>2. CASE ClaimHit(t)
      <4>1. PICK h \in hits[t] :
              /\ WriteClaim(t, h)
              /\ claim' = [claim EXCEPT ![t] = [job |-> h.job, lease |-> stamp[t] + LockTTL,
                                                epoch |-> epoch[h.job]]]
        BY <3>2 DEF ClaimHit
      <4>2. claim' \in [Threads -> Claim] /\ HasJob'
        BY <3>2, <4>1, WriteClaimTyped DEF ClaimHit
      <4> QED BY <3>2, <4>1, <4>2, WriteClaimTyped DEF ClaimHit, ClearHits
    <3>3. CASE LoseHit(t)
      <4>1. /\ hits' \in [Threads -> SUBSET Hit] /\ stamp' \in [Threads -> Nat]
            /\ pc' \in [Threads -> {"poll", "claim", "execute", "record", "finish", "fail",
                                    "down"}]
        BY <3>3 DEF LoseHit, ClearHits
      <4>2. \A u \in Threads : pc'[u] = pc[u] \/ pc'[u] = "poll"
        BY <3>3 DEF LoseHit
      <4> QED BY <3>3, <4>1, <4>2 DEF LoseHit
    <3>4. CASE Execute(t)
      BY <3>4 DEF Execute
    <3>5. CASE ExecuteRaises(t)
      BY <3>5 DEF ExecuteRaises
    <3>6. CASE RecordResult(t)
      BY <3>6 DEF RecordResult, WriteResult
    <3>7. CASE RecordRaises(t)
      BY <3>7 DEF RecordRaises, WriteResult
    <3>8. CASE FinishStatus(t)
      <4>1. doc' \in [Jobs -> Doc]
        BY <3>8, WriteStatusTyped DEF FinishStatus
      <4> QED BY <3>8, <4>1, Blanks DEF FinishStatus, Forget
    <3>9. CASE FinishRaises(t)
      <4>1. doc' \in [Jobs -> Doc]
        BY <3>9, WriteStatusTyped DEF FinishRaises
      <4> QED BY <3>9, <4>1 DEF FinishRaises
    <3>10. CASE FailStatus(t)
      <4>1. doc' \in [Jobs -> Doc]
        BY <3>10, WriteStatusTyped DEF FailStatus
      <4> QED BY <3>10, <4>1, Blanks DEF FailStatus, Forget
    <3>11. CASE FailRaises(t)
      BY <3>11, Blanks DEF FailRaises, Forget
    <3>12. CASE ClaimRaises(t)
      <4>1. doc' \in [Jobs -> Doc] /\ claims' \in [Jobs -> Nat]
        BY <3>12, WriteClaimTyped DEF ClaimRaises
      <4> QED BY <3>12, <4>1 DEF ClaimRaises, ClearHits
    <3>13. CASE Crash(t)
      BY <3>13, Blanks DEF Crash, ClearHits, Forget
    <3>14. CASE Start(t)
      BY <3>14 DEF Start
    <3> QED
      BY <2>3, <3>1, <3>2, <3>3, <3>4, <3>5, <3>6, <3>7, <3>8, <3>9, <3>10,
         <3>11, <3>12, <3>13, <3>14 DEF ThreadStep, ThreadFault
  <2>4. CASE Tick
    BY <2>4 DEF Tick
  <2>5. CASE UNCHANGED vars
    BY <2>5 DEF vars
  <2> QED BY <2>1, <2>2, <2>3, <2>4, <2>5 DEF Next
<1> QED BY <1>1, <1>2, PTL DEF Spec

\* Type correctness: every handler, poll thread and fault keeps the documents,
\* the threads' local state and the requests in the types the code gives them.
THEOREM TypeCorrect == Spec => []TypeOK
<1>1. Typed => TypeOK
  BY DEF Typed
<1> QED BY <1>1, Typing, PTL

-----------------------------------------------------------------------------
(* Exclusion of unexpired leases.                                           *)

StampsPast == \A t \in Threads : stamp[t] <= clock

\* A hit whose version is still current is still claimable: the conditional
\* update that succeeds takes the job in the state the search saw.
FreshHits ==
    \A t \in Threads : \A h \in hits[t] :
        /\ h.seqNo <= doc[h.job].seqNo
        /\ h.seqNo = doc[h.job].seqNo => Claimable(h.job, stamp[t])

\* The lease in the document is the latest one taken since the job was
\* enqueued, and a job somebody claimed since then is not queued.
LatestLease ==
    \A t \in Threads : Running(t) =>
        LET d == doc[claim[t].job] e == epoch[claim[t].job] IN
        /\ claim[t].epoch <= e
        /\ claim[t].epoch = e =>
             /\ d.status # "queued"
             /\ d.status = "running" => claim[t].lease <= d.lease

LeaseInv == StampsPast /\ FreshHits /\ LatestLease /\ LeaseExclusion

\* Steps that take no lease: hits are dropped or kept, threads go on or let go
\* of their job, and a document is left alone or settled under a new version.
LEMMA LetGo ==
    ASSUME Typed, Typed', LeaseInv, clock' = clock, epoch' = epoch,
           \A t \in Threads : /\ hits'[t] \subseteq hits[t]
                              /\ hits'[t] # {} => stamp'[t] = stamp[t]
                              /\ stamp'[t] <= clock,
           \A t \in Threads : Running(t)' => Running(t) /\ claim'[t] = claim[t],
           \A j \in Jobs : \/ doc'[j] = doc[j]
                           \/ /\ doc'[j].seqNo > doc[j].seqNo
                              /\ doc'[j].status \in {"succeeded", "failed"}
    PROVE  LeaseInv'
  <1>1. StampsPast'
    BY DEF StampsPast
  <1>2. FreshHits'
    <2> SUFFICES ASSUME NEW t \in Threads, NEW h \in hits'[t]
                 PROVE  /\ h.seqNo <= doc'[h.job].seqNo
                        /\ h.seqNo = doc'[h.job].seqNo => Claimable(h.job, stamp[t])'
      BY DEF FreshHits
    <2>1. /\ h \in hits[t] /\ stamp'[t] = stamp[t] /\ h.job \in Jobs /\ h.seqNo \in Nat
          /\ doc[h.job].seqNo \in Nat /\ doc'[h.job].seqNo \in Nat
      BY DEF Typed, TypeOK, Hit, Doc
    <2>2. CASE doc'[h.job] = doc[h.job]
      BY <2>1, <2>2 DEF LeaseInv, FreshHits, Claimable, Expired
    <2>3. CASE doc'[h.job].seqNo > doc[h.job].seqNo
      BY <2>1, <2>3 DEF LeaseInv, FreshHits
    <2> QED BY <2>1, <2>2, <2>3
  <1>3. LatestLease'
    <2> SUFFICES ASSUME NEW t \in Threads, Running(t)'
                 PROVE  LET d == doc'[claim'[t].job] e == epoch'[claim'[t].job] IN
                        /\ claim'[t].epoch <= e
                        /\ claim'[t].epoch = e =>
                             /\ d.status # "queued"
                             /\ d.status = "running" => claim'[t].lease <= d.lease
      BY DEF LatestLease
    <2>1. Running(t) /\ claim'[t] = claim[t] /\ claim[t].job \in Jobs
      BY DEF Typed, HasJob
    <2> QED BY <2>1 DEF LeaseInv, LatestLease
  <1>4. LeaseExclusion'
    BY DEF LeaseInv, LeaseExclusion
  <1> QED BY <1>1, <1>2, <1>3, <1>4 DEF LeaseInv

\* Taking a lease: whoever still executes the job since it was enqueued has a
\* lease that ran out before the claimer's search, so before now.
LEMMA TakeLease ==
    ASSUME QueueAssumption, Typed, Typed', LeaseInv, clock' = clock, epoch' = epoch,
           NEW t \in Threads, NEW h \in hits[t], WriteClaim(t, h), ClearHits(t),
           \A u \in Threads \ {t} : Running(u)' = Running(u) /\ claim'[u] = claim[u],
           Running(t)' => claim'[t] = [job |-> h.job, lease |-> stamp[t] + LockTTL,
                                       epoch |-> epoch[h.job]]
    PROVE  LeaseInv'
  <1>1. /\ h.job \in Jobs /\ h.seqNo \in Nat /\ stamp[t] \in Nat /\ clock \in Nat
        /\ LockTTL \in Nat /\ epoch[h.job] \in Nat
        /\ \A j \in Jobs : doc[j].seqNo \in Nat /\ doc[j].lease \in Int
    BY DEF Typed, TypeOK, Hit, QueueAssumption, Doc
  <1>2. Claimable(h.job, stamp[t]) /\ stamp[t] <= clock
    BY DEF LeaseInv, FreshHits, StampsPast, WriteClaim, SameVersion
  <1>3. /\ doc'[h.job].status = "running" /\ doc'[h.job].lease = stamp[t] + LockTTL
        /\ doc'[h.job].seqNo = doc[h.job].seqNo + 1
        /\ \A j \in Jobs \ {h.job} : doc'[j] = doc[j]
    BY <1>1 DEF WriteClaim, Typed, TypeOK
  \* No other thread's lease on this enqueueing outlives the new one, or now.
  <1>4. ASSUME NEW u \in Threads, Running(u), claim[u].job = h.job,
               claim[u].epoch = epoch[h.job]
        PROVE  claim[u].lease \in Int /\ claim[u].lease < stamp[t]
    <2>1. doc[h.job].status # "queued"
      BY <1>4 DEF LeaseInv, LatestLease
    <2>2. doc[h.job].status = "running" /\ doc[h.job].lease < stamp[t]
      BY <1>2, <2>1 DEF Claimable, Expired
    <2>3. claim[u].lease <= doc[h.job].lease
      BY <1>4, <2>2 DEF LeaseInv, LatestLease
    <2>4. claim[u].lease \in Int
      BY DEF Typed, TypeOK, Claim
    <2> QED BY <1>1, <2>2, <2>3, <2>4
  <1>5. StampsPast'
    BY DEF LeaseInv, StampsPast, ClearHits, Typed, TypeOK
  <1>6. FreshHits'
    <2> SUFFICES ASSUME NEW u \in Threads, NEW g \in hits'[u]
                 PROVE  /\ g.seqNo <= doc'[g.job].seqNo
                        /\ g.seqNo = doc'[g.job].seqNo => Claimable(g.job, stamp[u])'
      BY DEF FreshHits
    <2>1. u # t /\ g \in hits[u] /\ stamp'[u] = stamp[u] /\ g.job \in Jobs /\ g.seqNo \in Nat
      BY DEF ClearHits, Typed, TypeOK, Hit
    <2>2. CASE g.job = h.job
      BY <1>1, <1>3, <2>1, <2>2 DEF LeaseInv, FreshHits
    <2>3. CASE g.job # h.job
      BY <1>3, <2>1, <2>3 DEF LeaseInv, FreshHits, Claimable, Expired
    <2> QED BY <2>2, <2>3
  <1>7. LatestLease'
    <2> SUFFICES ASSUME NEW u \in Threads, Running(u)'
                 PROVE  LET d == doc'[claim'[u].job] e == epoch'[claim'[u].job] IN
                        /\ claim'[u].epoch <= e
                        /\ claim'[u].epoch = e =>
                             /\ d.status # "queued"
                             /\ d.status = "running" => claim'[u].lease <= d.lease
      BY DEF LatestLease
    <2>1. CASE u = t
      BY <1>1, <1>3, <2>1
    <2>2. CASE u # t
      <3>1. Running(u) /\ claim'[u] = claim[u] /\ claim[u].job \in Jobs /\ claim[u].lease \in Int
        BY <2>2 DEF Typed, TypeOK, HasJob, Claim
      <3>2. CASE claim[u].job = h.job
        BY <1>1, <1>3, <1>4, <3>1, <3>2 DEF LeaseInv, LatestLease
      <3>3. CASE claim[u].job # h.job
        BY <1>3, <3>1, <3>3 DEF LeaseInv, LatestLease
      <3> QED BY <3>2, <3>3
    <2> QED BY <2>1, <2>2
  <1>8. LeaseExclusion'
    <2> SUFFICES ASSUME NEW u \in Threads, NEW v \in Threads, u # v, Running(u)', Running(v)',
                        claim'[u].job = claim'[v].job, claim'[u].epoch = claim'[v].epoch
                 PROVE  claim'[u].lease < clock' \/ claim'[v].lease < clock'
      BY DEF LeaseExclusion
    <2>1. CASE u # t /\ v # t
      BY <2>1 DEF LeaseInv, LeaseExclusion
    <2>2. CASE u = t
      <3>1. Running(v) /\ claim'[v] = claim[v] /\ claim[v].lease < stamp[t]
            /\ claim[v].lease \in Int
        BY <1>4, <2>2
      <3> QED BY <1>1, <1>2, <3>1
    <2>3. CASE v = t
      <3>1. Running(u) /\ claim'[u] = claim[u] /\ claim[u].lease < stamp[t]
            /\ claim[u].lease \in Int
        BY <1>4, <2>3
      <3> QED BY <1>1, <1>2, <3>1
    <2> QED BY <2>1, <2>2, <2>3
  <1> QED BY <1>5, <1>6, <1>7, <1>8 DEF LeaseInv

\* The inductive invariant behind LeaseExclusion: every step of a handler, a
\* poll thread or the environment preserves it.
THEOREM LeaseInvariance == Spec => []LeaseInv
<1> USE QueueAssumption
<1>1. Init => LeaseInv
  BY DEF Init, LeaseInv, StampsPast, FreshHits, LatestLease, LeaseExclusion, Running
<1>2. Typed /\ Typed' /\ LeaseInv /\ [Next]_vars => LeaseInv'
  <2> SUFFICES ASSUME Typed, Typed', LeaseInv, [Next]_vars PROVE LeaseInv'
    OBVIOUS
  <2> USE DEF store, thread, ghosts
  <2>0. \A t \in Threads : stamp[t] <= clock
    BY DEF LeaseInv, StampsPast
  <2>1. ASSUME NEW c \in Clients, ClientStep(c) PROVE LeaseInv'
    <3>1. ASSUME NEW j \in Jobs, SubmitRequest(c, j) PROVE LeaseInv'
      BY <2>0, <3>1, LetGo DEF SubmitRequest, Running
    <3>2. CASE ReadStatus(c)
      BY <2>0, <3>2, LetGo DEF ReadStatus, Running
    \* An enqueued job starts a new epoch under a new version: the hits that
    \* saw it before are stale, and nobody holds a lease of this epoch.
    <3>3. CASE WriteQueued(c)
      <4> DEFINE j == client[c].job
      <4>1. CASE UNCHANGED <<doc, epoch, claims>>
        BY <2>0, <3>3, <4>1, LetGo DEF WriteQueued, Running
      <4>2. CASE ~UNCHANGED <<doc, epoch, claims>>
        <5>1. /\ j \in Jobs /\ doc[j].seqNo \in Nat /\ epoch[j] \in Nat
              /\ UNCHANGED <<clock, pc, hits, stamp, claim>>
          BY <3>3 DEF WriteQueued, Typed, TypeOK, HasRequest, Doc
        <5>2. /\ doc'[j].seqNo = doc[j].seqNo + 1 /\ epoch'[j] = epoch[j] + 1
              /\ \A k \in Jobs \ {j} : doc'[k] = doc[k] /\ epoch'[k] = epoch[k]
          BY <3>3, <4>2, <5>1 DEF WriteQueued, Typed, TypeOK
        <5>3. StampsPast'
          BY <5>1 DEF LeaseInv, StampsPast
        <5>4. FreshHits'
          <6> SUFFICES ASSUME NEW t \in Threads, NEW h \in hits[t]
                       PROVE  /\ h.seqNo <= doc'[h.job].seqNo
                              /\ h.seqNo = doc'[h.job].seqNo => Claimable(h.job, stamp[t])'
            BY <5>1 DEF FreshHits
          <6>1. h.job \in Jobs /\ h.seqNo \in Nat
            BY DEF Typed, TypeOK, Hit
          <6>2. CASE h.job = j
            BY <5>1, <5>2, <6>1, <6>2 DEF LeaseInv, FreshHits
          <6>3. CASE h.job # j
            BY <5>1, <5>2, <6>1, <6>3 DEF LeaseInv, FreshHits, Claimable, Expired
          <6> QED BY <6>2, <6>3
        <5>5. LatestLease'
          <6> SUFFICES ASSUME NEW t \in Threads, Running(t)
                       PROVE  LET d == doc'[claim[t].job] e == epoch'[claim[t].job] IN
                              /\ claim[t].epoch <= e
                              /\ claim[t].epoch = e =>
                                   /\ d.status # "queued"
                                   /\ d.status = "running" => claim[t].lease <= d.lease
            BY <5>1 DEF LatestLease, Running
          <6>1. claim[t].job \in Jobs /\ claim[t].epoch \in Nat
            BY DEF Typed, TypeOK, HasJob, Claim
          <6>2. CASE claim[t].job = j
            BY <5>1, <5>2, <6>1, <6>2 DEF LeaseInv, LatestLease
          <6>3. CASE claim[t].job # j
            BY <5>2, <6>1, <6>3 DEF LeaseInv, LatestLease
          <6> QED BY <6>2, <6>3
        <5>6. LeaseExclusion'
          BY <5>1 DEF LeaseInv, LeaseExclusion, Running
        <5> QED BY <5>3, <5>4, <5>5, <5>6 DEF LeaseInv
      <4> QED BY <4>1, <4>2
    <3> QED BY <2>1, <3>1, <3>2, <3>3 DEF ClientStep
  <2>2. ASSUME NEW j \in Jobs, RunFromCli(j) PROVE LeaseInv'
    BY <2>0, <2>2, LetGo DEF RunFromCli, Running
  <2>3. ASSUME NEW t \in Threads, ThreadStep(t) \/ ThreadFault(t) PROVE LeaseInv'
    <3> USE DEF Running
    <3>a. \A j \in Jobs : doc[j].seqNo \in Nat
      BY DEF Typed, TypeOK, Doc
    \* A settled document has a new version.
    <3>b. ASSUME NEW s \in {"succeeded", "failed"}, WriteStatus(claim[t].job, s)
          PROVE  \A j \in Jobs : \/ doc'[j] = doc[j]
                                 \/ /\ doc'[j].seqNo > doc[j].seqNo
                                    /\ doc'[j].status \in {"succeeded", "failed"}
      BY <3>a, <3>b DEF WriteStatus, Typed, TypeOK
    <3>c. outcome[t] \in {"none", "succeeded", "failed"}
          /\ (pc[t] = "finish" => outcome[t] \in {"succeeded", "failed"})
      BY DEF Typed, TypeOK, HasOutcome
    <3>1. CASE Search(t)
      <4>1. PICK P \in SUBSET Jobs :
              /\ IsPage(P, clock)
              /\ hits' = [hits EXCEPT ![t] =
                   {[job |-> j, seqNo |-> doc[j].seqNo, attempts |-> doc[j].attempts,
                     submitted |-> doc[j].submitted] : j \in P}]
        BY <3>1 DEF Search
      <4>2. /\ UNCHANGED <<doc, clock, claim, epoch>>
            /\ \A u \in Threads : Running(u)' = Running(u)
            /\ stamp' = [stamp EXCEPT ![t] = clock]
        BY <3>1 DEF Search, Typed, TypeOK
      <4>3. StampsPast'
        BY <4>2 DEF LeaseInv, StampsPast, Typed, TypeOK
      <4>4. FreshHits'
        <5> SUFFICES ASSUME NEW u \in Threads, NEW h \in hits'[u]
                     PROVE  /\ h.seqNo <= doc[h.job].seqNo
                            /\ h.seqNo = doc[h.job].seqNo => Claimable(h.job, stamp'[u])
          BY <4>2 DEF FreshHits, Claimable, Expired
        <5>1. CASE u = t
          <6>1. PICK j \in P : h = [job |-> j, seqNo |-> doc[j].seqNo,
                                    attempts |-> doc[j].attempts,
                                    submitted |-> doc[j].submitted]
            BY <4>1, <5>1 DEF Typed, TypeOK
          <6>2. Claimable(j, clock)
            BY <4>1 DEF IsPage
          <6>3. stamp'[u] = clock
            BY <4>2, <5>1 DEF Typed, TypeOK
          <6> QED BY <3>a, <6>1, <6>2, <6>3
        <5>2. CASE u # t
          BY <4>1, <4>2, <5>2 DEF LeaseInv, FreshHits, Typed, TypeOK
        <5> QED BY <5>1, <5>2
      <4>5. LatestLease' /\ LeaseExclusion'
        BY <4>2 DEF LeaseInv, LatestLease, LeaseExclusion
      <4> QED BY <4>3, <4>4, <4>5 DEF LeaseInv
    <3>2. CASE ClaimHit(t)
      <4>1. PICK h \in hits[t] :
              /\ WriteClaim(t, h)
              /\ claim' = [claim EXCEPT ![t] = [job |-> h.job, lease |-> stamp[t] + LockTTL,
                                                epoch |-> epoch[h.job]]]
        BY <3>2 DEF ClaimHit
      <4>2. /\ clock' = clock /\ epoch' = epoch /\ ClearHits(t)
            /\ \A u \in Threads \ {t} : Running(u)' = Running(u) /\ claim'[u] = claim[u]
            /\ claim'[t] = [job |-> h.job, lease |-> stamp[t] + LockTTL,
                            epoch |-> epoch[h.job]]
        BY <3>2, <4>1 DEF ClaimHit, Typed, TypeOK
      <4> QED BY <4>1, <4>2, TakeLease
    <3>3. CASE LoseHit(t)
      BY <2>0, <3>3, LetGo DEF LoseHit, ClearHits, Typed, TypeOK
    <3>4. CASE Execute(t)
      BY <2>0, <3>4, LetGo DEF Execute, Typed, TypeOK
    <3>5. CASE ExecuteRaises(t)
      BY <2>0, <3>5, LetGo DEF ExecuteRaises, Typed, TypeOK
    <3>6. CASE RecordResult(t)
      BY <2>0, <3>6, LetGo DEF RecordResult, Typed, TypeOK
    <3>7. CASE RecordRaises(t)
      BY <2>0, <3>7, LetGo DEF RecordRaises, Typed, TypeOK
    <3>8. CASE FinishStatus(t)
      BY <2>0, <3>b, <3>c, <3>8, LetGo DEF FinishStatus, Forget, Typed, TypeOK
    <3>9. CASE FinishRaises(t)
      BY <2>0, <3>b, <3>c, <3>9, LetGo DEF FinishRaises, Typed, TypeOK
    <3>10. CASE FailStatus(t)
      BY <2>0, <3>b, <3>10, LetGo DEF FailStatus, Forget, Typed, TypeOK
    <3>11. CASE FailRaises(t)
      BY <2>0, <3>11, LetGo DEF FailRaises, Forget, Typed, TypeOK
    <3>12. CASE ClaimRaises(t)
      <4>1. /\ clock' = clock /\ epoch' = epoch /\ ClearHits(t) /\ claim' = claim
            /\ ~Running(t)' /\ \A u \in Threads \ {t} : Running(u)' = Running(u)
        BY <3>12 DEF ClaimRaises, Typed, TypeOK
      <4>2. CASE \E h \in hits[t] : WriteClaim(t, h)
        BY <4>1, <4>2, TakeLease
      <4>3. CASE UNCHANGED doc
        BY <2>0, <4>1, <4>3, LetGo DEF ClearHits, Typed, TypeOK
      <4> QED BY <3>12, <4>2, <4>3 DEF ClaimRaises
    <3>13. CASE Crash(t)
      BY <2>0, <3>13, LetGo DEF Crash, ClearHits, Forget, Typed, TypeOK
    <3>14. CASE Start(t)
      BY <2>0, <3>14, LetGo DEF Start, Typed, TypeOK
    <3> QED
      BY <2>3, <3>1, <3>2, <3>3, <3>4, <3>5, <3>6, <3>7, <3>8, <3>9, <3>10,
         <3>11, <3>12, <3>13, <3>14 DEF ThreadStep, ThreadFault
  \* Leases that ran out stay run out.
  <2>4. CASE Tick
    <3>1. /\ clock \in Nat /\ clock' = clock + 1
          /\ UNCHANGED <<doc, epoch, pc, hits, stamp, claim>>
      BY <2>4 DEF Tick, Typed, TypeOK
    <3>2. /\ StampsPast' /\ FreshHits' /\ LatestLease'
      <4>1. StampsPast'
        BY <2>0, <3>1 DEF StampsPast, Typed, TypeOK
      <4>2. FreshHits'
        BY <3>1 DEF LeaseInv, FreshHits, Claimable, Expired
      <4>3. LatestLease'
        BY <3>1 DEF LeaseInv, LatestLease, Running
      <4> QED BY <4>1, <4>2, <4>3
    <3>3. \A t \in Threads : claim[t].lease \in Int
      BY DEF Typed, TypeOK, Claim
    <3>4. LeaseExclusion'
      BY <3>1, <3>3 DEF LeaseInv, LeaseExclusion, Running
    <3> QED BY <3>2, <3>4 DEF LeaseInv
  <2>5. CASE UNCHANGED vars
    <3>1. UNCHANGED <<doc, epoch, clock, pc, hits, stamp, claim>>
      BY <2>5 DEF vars
    <3> QED BY <2>0, <3>1, LetGo DEF Running
  <2> QED BY <2>1, <2>2, <2>3, <2>4, <2>5 DEF Next
<1> QED BY <1>1, <1>2, Typing, PTL DEF Spec

\* Two threads executing the same enqueued job never both hold an unexpired
\* lease on it, for any number of jobs, threads, clients and faults.
THEOREM LeasesExclude == Spec => []LeaseExclusion
<1>1. LeaseInv => LeaseExclusion
  BY DEF LeaseInv
<1> QED BY <1>1, LeaseInvariance, PTL

\* A claim, whether or not its reply arrives, takes a job that is claimable at
\* the time of the write and not only at the time of the search.
THEOREM ClaimsTakeClaimable == Spec => ClaimTakesClaimable
<1>1. Typed /\ LeaseInv /\ [Next]_vars =>
        [\A j \in Jobs : claims'[j] > claims[j] => Claimable(j, clock)]_vars
  <2> SUFFICES ASSUME Typed, LeaseInv, Next, NEW j \in Jobs, claims'[j] > claims[j]
               PROVE  Claimable(j, clock)
    OBVIOUS
  <2>1. claims[j] \in Nat /\ claims' # claims
    BY DEF Typed, TypeOK
  <2>2. ASSUME NEW t \in Threads, NEW h \in hits[t], WriteClaim(t, h)
        PROVE  Claimable(j, clock)
    <3>1. /\ h.job \in Jobs /\ claims[h.job] \in Nat /\ doc[h.job].lease \in Int
          /\ stamp[t] \in Nat /\ clock \in Nat
      BY DEF Typed, TypeOK, Hit, Doc
    <3>2. h.job = j
      BY <2>1, <2>2, <3>1 DEF WriteClaim, Typed, TypeOK
    <3>3. Claimable(j, stamp[t]) /\ stamp[t] <= clock
      BY <2>2, <3>2 DEF WriteClaim, SameVersion, LeaseInv, FreshHits, StampsPast
    <3> QED BY <3>1, <3>2, <3>3 DEF Claimable, Expired
  <2>3. ASSUME NEW c \in Clients, ClientStep(c) PROVE Claimable(j, clock)
    <3>1. claims' = claims \/ claims' = [claims EXCEPT ![client[c].job] = 0]
      BY <2>3 DEF ClientStep, SubmitRequest, ReadStatus, WriteQueued, ghosts
    <3> QED BY <2>1, <3>1 DEF Typed, TypeOK
  <2>4. ASSUME NEW t \in Threads, ThreadStep(t) \/ ThreadFault(t) PROVE Claimable(j, clock)
    <3>1. claims' = claims \/ \E h \in hits[t] : WriteClaim(t, h)
      BY <2>4 DEF ThreadStep, ThreadFault, Search, ClaimHit, LoseHit, Execute, ExecuteRaises,
                  RecordResult, RecordRaises, FinishStatus, FinishRaises, FailStatus,
                  FailRaises, ClaimRaises, Crash, Start, ghosts
    <3> QED BY <2>1, <2>2, <3>1
  <2>5. ASSUME Tick \/ \E k \in Jobs : RunFromCli(k) PROVE Claimable(j, clock)
    BY <2>1, <2>5 DEF Tick, RunFromCli, ghosts
  <2> QED BY <2>3, <2>4, <2>5 DEF Next
<1> QED BY <1>1, Typing, LeaseInvariance, PTL DEF Spec, ClaimTakesClaimable

-----------------------------------------------------------------------------
(* Results and attempts.                                                    *)

ResultInv ==
    /\ SucceededHasResult
    /\ \A t \in Threads : pc[t] = "finish" => results[claim[t].job] # "none"

\* Whoever is about to settle a job has recorded a result for it, and so has whoever
\* settled it as succeeded.
THEOREM ResultInvariance == Spec => []ResultInv
<1>1. Init => ResultInv
  BY DEF Init, ResultInv, SucceededHasResult, NoDoc
<1>2. Typed /\ ResultInv /\ [Next]_vars => ResultInv'
  <2> SUFFICES ASSUME Typed, ResultInv, [Next]_vars PROVE ResultInv'
    OBVIOUS
  <2> USE DEF store, thread, ghosts
  <2>0. /\ doc \in [Jobs -> Doc] /\ results \in [Jobs -> {"none", "succeeded", "failed"}]
        /\ \A t \in Threads : /\ Running(t) => claim[t].job \in Jobs
                              /\ pc[t] \in {"record", "finish"} =>
                                   outcome[t] \in {"succeeded", "failed"}
    BY DEF Typed, TypeOK, HasJob, HasOutcome
  \* Results are only ever overwritten by results.
  <2>1. ASSUME \A j \in Jobs : results'[j] = results[j] \/ results'[j] # "none",
               \A j \in Jobs : doc'[j].status = "succeeded" =>
                                doc[j].status = "succeeded" \/ results'[j] # "none",
               \A t \in Threads : pc'[t] = "finish" =>
                  \/ pc[t] = "finish" /\ claim'[t] = claim[t]
                  \/ results'[claim'[t].job] # "none"
        PROVE ResultInv'
    BY <2>0, <2>1 DEF ResultInv, SucceededHasResult, Running
  <2>2. ASSUME NEW c \in Clients, ClientStep(c) PROVE ResultInv'
    <3>1. /\ UNCHANGED <<results, pc, claim>>
          /\ \A j \in Jobs : doc'[j].status = "succeeded" => doc[j].status = "succeeded"
      BY <2>0, <2>2 DEF ClientStep, SubmitRequest, ReadStatus, WriteQueued
    <3> QED BY <2>1, <3>1
  <2>3. ASSUME NEW k \in Jobs, RunFromCli(k) PROVE ResultInv'
    BY <2>0, <2>1, <2>3 DEF RunFromCli
  <2>4. ASSUME NEW t \in Threads, ThreadStep(t) \/ ThreadFault(t) PROVE ResultInv'
    <3> USE DEF Running
    <3>0. pc \in [Threads -> {"poll", "claim", "execute", "record", "finish", "fail", "down"}]
          /\ claim \in [Threads -> Claim]
      BY DEF Typed, TypeOK
    <3>1. CASE Search(t) \/ LoseHit(t) \/ Execute(t) \/ ExecuteRaises(t) \/ Start(t)
               \/ FailRaises(t) \/ Crash(t)
      <4>1. /\ UNCHANGED <<doc, results>>
            /\ \A u \in Threads : pc'[u] = "finish" => pc[u] = "finish" /\ claim'[u] = claim[u]
        BY <3>0, <3>1 DEF Search, LoseHit, Execute, ExecuteRaises, Start, FailRaises, Crash,
                          ClearHits, Forget
      <4> QED BY <2>1, <4>1
    <3>2. CASE ClaimHit(t) \/ ClaimRaises(t)
      <4>1. /\ UNCHANGED results
            /\ UNCHANGED doc \/ \E h \in hits[t] : WriteClaim(t, h)
            /\ \A u \in Threads : pc'[u] = "finish" => pc[u] = "finish" /\ claim'[u] = claim[u]
        BY <3>0, <3>2 DEF ClaimHit, ClaimRaises
      <4>2. ASSUME NEW h \in hits[t], WriteClaim(t, h), NEW j \in Jobs
            PROVE  doc'[j] = doc[j] \/ doc'[j].status = "running"
        BY <2>0, <4>2 DEF WriteClaim
      <4> QED BY <2>1, <4>1, <4>2
    <3>3. CASE RecordResult(t) \/ RecordRaises(t)
      <4>1. /\ UNCHANGED <<doc, claim>>
            /\ UNCHANGED results \/ WriteResult(t)
            /\ \A u \in Threads : pc'[u] = "finish" => pc[u] = "finish" \/ u = t
            /\ pc'[t] = "finish" => WriteResult(t)
            /\ claim[t].job \in Jobs /\ outcome[t] # "none"
        BY <2>0, <3>0, <3>3 DEF RecordResult, RecordRaises
      <4>2. \A j \in Jobs : results'[j] = results[j] \/ results'[j] # "none"
        BY <2>0, <4>1 DEF WriteResult
      <4>3. pc'[t] = "finish" => results'[claim'[t].job] # "none"
        BY <2>0, <4>1 DEF WriteResult
      <4> QED BY <2>1, <4>1, <4>2, <4>3
    <3>4. CASE FinishStatus(t) \/ FinishRaises(t) \/ FailStatus(t)
      <4>1. /\ UNCHANGED results /\ claim[t].job \in Jobs
            /\ \A u \in Threads : pc'[u] = "finish" => pc[u] = "finish" /\ claim'[u] = claim[u]
        BY <2>0, <3>0, <3>4 DEF FinishStatus, FinishRaises, FailStatus, Forget
      <4>2. \A j \in Jobs : \/ doc'[j] = doc[j] \/ doc'[j].status = "failed"
                            \/ j = claim[t].job /\ pc[t] = "finish"
        BY <2>0, <3>4 DEF FinishStatus, FinishRaises, FailStatus, WriteStatus
      <4> QED BY <2>1, <4>1, <4>2 DEF ResultInv
    <3> QED BY <2>4, <3>1, <3>2, <3>3, <3>4 DEF ThreadStep, ThreadFault
  <2>5. CASE Tick \/ UNCHANGED vars
    BY <2>1, <2>5 DEF Tick, vars
  <2> QED BY <2>2, <2>3, <2>4, <2>5 DEF Next
<1> QED BY <1>1, <1>2, Typing, PTL DEF Spec

\* A job reads "succeeded" only once a result was recorded for it, whatever
\* crashed or raised on the way.
THEOREM SucceededHaveResults == Spec => []SucceededHasResult
<1>1. ResultInv => SucceededHasResult
  BY DEF ResultInv
<1> QED BY <1>1, ResultInvariance, PTL

\* A hit whose version is still current has the attempts of the document.
CurrentHits ==
    \A t \in Threads : \A h \in hits[t] :
        h.seqNo = doc[h.job].seqNo => h.attempts = doc[h.job].attempts

AttemptsInv == AttemptsCountClaims /\ CurrentHits

\* Steps that add no hit: a document is left alone, with the claims counted for it, or
\* gets a new version whose attempts are those claims.
LEMMA Recount ==
    ASSUME Typed, Typed', LeaseInv, AttemptsInv,
           \A t \in Threads : hits'[t] \subseteq hits[t],
           \A j \in Jobs : \/ doc'[j] = doc[j] /\ claims'[j] = claims[j]
                           \/ /\ doc'[j].seqNo > doc[j].seqNo
                              /\ doc'[j].attempts = claims'[j]
    PROVE  AttemptsInv'
  <1>1. AttemptsCountClaims'
    BY DEF AttemptsInv, AttemptsCountClaims
  <1>2. CurrentHits'
    <2> SUFFICES ASSUME NEW t \in Threads, NEW h \in hits'[t], h.seqNo = doc'[h.job].seqNo
                 PROVE  h.attempts = doc'[h.job].attempts
      BY DEF CurrentHits
    <2>1. /\ h \in hits[t] /\ h.job \in Jobs /\ h.seqNo \in Nat
          /\ doc[h.job].seqNo \in Nat /\ doc'[h.job].seqNo \in Nat
      BY DEF Typed, TypeOK, Hit, Doc
    <2>2. h.seqNo <= doc[h.job].seqNo
      BY <2>1 DEF LeaseInv, FreshHits
    <2> QED BY <2>1, <2>2 DEF AttemptsInv, CurrentHits
  <1> QED BY <1>1, <1>2 DEF AttemptsInv

\* The attempts a claim reads from a search hit and writes back count every claim since
\* the job was enqueued: one that another thread wrote meanwhile refuses the update.
THEOREM AttemptsCounted == Spec => []AttemptsCountClaims
<1>1. Init => AttemptsInv
  BY DEF Init, AttemptsInv, AttemptsCountClaims, CurrentHits, NoDoc
<1>2. Typed /\ Typed' /\ LeaseInv /\ AttemptsInv /\ [Next]_vars => AttemptsInv'
  <2> SUFFICES ASSUME Typed, Typed', LeaseInv, AttemptsInv, [Next]_vars PROVE AttemptsInv'
    OBVIOUS
  <2> USE DEF store, thread, ghosts
  <2>0. /\ doc \in [Jobs -> Doc] /\ claims \in [Jobs -> Nat] /\ hits \in [Threads -> SUBSET Hit]
        /\ \A j \in Jobs : doc[j].seqNo \in Nat /\ doc[j].attempts = claims[j]
    BY DEF Typed, TypeOK, Doc, AttemptsInv, AttemptsCountClaims
  \* Steps that settle at most one document, or none.
  <2>1. ASSUME UNCHANGED claims,
               UNCHANGED doc \/ \E j \in Jobs, s \in {"succeeded", "failed"} : WriteStatus(j, s),
               \A t \in Threads : hits'[t] \subseteq hits[t]
        PROVE  AttemptsInv'
    <3>1. \A k \in Jobs : \/ doc'[k] = doc[k] /\ claims'[k] = claims[k]
                          \/ doc'[k].seqNo > doc[k].seqNo /\ doc'[k].attempts = claims'[k]
      BY <2>0, <2>1 DEF WriteStatus
    <3> QED BY <2>1, <3>1, Recount
  <2>2. ASSUME NEW c \in Clients, ClientStep(c) PROVE AttemptsInv'
    <3>1. CASE WriteQueued(c)
      <4>1. client[c].job \in Jobs
        BY <3>1 DEF WriteQueued, Typed, HasRequest
      <4>2. \A k \in Jobs : \/ doc'[k] = doc[k] /\ claims'[k] = claims[k]
                            \/ doc'[k].seqNo > doc[k].seqNo /\ doc'[k].attempts = claims'[k]
        BY <2>0, <3>1, <4>1 DEF WriteQueued
      <4> QED BY <3>1, <4>2, Recount DEF WriteQueued
    <3>2. CASE ~WriteQueued(c)
      BY <2>1, <2>2, <3>2 DEF ClientStep, SubmitRequest, ReadStatus
    <3> QED BY <3>1, <3>2
  <2>3. ASSUME NEW t \in Threads, ThreadStep(t) \/ ThreadFault(t) PROVE AttemptsInv'
    <3>a. /\ Running(t) => claim[t].job \in Jobs
          /\ pc[t] = "finish" => outcome[t] \in {"succeeded", "failed"}
      BY DEF Typed, TypeOK, HasJob, HasOutcome
    <3>b. ASSUME NEW h \in hits[t], WriteClaim(t, h), hits' = [hits EXCEPT ![t] = {}]
          PROVE  AttemptsInv'
      <4>1. h.job \in Jobs
        BY <2>0 DEF Hit
      <4>2. h.attempts = claims[h.job]
        BY <2>0, <3>b, <4>1 DEF WriteClaim, SameVersion, AttemptsInv, CurrentHits
      <4>3. \A k \in Jobs : \/ doc'[k] = doc[k] /\ claims'[k] = claims[k]
                            \/ doc'[k].seqNo > doc[k].seqNo /\ doc'[k].attempts = claims'[k]
        BY <2>0, <3>b, <4>1, <4>2 DEF WriteClaim
      <4>4. \A u \in Threads : hits'[u] \subseteq hits[u]
        BY <2>0, <3>b
      <4> QED BY <4>3, <4>4, Recount
    <3>1. CASE Search(t)
      <4>1. PICK P \in SUBSET Jobs : hits' = [hits EXCEPT ![t] =
              {[job |-> j, seqNo |-> doc[j].seqNo, attempts |-> doc[j].attempts,
                submitted |-> doc[j].submitted] : j \in P}]
        BY <3>1 DEF Search
      <4>2. UNCHANGED <<doc, claims>>
        BY <3>1 DEF Search
      <4>3. CurrentHits'
        BY <2>0, <4>1, <4>2 DEF AttemptsInv, CurrentHits
      <4> QED BY <4>2, <4>3 DEF AttemptsInv, AttemptsCountClaims
    <3>2. CASE ClaimHit(t)
      BY <3>2, <3>b DEF ClaimHit, ClearHits
    <3>3. CASE ClaimRaises(t)
      <4>1. CASE UNCHANGED <<doc, claims>>
        BY <2>0, <2>1, <3>3, <4>1 DEF ClaimRaises, ClearHits
      <4>2. CASE \E h \in hits[t] : WriteClaim(t, h)
        BY <3>3, <3>b, <4>2 DEF ClaimRaises, ClearHits
      <4> QED BY <3>3, <4>1, <4>2 DEF ClaimRaises
    <3>4. CASE LoseHit(t) \/ Crash(t)
      <4>1. UNCHANGED <<doc, claims>> /\ \A u \in Threads : hits'[u] \subseteq hits[u]
        BY <2>0, <3>4 DEF LoseHit, Crash, ClearHits
      <4> QED BY <2>1, <4>1
    <3>5. CASE FinishStatus(t) \/ FinishRaises(t) \/ FailStatus(t)
      <4>1. /\ UNCHANGED <<hits, claims>> /\ claim[t].job \in Jobs
            /\ UNCHANGED doc \/ \E s \in {"succeeded", "failed"} : WriteStatus(claim[t].job, s)
        BY <3>5, <3>a DEF FinishStatus, FinishRaises, FailStatus, Running
      <4> QED BY <2>1, <4>1
    <3>6. CASE Execute(t) \/ ExecuteRaises(t) \/ RecordResult(t) \/ RecordRaises(t)
               \/ FailRaises(t) \/ Start(t)
      <4>1. UNCHANGED <<doc, claims, hits>>
        BY <3>6 DEF Execute, ExecuteRaises, RecordResult, RecordRaises, FailRaises, Start
      <4> QED BY <2>1, <4>1
    <3> QED BY <2>3, <3>1, <3>2, <3>3, <3>4, <3>5, <3>6 DEF ThreadStep, ThreadFault
  <2>4. CASE Tick \/ UNCHANGED vars \/ \E j \in Jobs : RunFromCli(j)
    <3>1. UNCHANGED <<doc, claims, hits>>
      BY <2>4 DEF Tick, vars, RunFromCli
    <3> QED BY <2>1, <3>1
  <2> QED BY <2>2, <2>3, <2>4 DEF Next
<1>3. AttemptsInv => AttemptsCountClaims
  BY DEF AttemptsInv
<1> QED BY <1>1, <1>2, <1>3, Typing, LeaseInvariance, PTL DEF Spec

-----------------------------------------------------------------------------
(* JobQueue implements LeasedQueue: under the mapping Promised, its initial *)
(* states are initial states, and every step is a step of LeasedQueue or    *)
(* changes nothing that LeasedQueue sees.                                   *)

\* A thread that executes nothing holds no claim.
IdleHoldsNothing == \A t \in Threads : Running(t) \/ claim[t] = NoClaim

\* A thread's claim dies with the end of _run, or with its process.
THEOREM ClaimsOfRunners == Spec => []IdleHoldsNothing
<1>1. Init => IdleHoldsNothing
  BY DEF Init, IdleHoldsNothing
<1>2. Typed /\ IdleHoldsNothing /\ [Next]_vars => IdleHoldsNothing'
  <2> SUFFICES ASSUME Typed, IdleHoldsNothing, [Next]_vars PROVE IdleHoldsNothing'
    OBVIOUS
  <2>0. /\ pc \in [Threads -> {"poll", "claim", "execute", "record", "finish", "fail", "down"}]
        /\ claim \in [Threads -> Claim]
    BY DEF Typed, TypeOK
  <2>1. CASE UNCHANGED <<pc, claim>>
    BY <2>1 DEF IdleHoldsNothing, Running
  <2>2. ASSUME NEW t \in Threads, ThreadStep(t) \/ ThreadFault(t) PROVE IdleHoldsNothing'
    <3> USE DEF IdleHoldsNothing, Running
    <3>1. CASE Search(t) \/ LoseHit(t) \/ ClaimRaises(t) \/ Start(t)
      BY <2>0, <3>1 DEF Search, LoseHit, ClaimRaises, Start
    <3>2. CASE ClaimHit(t)
      BY <2>0, <3>2 DEF ClaimHit
    <3>3. CASE Execute(t) \/ ExecuteRaises(t) \/ RecordResult(t) \/ RecordRaises(t)
               \/ FinishRaises(t)
      BY <2>0, <3>3 DEF Execute, ExecuteRaises, RecordResult, RecordRaises, FinishRaises
    <3>4. CASE FinishStatus(t) \/ FailStatus(t) \/ FailRaises(t) \/ Crash(t)
      BY <2>0, <3>4 DEF FinishStatus, FailStatus, FailRaises, Crash, Forget
    <3> QED BY <2>2, <3>1, <3>2, <3>3, <3>4 DEF ThreadStep, ThreadFault
  <2>3. ASSUME ~ \E t \in Threads : ThreadStep(t) \/ ThreadFault(t) PROVE UNCHANGED <<pc, claim>>
    BY <2>3 DEF Next, ClientStep, SubmitRequest, ReadStatus, WriteQueued, RunFromCli, Tick,
                vars, thread
  <2> QED BY <2>1, <2>2, <2>3
<1> QED BY <1>1, <1>2, Typing, PTL DEF Spec

-----------------------------------------------------------------------------
(* What LeasedQueue sees of a step.                                         *)

\* A rewritten document changes the status and the lease of its job only.
LEMMA SeenOfWrite ==
    ASSUME doc \in [Jobs -> Doc], NEW j \in Jobs, NEW d, doc' = [doc EXCEPT ![j] = d]
    PROVE  /\ [k \in Jobs |-> doc'[k].status] =
                [[k \in Jobs |-> doc[k].status] EXCEPT ![j] = d.status]
           /\ [k \in Jobs |-> doc'[k].lease] =
                [[k \in Jobs |-> doc[k].lease] EXCEPT ![j] = d.lease]
  OBVIOUS

\* The mapped variables depend on these of the queue's only.
LEMMA SeenOfNothing ==
    ASSUME UNCHANGED <<clock, doc, claim, results>>
    PROVE  UNCHANGED Promised!vars
  BY DEF Promised!vars

\* A claim that is written takes a free job, for this thread or for nobody.
LEMMA SeenOfClaim ==
    ASSUME QueueAssumption, Typed, LeaseInv, NEW t \in Threads, NEW h \in hits[t],
           WriteClaim(t, h), UNCHANGED <<clock, results>>,
           \/ UNCHANGED claim
           \/ /\ claim[t] = NoClaim
              /\ \E c : c.job = h.job /\ claim' = [claim EXCEPT ![t] = c]
    PROVE  Promised!Next
  <1>1. /\ h.job \in Jobs /\ stamp[t] \in Nat /\ clock \in Nat /\ LockTTL \in Nat
        /\ doc \in [Jobs -> Doc] /\ doc[h.job].lease \in Int /\ claim \in [Threads -> Claim]
    BY DEF Typed, TypeOK, Hit, Doc, QueueAssumption
  <1>2. Claimable(h.job, stamp[t]) /\ stamp[t] <= clock
    BY DEF WriteClaim, SameVersion, LeaseInv, FreshHits, StampsPast
  <1> DEFINE d == [status |-> "running", submitted |-> doc[h.job].submitted,
                   lease |-> stamp[t] + LockTTL, attempts |-> h.attempts + 1,
                   seqNo |-> doc[h.job].seqNo + 1]
  <1>3. doc' = [doc EXCEPT ![h.job] = d] /\ d.status = "running" /\ d.lease = stamp[t] + LockTTL
    BY DEF WriteClaim
  <1> HIDE DEF d
  <1>4. Promised!Free(h.job)
    BY <1>1, <1>2 DEF Promised!Free, Claimable, Expired
  <1>5. /\ [k \in Jobs |-> doc'[k].status] =
             [[k \in Jobs |-> doc[k].status] EXCEPT ![h.job] = "running"]
        /\ [k \in Jobs |-> doc'[k].lease] =
             [[k \in Jobs |-> doc[k].lease] EXCEPT ![h.job] = stamp[t] + LockTTL]
    BY <1>1, <1>3, SeenOfWrite
  <1>6. doc'[h.job].lease = stamp[t] + LockTTL /\ stamp[t] + LockTTL <= clock + LockTTL
    BY <1>1, <1>2, <1>3
  <1>7. \/ [u \in Threads |-> claim'[u].job] = [u \in Threads |-> claim[u].job]
        \/ \E w \in Threads :
             /\ [u \in Threads |-> claim[u].job][w] = NoJob
             /\ [u \in Threads |-> claim'[u].job] =
                  [[u \in Threads |-> claim[u].job] EXCEPT ![w] = h.job]
    <2>1. CASE UNCHANGED claim
      BY <2>1
    <2>2. ASSUME claim[t] = NoClaim, NEW c, c.job = h.job, claim' = [claim EXCEPT ![t] = c]
          PROVE  /\ [u \in Threads |-> claim[u].job][t] = NoJob
                 /\ [u \in Threads |-> claim'[u].job] =
                      [[u \in Threads |-> claim[u].job] EXCEPT ![t] = h.job]
      <3>1. NoClaim.job = NoJob
        BY DEF NoClaim
      <3>2. [u \in Threads |-> claim[u].job][t] = NoJob
        BY <2>2, <3>1
      <3>3. [u \in Threads |-> claim'[u].job] =
              [[u \in Threads |-> claim[u].job] EXCEPT ![t] = h.job]
        BY <1>1, <2>2
      <3> QED BY <3>2, <3>3
    <2> QED BY <2>1, <2>2
  <1>8. Promised!Take(h.job)
    BY <1>1, <1>4, <1>5, <1>6, <1>7 DEF Promised!Take
  <1> QED BY <1>1, <1>8 DEF Promised!Next

\* A settled document settles the job of the thread that settles it.
LEMMA SeenOfSettlement ==
    ASSUME QueueAssumption, Typed, NEW t \in Threads, claim[t].job \in Jobs,
           NEW s \in {"succeeded", "failed"}, WriteStatus(claim[t].job, s),
           s = "succeeded" => results[claim[t].job] # "none",
           UNCHANGED <<clock, results>>,
           UNCHANGED claim \/ claim' = [claim EXCEPT ![t] = NoClaim]
    PROVE  Promised!Next
  <1>1. doc \in [Jobs -> Doc] /\ claim \in [Threads -> Claim] /\ claim[t].job # NoJob
    BY DEF Typed, TypeOK, QueueAssumption
  <1> DEFINE j == claim[t].job
             d == [status |-> s, submitted |-> doc[j].submitted, lease |-> NoLease,
                   attempts |-> doc[j].attempts, seqNo |-> doc[j].seqNo + 1]
  <1>2. doc' = [doc EXCEPT ![j] = d] /\ d.status = s /\ d.lease = NoLease
    BY DEF WriteStatus
  <1> HIDE DEF d
  <1>3. /\ [k \in Jobs |-> doc'[k].status] = [[k \in Jobs |-> doc[k].status] EXCEPT ![j] = s]
        /\ [k \in Jobs |-> doc'[k].lease] = [[k \in Jobs |-> doc[k].lease] EXCEPT ![j] = -1]
    BY <1>1, <1>2, SeenOfWrite DEF NoLease
  <1>4. \/ [u \in Threads |-> claim'[u].job] = [u \in Threads |-> claim[u].job]
        \/ [u \in Threads |-> claim'[u].job] =
             [[u \in Threads |-> claim[u].job] EXCEPT ![t] = NoJob]
    <2>1. CASE UNCHANGED claim
      BY <2>1
    <2>2. CASE claim' = [claim EXCEPT ![t] = NoClaim]
      <3>1. NoClaim.job = NoJob
        BY DEF NoClaim
      <3> QED BY <1>1, <2>2, <3>1
    <2> QED BY <2>1, <2>2
  <1>5. Promised!Settle(t)
    BY <1>1, <1>3, <1>4 DEF Promised!Settle, Promised!Drop, Promised!NotLeased
  <1> QED BY <1>5 DEF Promised!Next

\* A thread that loses its claim without a write abandons its job, if it had one.
LEMMA SeenOfForgetting ==
    ASSUME Typed, NEW t \in Threads, claim' = [claim EXCEPT ![t] = NoClaim],
           UNCHANGED <<clock, doc, results>>
    PROVE  Promised!Next
  <1>1. [u \in Threads |-> claim'[u].job] =
          [[u \in Threads |-> claim[u].job] EXCEPT ![t] = NoJob]
    BY DEF Typed, TypeOK, NoClaim
  <1>2. Promised!Abandon(t)
    BY <1>1 DEF Promised!Abandon, Promised!Drop
  <1> QED BY <1>2 DEF Promised!Next

\* A result is recorded for a job.
LEMMA SeenOfResult ==
    ASSUME Typed, NEW j \in Jobs, NEW r \in {"succeeded", "failed"},
           results' = [results EXCEPT ![j] = r], UNCHANGED <<clock, doc, claim>>
    PROVE  Promised!Next
  <1>1. {k \in Jobs : results'[k] # "none"} = {k \in Jobs : results[k] # "none"} \cup {j}
    BY DEF Typed, TypeOK
  <1>2. Promised!Record(j)
    BY <1>1 DEF Promised!Record
  <1> QED BY <1>2 DEF Promised!Next

-----------------------------------------------------------------------------
(* The refinement.                                                          *)

\* The queue in the two indices, with its searches, conditional updates, crashes and
\* lost replies, keeps the promise of LeasedQueue.
THEOREM QueueKeepsPromise == Spec => KeepsPromise
<1> USE QueueAssumption
<1>1. Init => Promised!Init
  <2> SUFFICES ASSUME Init PROVE Promised!Init
    OBVIOUS
  <2>1. /\ [j \in Jobs |-> doc[j].status] = [j \in Jobs |-> "absent"]
        /\ [j \in Jobs |-> doc[j].lease] = [j \in Jobs |-> -1]
        /\ [t \in Threads |-> claim[t].job] = [t \in Threads |-> NoJob]
    BY DEF Init, NoDoc, NoLease, NoClaim
  <2>2. {j \in Jobs : results[j] # "none"} = {} /\ clock = 0
    BY DEF Init
  <2> QED BY <2>1, <2>2 DEF Promised!Init, Promised!NotLeased
<1>2. Typed /\ LeaseInv /\ ResultInv /\ IdleHoldsNothing /\ [Next]_vars
        => [Promised!Next]_(Promised!vars)
  <2> SUFFICES ASSUME Typed, LeaseInv, ResultInv, IdleHoldsNothing, [Next]_vars
               PROVE  Promised!Next \/ UNCHANGED Promised!vars
    OBVIOUS
  <2> USE DEF store, thread, ghosts
  <2>1. ASSUME NEW c \in Clients, ClientStep(c)
        PROVE  Promised!Next \/ UNCHANGED Promised!vars
    <3>1. CASE UNCHANGED doc
      <4>1. UNCHANGED <<clock, doc, claim, results>>
        BY <2>1, <3>1 DEF ClientStep, SubmitRequest, ReadStatus, WriteQueued
      <4> QED BY <4>1, SeenOfNothing
    <3>2. CASE doc' # doc
      <4>1. WriteQueued(c)
        BY <2>1, <3>2 DEF ClientStep, SubmitRequest, ReadStatus
      <4> PICK j \in Jobs : j = client[c].job
        BY <4>1 DEF WriteQueued, Typed, HasRequest
      <4> DEFINE d == [status |-> "queued", submitted |-> client[c].submitted,
                       lease |-> NoLease, attempts |-> 0, seqNo |-> doc[j].seqNo + 1]
      <4>2. /\ doc \in [Jobs -> Doc]
            /\ doc' = [doc EXCEPT ![j] = d] /\ d.status = "queued" /\ d.lease = NoLease
            /\ UNCHANGED <<clock, claim, results>>
        BY <3>2, <4>1 DEF WriteQueued, Typed, TypeOK
      <4> HIDE DEF d
      <4>3. /\ [k \in Jobs |-> doc'[k].status] =
                 [[k \in Jobs |-> doc[k].status] EXCEPT ![j] = "queued"]
            /\ [k \in Jobs |-> doc'[k].lease] =
                 [[k \in Jobs |-> doc[k].lease] EXCEPT ![j] = -1]
        BY <4>2, SeenOfWrite DEF NoLease
      <4>4. Promised!Enqueue(j)
        BY <4>2, <4>3 DEF Promised!Enqueue, Promised!NotLeased
      <4> QED BY <4>4 DEF Promised!Next
    <3> QED BY <3>1, <3>2
  <2>2. ASSUME NEW j \in Jobs, RunFromCli(j) PROVE Promised!Next
    BY <2>2, SeenOfResult DEF RunFromCli
  <2>3. ASSUME NEW t \in Threads, ThreadStep(t) \/ ThreadFault(t)
        PROVE  Promised!Next \/ UNCHANGED Promised!vars
    <3> USE DEF Running
    <3>0. /\ Running(t) => claim[t].job \in Jobs
          /\ pc[t] \in {"record", "finish"} => outcome[t] \in {"succeeded", "failed"}
          /\ pc[t] = "finish" => results[claim[t].job] # "none"
          /\ pc[t] = "claim" => claim[t] = NoClaim
      BY DEF Typed, TypeOK, HasJob, HasOutcome, ResultInv, IdleHoldsNothing
    <3>1. CASE Search(t) \/ LoseHit(t) \/ Execute(t) \/ ExecuteRaises(t) \/ Start(t)
      <4>1. UNCHANGED <<clock, doc, claim, results>>
        BY <3>1 DEF Search, LoseHit, Execute, ExecuteRaises, Start
      <4> QED BY <4>1, SeenOfNothing
    <3>2. CASE ClaimHit(t)
      <4>1. PICK h \in hits[t] :
              /\ WriteClaim(t, h)
              /\ claim' = [claim EXCEPT ![t] = [job |-> h.job, lease |-> stamp[t] + LockTTL,
                                                epoch |-> epoch[h.job]]]
        BY <3>2 DEF ClaimHit
      <4>2. claim[t] = NoClaim /\ UNCHANGED <<clock, results>>
        BY <3>0, <3>2 DEF ClaimHit
      <4> QED BY <4>1, <4>2, SeenOfClaim
    <3>3. CASE ClaimRaises(t)
      <4>1. UNCHANGED <<clock, claim, results>>
        BY <3>3 DEF ClaimRaises
      <4>2. CASE \E h \in hits[t] : WriteClaim(t, h)
        BY <4>1, <4>2, SeenOfClaim
      <4>3. CASE UNCHANGED doc
        BY <4>1, <4>3, SeenOfNothing
      <4> QED BY <3>3, <4>2, <4>3 DEF ClaimRaises
    <3>4. CASE RecordResult(t) \/ RecordRaises(t)
      <4>1. UNCHANGED <<clock, doc, claim>> /\ (WriteResult(t) \/ UNCHANGED results)
        BY <3>4 DEF RecordResult, RecordRaises
      <4>2. claim[t].job \in Jobs /\ outcome[t] \in {"succeeded", "failed"}
        BY <3>0, <3>4 DEF RecordResult, RecordRaises
      <4>3. CASE WriteResult(t)
        BY <4>1, <4>2, <4>3, SeenOfResult DEF WriteResult
      <4>4. CASE UNCHANGED results
        BY <4>1, <4>4, SeenOfNothing
      <4> QED BY <4>1, <4>3, <4>4
    <3>5. CASE FinishStatus(t)
      <4>1. /\ WriteStatus(claim[t].job, outcome[t]) /\ UNCHANGED <<clock, results>>
            /\ claim' = [claim EXCEPT ![t] = NoClaim]
            /\ claim[t].job \in Jobs /\ outcome[t] \in {"succeeded", "failed"}
            /\ results[claim[t].job] # "none"
        BY <3>0, <3>5 DEF FinishStatus, Forget
      <4> QED BY <4>1, SeenOfSettlement
    <3>6. CASE FinishRaises(t)
      <4>1. /\ WriteStatus(claim[t].job, outcome[t]) \/ UNCHANGED doc
            /\ UNCHANGED <<clock, results, claim>>
            /\ claim[t].job \in Jobs /\ outcome[t] \in {"succeeded", "failed"}
            /\ results[claim[t].job] # "none"
        BY <3>0, <3>6 DEF FinishRaises
      <4>2. CASE WriteStatus(claim[t].job, outcome[t])
        BY <4>1, <4>2, SeenOfSettlement
      <4>3. CASE UNCHANGED doc
        BY <4>1, <4>3, SeenOfNothing
      <4> QED BY <4>1, <4>2, <4>3
    <3>7. CASE FailStatus(t)
      <4>1. /\ WriteStatus(claim[t].job, "failed") /\ UNCHANGED <<clock, results>>
            /\ claim' = [claim EXCEPT ![t] = NoClaim] /\ claim[t].job \in Jobs
        BY <3>0, <3>7 DEF FailStatus, Forget
      <4> QED BY <4>1, SeenOfSettlement
    <3>8. CASE FailRaises(t) \/ Crash(t)
      <4>1. claim' = [claim EXCEPT ![t] = NoClaim] /\ UNCHANGED <<clock, doc, results>>
        BY <3>8 DEF FailRaises, Crash, Forget
      <4> QED BY <4>1, SeenOfForgetting
    <3> QED BY <2>3, <3>1, <3>2, <3>3, <3>4, <3>5, <3>6, <3>7, <3>8 DEF ThreadStep, ThreadFault
  <2>4. CASE Tick
    <3>1. clock' = clock + 1 /\ UNCHANGED <<doc, claim, results>>
      BY <2>4 DEF Tick
    <3>2. Promised!Advance
      BY <3>1 DEF Promised!Advance
    <3> QED BY <3>2 DEF Promised!Next
  <2>5. CASE UNCHANGED vars
    <3>1. UNCHANGED <<clock, doc, claim, results>>
      BY <2>5 DEF vars
    <3> QED BY <3>1, SeenOfNothing
  <2> QED BY <2>1, <2>2, <2>3, <2>4, <2>5 DEF Next
<1> QED
  BY <1>1, <1>2, Typing, LeaseInvariance, ResultInvariance, ClaimsOfRunners, PTL
     DEF Spec, KeepsPromise, Promised!Spec
=============================================================================
