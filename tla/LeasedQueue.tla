----------------------------- MODULE LeasedQueue -----------------------------
(***************************************************************************)
(* What the index-job queue promises, without documents, searches and      *)
(* versions: jobs are handed out under leases, a job is taken only while   *)
(* it waits or once its lease has run out, it is settled only by a worker  *)
(* that took it, and it succeeds only with a recorded result.              *)
(***************************************************************************)
EXTENDS Integers

CONSTANTS Jobs, Workers, NoJob, Lease

VARIABLES
    now,
    status,     \* what a reader of the queue sees of each job
    until,      \* when its lease runs out
    work,       \* the job each worker has taken, or NoJob
    recorded    \* the jobs with a recorded result

vars == <<now, status, until, work, recorded>>

NotLeased == -1

Init ==
    /\ now = 0
    /\ status = [j \in Jobs |-> "absent"]
    /\ until = [j \in Jobs |-> NotLeased]
    /\ work = [w \in Workers |-> NoJob]
    /\ recorded = {}

\* A request puts a job into the queue, or back into it.
Enqueue(j) ==
    /\ status' = [status EXCEPT ![j] = "queued"]
    /\ until' = [until EXCEPT ![j] = NotLeased]
    /\ UNCHANGED <<now, work, recorded>>

Free(j) == status[j] = "queued" \/ (status[j] = "running" /\ until[j] < now)

\* A free job is taken under a lease that is no longer than promised, by a worker or by
\* one that never learns of it.
Take(j) ==
    /\ Free(j)
    /\ status' = [status EXCEPT ![j] = "running"]
    /\ until'[j] <= now + Lease
    /\ until' = [until EXCEPT ![j] = until'[j]]
    /\ \/ UNCHANGED work
       \/ \E w \in Workers : work[w] = NoJob /\ work' = [work EXCEPT ![w] = j]
    /\ UNCHANGED <<now, recorded>>

Drop(w) == work' = [work EXCEPT ![w] = NoJob]

\* A worker settles the job it took, and is rid of it or does not learn that it is.
Settle(w) ==
    /\ work[w] # NoJob
    /\ \E s \in {"succeeded", "failed"} :
         /\ s = "succeeded" => work[w] \in recorded
         /\ status' = [status EXCEPT ![work[w]] = s]
    /\ until' = [until EXCEPT ![work[w]] = NotLeased]
    /\ Drop(w) \/ UNCHANGED work
    /\ UNCHANGED <<now, recorded>>

\* A worker dies or fails to settle its job, which keeps its lease.
Abandon(w) == Drop(w) /\ UNCHANGED <<now, status, until, recorded>>

Record(j) ==
    /\ recorded' = recorded \cup {j}
    /\ UNCHANGED <<now, status, until, work>>

Advance == now' = now + 1 /\ UNCHANGED <<status, until, work, recorded>>

Next ==
    \/ \E j \in Jobs : Enqueue(j) \/ Take(j) \/ Record(j)
    \/ \E w \in Workers : Settle(w) \/ Abandon(w)
    \/ Advance

Spec == Init /\ [][Next]_vars
=============================================================================
