--------------------------- MODULE GitCacheProofs ---------------------------
(* Proofs about GitCache, for every number of threads, processes, commits,  *)
(* requests and faults. The fairness of Spec is not used.                   *)
EXTENDS GitCache, TLAPS

-----------------------------------------------------------------------------
(* Type correctness.                                                        *)

\* A thread goes on within its job, or begins one.
LEMMA JobTyped ==
    ASSUME TypeOK, NEW t \in Threads, NEW step \in Waiting \cup {"use"},
           NEW c \in Commits
    PROVE  /\ [job EXCEPT ![t].pc = step] \in [Threads -> Job]
           /\ [job EXCEPT ![t].pc = step, ![t].content = c] \in [Threads -> Job]
           /\ [job EXCEPT ![t] = NoJob] \in [Threads -> Job]
  <1>1. job \in [Threads -> Job] /\ job[t] \in Job
    BY DEF TypeOK
  <1>2. /\ [job[t] EXCEPT !.pc = step] \in Job
        /\ [[job[t] EXCEPT !.pc = step] EXCEPT !.content = c] \in Job
    BY <1>1 DEF Job
  <1>3. NoJob \in Job
    BY GitCacheAssumption DEF NoJob, Job, Commits
  <1> QED BY <1>1, <1>2, <1>3

\* Whoever is not idle has made a worktree directory.
HasWorktree == \A t \in Threads : job[t].pc # "idle" => job[t].worktree \in 1..MaxRequests

Typed == TypeOK /\ HasWorktree

\* An exception that leaves the checkout.
LEMMA RaiseTyped ==
    ASSUME Typed, NEW t \in Threads, job[t].pc # "idle", Raise(t),
           mirror' \in {"absent", "partial", "complete"}, fetched' \in Commits,
           kept' \subseteq Commits, atHead' \in BOOLEAN, faults' \in 0..MaxFaults
    PROVE  Typed'
  <1> USE DEF fixed, server, repo, shared
  <1>1. /\ processOf[t] \in Processes /\ job \in [Threads -> Job]
        /\ job[t].worktree \in 1..MaxRequests /\ job[t].wanted \in Commits \cup {Head}
    BY GitCacheAssumption DEF Typed, TypeOK, HasWorktree, Job
  <1>2. job' = [job EXCEPT ![t] = NoJob] /\ job' \in [Threads -> Job]
    BY JobTyped DEF Raise, Waiting, Typed, TypeOK, Job
  <1>3. lock' \in [Processes -> Threads \cup {Nobody}] /\ left' \subseteq Checkouts
    <2>1. Over(t) \in Checkouts
      BY <1>1 DEF Over, Checkouts
    <2> QED BY <1>1, <2>1 DEF Raise, Released, Typed, TypeOK
  <1>4. HasWorktree'
    BY <1>1, <1>2 DEF Typed, HasWorktree, NoJob
  <1> QED BY <1>2, <1>3, <1>4 DEF Raise, Typed, TypeOK

\* Every step of a checkout, of the caller and of the environment keeps each variable in
\* its type: no fetch brings a commit the server does not have, and worktrees are numbered
\* by the requests.
THEOREM GitTyping == Spec => []Typed
<1> USE GitCacheAssumption
<1>1. Init => Typed
  <2> SUFFICES ASSUME Init PROVE Typed
    OBVIOUS
  <2>1. 0 \in Commits /\ Commits \subseteq Nat
    BY DEF Commits
  <2>2. history \in [Commits -> SUBSET Commits]
    <3>1. history = [c \in Commits |-> IF c = 0 THEN {0} ELSE {}]
      BY DEF Init
    <3>2. \A c \in Commits : (IF c = 0 THEN {0} ELSE {}) \in SUBSET Commits
      BY <2>1
    <3> QED BY <3>1, <3>2
  <2>3. job \in [Threads -> Job] /\ HasWorktree
    <3>1. NoJob \in Job /\ NoJob.pc = "idle"
      BY <2>1 DEF NoJob, Job
    <3> QED BY <3>1 DEF Init, HasWorktree
  <2>4. default \in BOOLEAN /\ atHead \in BOOLEAN
    BY DEF Init
  <2>5. lock \in [Processes -> Threads \cup {Nobody}]
    BY DEF Init
  <2> QED BY <2>1, <2>2, <2>3, <2>4, <2>5 DEF Init, Typed, TypeOK
<1>2. Typed /\ [Next]_vars => Typed'
  <2> SUFFICES ASSUME Typed, [Next]_vars PROVE Typed'
    OBVIOUS
  <2> USE DEF fixed, server, repo, shared
  <2>0. /\ remote \in Nat /\ fetched \in Nat /\ requests \in Nat /\ faults \in Nat
        /\ remote \in Commits /\ fetched \in Commits /\ 0 \in Commits
        /\ history \in [Commits -> SUBSET Commits] /\ kept \subseteq Commits
        /\ default \in BOOLEAN /\ atHead \in BOOLEAN
        /\ job \in [Threads -> Job] /\ \A t \in Threads : processOf[t] \in Processes
        /\ \A t \in Threads : job[t].content \in Commits /\ job[t].wanted \in Commits \cup {Head}
    BY DEF Typed, TypeOK, Commits, Job
  <2>1. ASSUME NEW t \in Threads, Begin(t) PROVE Typed'
    <3>1. PICK r \in {Head} \cup 0..remote :
            job' = [job EXCEPT ![t] = [pc |-> "lock", worktree |-> requests', wanted |-> r,
                                       content |-> 0, since |-> remote]]
      BY <2>1 DEF Begin
    <3>2. requests' \in 1..MaxRequests /\ r \in Commits \cup {Head}
      BY <2>0, <2>1 DEF Begin, Typed, TypeOK, Commits
    <3>3. [pc |-> "lock", worktree |-> requests', wanted |-> r, content |-> 0,
           since |-> remote] \in Job
      BY <2>0, <3>2 DEF Job, Waiting
    <3>4. job' \in [Threads -> Job] /\ HasWorktree'
      BY <2>0, <3>1, <3>2, <3>3 DEF Typed, HasWorktree
    <3>5. disk' \subseteq 1..MaxRequests /\ requests' \in 0..MaxRequests
      BY <2>1, <3>2 DEF Begin, Typed, TypeOK
    <3>6. UNCHANGED <<processOf, default, remote, history, mirror, fetched, kept, atHead,
                      lock, faults, left, stuck>>
      BY <2>1 DEF Begin
    <3> QED BY <3>4, <3>5, <3>6 DEF Typed, TypeOK
  <2>2. ASSUME NEW t \in Threads, Proceed(t) PROVE Typed'
    \* A step within the checkout.
    <3>1. ASSUME NEW step \in Waiting \cup {"use"}, NEW c \in Commits, job[t].pc # "idle",
                 \/ job' = [job EXCEPT ![t].pc = step]
                 \/ job' = [job EXCEPT ![t].pc = step, ![t].content = c]
          PROVE  job' \in [Threads -> Job] /\ HasWorktree'
      <4>1. job' \in [Threads -> Job]
        <5>1. CASE job' = [job EXCEPT ![t].pc = step]
          BY <5>1, JobTyped DEF Typed
        <5>2. CASE job' = [job EXCEPT ![t].pc = step, ![t].content = c]
          BY <5>2, JobTyped DEF Typed
        <5> QED BY <3>1, <5>1, <5>2
      <4>2. /\ \A u \in Threads \ {t} : job'[u] = job[u]
            /\ job'[t].worktree = job[t].worktree
        BY <2>0, <3>1 DEF Job
      <4> QED BY <3>1, <4>1, <4>2 DEF Typed, HasWorktree
    <3>2. CASE Lock(t)
      <4>1. job' \in [Threads -> Job] /\ HasWorktree'
        BY <2>0, <3>1, <3>2 DEF Lock, Goto, Waiting
      <4> QED BY <2>0, <3>2, <4>1 DEF Lock, Typed, TypeOK
    <3>3. CASE Clone(t)
      <4>1. CASE mirror # "absent"
        BY <2>0, <3>3, <4>1, RaiseTyped DEF Clone, Typed, TypeOK
      <4>2. CASE mirror = "absent"
        <5>1. job' \in [Threads -> Job] /\ HasWorktree'
          BY <2>0, <3>1, <3>3, <4>2 DEF Clone, Connect, Waiting
        <5> QED BY <2>0, <3>3, <4>2, <5>1 DEF Clone, Typed, TypeOK
      <4> QED BY <3>3, <4>1, <4>2 DEF Clone
    <3>4. CASE Fetch(t)
      <4>1. job' \in [Threads -> Job] /\ HasWorktree'
        BY <2>0, <3>1, <3>4 DEF Fetch, Connect, Waiting
      <4> QED BY <2>0, <3>4, <4>1 DEF Fetch, Typed, TypeOK
    <3>5. CASE CloneFails(t) \/ FetchFails(t)
      <4>1. /\ Raise(t) /\ job[t].pc # "idle" /\ fetched' = fetched
            /\ mirror' = mirror \/ mirror' = "absent"
            /\ kept' = kept \/ kept' = {}
            /\ atHead' = atHead \/ atHead' = FALSE
            /\ faults' = faults \/ (faults < MaxFaults /\ faults' = faults + 1)
        BY <3>5 DEF CloneFails, FetchFails, Fault
      <4>2. /\ faults' \in 0..MaxFaults /\ mirror' \in {"absent", "partial", "complete"}
            /\ kept' \subseteq Commits
        BY <2>0, <4>1 DEF Typed, TypeOK
      <4>3. atHead' \in BOOLEAN
        BY <2>0, <4>1
      <4> QED BY <2>0, <4>1, <4>2, <4>3, RaiseTyped
    <3>6. CASE GitReturns(t)
      <4>1. job' \in [Threads -> Job] /\ HasWorktree'
        BY <2>0, <3>1, <3>6 DEF GitReturns, Goto, Waiting
      <4>2. fetched' \in Commits
        BY <2>0, <3>6 DEF GitReturns, SinceConnected, Commits
      <4>3. kept' \subseteq Commits
        BY <2>0, <3>6, <4>2 DEF GitReturns
      <4>4. atHead' \in BOOLEAN
        BY <2>0, <3>6 DEF GitReturns
      <4> QED BY <2>0, <3>6, <4>1, <4>2, <4>3, <4>4 DEF GitReturns, Typed, TypeOK
    <3>7. CASE Checkout(t)
      <4>1. CASE Raise(t)
        BY <2>0, <3>7, <4>1, RaiseTyped DEF Checkout, Typed, TypeOK
      <4>2. CASE MayFind(job[t].wanted) /\ ~Raise(t)
        <5> DEFINE c == IF job[t].wanted = Head THEN fetched ELSE job[t].wanted
        <5>1. /\ job' = [job EXCEPT ![t].pc = "use", ![t].content = c]
              /\ job[t].pc = "checkout"
              /\ lock' = [lock EXCEPT ![processOf[t]] = Nobody]
          BY <3>7, <4>2 DEF Checkout
        <5>2. c \in Commits
          BY <2>0
        <5> HIDE DEF c
        <5>3. job' \in [Threads -> Job] /\ HasWorktree'
          BY <3>1, <5>1, <5>2
        <5>4. lock' \in [Processes -> Threads \cup {Nobody}]
          BY <2>0, <5>1 DEF Typed, TypeOK
        <5> QED BY <3>7, <4>2, <5>3, <5>4 DEF Checkout, Typed, TypeOK
      <4> QED BY <3>7, <4>1, <4>2 DEF Checkout
    <3>8. CASE Use(t)
      <4>1. job' = [job EXCEPT ![t] = NoJob] /\ job' \in [Threads -> Job]
        BY <2>0, <3>8, JobTyped DEF Use, Waiting, Typed
      <4>2. HasWorktree'
        BY <2>0, <4>1 DEF Typed, HasWorktree, NoJob
      <4>3. disk' \subseteq disk /\ stuck' \subseteq stuck \cup {job[t].worktree}
        BY <3>8 DEF Use, Cleaned
      <4>4. job[t].worktree \in 1..MaxRequests
        BY <3>8 DEF Use, Typed, HasWorktree
      <4> QED BY <3>8, <4>1, <4>2, <4>3, <4>4 DEF Use, Typed, TypeOK
    <3> QED BY <2>2, <3>2, <3>3, <3>4, <3>5, <3>6, <3>7, <3>8 DEF Proceed
  <2>3. ASSUME NEW p \in Processes, Die(p) PROVE Typed'
    <3>1. NoJob \in Job
      BY DEF NoJob, Job, Commits
    <3>2. job' \in [Threads -> Job] /\ HasWorktree'
      BY <2>0, <2>3, <3>1 DEF Die, Typed, TypeOK, HasWorktree, NoJob
    <3>3. left' \subseteq Checkouts
      <4>1. \A t \in Threads : Over(t) \in Checkouts
        BY <2>0 DEF Over, Checkouts, Job
      <4> QED BY <2>3, <4>1 DEF Die, Typed, TypeOK
    <3>4. lock' \in [Processes -> Threads \cup {Nobody}] /\ faults' \in 0..MaxFaults
      BY <2>0, <2>3 DEF Die, Fault, Typed, TypeOK
    <3>5. /\ mirror' \in {"absent", "partial", "complete"} /\ fetched' \in Commits
          /\ kept' \subseteq Commits /\ atHead' \in BOOLEAN
      <4>1. CASE UNCHANGED repo
        BY <2>0, <4>1 DEF Typed, TypeOK
      <4>2. CASE /\ mirror' = "complete" /\ fetched' = remote
                 /\ kept' = kept \cup history[remote] /\ atHead' = default
        BY <2>0, <4>2
      <4> QED BY <2>3, <4>1, <4>2 DEF Die
    <3>6. UNCHANGED <<processOf, default, remote, history, disk, requests, stuck>>
      BY <2>3 DEF Die
    <3> QED BY <3>2, <3>3, <3>4, <3>5, <3>6 DEF Typed, TypeOK
  <2>4. CASE Push
    <3>1. remote' \in Commits
      BY <2>0, <2>4 DEF Push, Commits
    <3>2. history' \in [Commits -> SUBSET Commits]
      BY <2>0, <2>4, <3>1 DEF Push
    <3> QED BY <2>4, <3>1, <3>2 DEF Push, Typed, TypeOK, HasWorktree
  <2>5. CASE UNCHANGED vars
    BY <2>5 DEF vars, Typed, TypeOK, HasWorktree
  <2> QED BY <2>1, <2>2, <2>3, <2>4, <2>5 DEF Next
<1> QED BY <1>1, <1>2, PTL DEF Spec

-----------------------------------------------------------------------------
(* The lock, and what the threads of one process find under it.             *)

\* A step of one thread leaves the jobs of the others alone.
LEMMA OthersKeepJobs ==
    ASSUME Typed, NEW t \in Threads, Begin(t) \/ Proceed(t)
    PROVE  /\ \A u \in Threads \ {t} : job'[u] = job[u]
           /\ UNCHANGED <<processOf, default, remote, history>>
  BY DEF Typed, TypeOK, Begin, Proceed, Lock, Clone, CloneFails, Fetch, GitReturns, FetchFails,
         Checkout, Use, Raise, Connect, Goto, fixed, server, repo, shared

\* What a step within the checkout leaves of a job.
LEMMA GotoJob ==
    ASSUME Typed, NEW t \in Threads, NEW step, Goto(t, step)
    PROVE  /\ job'[t].pc = step /\ job'[t].content = job[t].content
           /\ job'[t].since = job[t].since /\ job'[t].wanted = job[t].wanted
  BY DEF Goto, Typed, TypeOK, Job

\* What a connected thread works with.
LEMMA ConnectJob ==
    ASSUME Typed, NEW t \in Threads, NEW step, Connect(t, step)
    PROVE  /\ job'[t].pc = step /\ job'[t].content = remote
           /\ job'[t].since = job[t].since /\ job'[t].wanted = job[t].wanted
  BY DEF Connect, Typed, TypeOK, Job

\* A thread that raised has no job.
LEMMA RaiseJob ==
    ASSUME Typed, NEW t \in Threads, Raise(t)
    PROVE  job'[t] = NoJob /\ job'[t].pc = "idle"
  BY DEF Raise, Typed, TypeOK, NoJob

\* The threads of a process that died are idle, and the others go on.
LEMMA DieJob ==
    ASSUME Typed, NEW p \in Processes, Die(p)
    PROVE  /\ \A t \in Threads : IF processOf[t] = p THEN job'[t].pc = "idle"
                                                    ELSE job'[t] = job[t]
           /\ lock' = [lock EXCEPT ![p] = Nobody] /\ UNCHANGED <<fixed, server>>
  <1> DEFINE mine == {t \in Threads : processOf[t] = p /\ job[t].pc # "idle"}
  <1>1. job' = [t \in Threads |-> IF t \in mine THEN NoJob ELSE job[t]]
    BY DEF Die
  <1>2. NoJob.pc = "idle"
    BY DEF NoJob
  <1> QED BY <1>1, <1>2 DEF Die

\* The checkout of a job finds its revision.
Took(t) ==
    /\ job'[t].pc = "use" /\ job'[t].worktree = job[t].worktree
    /\ job'[t].since = job[t].since /\ job'[t].wanted = job[t].wanted
    /\ job'[t].content = IF job[t].wanted = Head THEN fetched ELSE job[t].wanted
    /\ UNCHANGED <<disk, left, stuck>>

\* A checkout frees the lock, and takes what it finds or raises.
LEMMA CheckoutJob ==
    ASSUME Typed, NEW t \in Threads, Checkout(t)
    PROVE  /\ lock' = [lock EXCEPT ![processOf[t]] = Nobody]
           /\ UNCHANGED <<repo, faults>>
           /\ Took(t) \/ (Raise(t) /\ ~Found(job[t].wanted))
  <1>1. job \in [Threads -> Job]
    BY DEF Typed, TypeOK
  <1>2. CASE Raise(t) /\ ~Found(job[t].wanted)
    BY <1>2 DEF Checkout, Raise, Released
  <1>3. CASE ~(Raise(t) /\ ~Found(job[t].wanted))
    <2>1. /\ job' = [job EXCEPT ![t].pc = "use",
                                ![t].content = IF job[t].wanted = Head THEN fetched
                                               ELSE job[t].wanted]
          /\ lock' = [lock EXCEPT ![processOf[t]] = Nobody]
          /\ UNCHANGED <<repo, faults, disk, left, stuck>>
      BY <1>3 DEF Checkout
    <2>2. Took(t)
      BY <1>1, <2>1 DEF Job, Took
    <2> QED BY <2>1, <2>2
  <1> QED BY <1>2, <1>3

Locked == {"clone", "cloning", "fetch", "fetching", "checkout"}

\* A thread within the with block holds the lock of its process.
HoldsLock == \A t \in Threads : job[t].pc \in Locked => lock[processOf[t]] = t

\* Git commands on the mirror run one at a time in each process.
THEOREM LockHeld == Spec => []HoldsLock
<1>1. Init => HoldsLock
  BY DEF Init, HoldsLock, NoJob, Locked
<1>2. Typed /\ HoldsLock /\ [Next]_vars => HoldsLock'
  <2> SUFFICES ASSUME Typed, HoldsLock, [Next]_vars PROVE HoldsLock'
    OBVIOUS
  <2> USE DEF HoldsLock, Locked, shared
  <2>0. /\ job \in [Threads -> Job] /\ lock \in [Processes -> Threads \cup {Nobody}]
        /\ Nobody \notin Threads /\ \A t \in Threads : processOf[t] \in Processes
    BY GitCacheAssumption DEF Typed, TypeOK
  <2>1. ASSUME NEW t \in Threads, Begin(t) \/ Proceed(t) PROVE HoldsLock'
    <3>0. (\A u \in Threads \ {t} : job'[u] = job[u]) /\ processOf' = processOf
      BY <2>1, OthersKeepJobs
    <3>1. CASE Lock(t)
      BY <2>0, <3>0, <3>1 DEF Lock, MayLock
    \* The lock is kept within the with block.
    <3>2. CASE lock' = lock /\ (job'[t].pc \in Locked => job[t].pc \in Locked)
      BY <2>0, <3>0, <3>2
    \* It is released with the end of the block, by the one who held it.
    <3>3. CASE /\ lock' = [lock EXCEPT ![processOf[t]] = Nobody] /\ job[t].pc \in Locked
               /\ job'[t].pc \notin Locked
      BY <2>0, <3>0, <3>3
    <3>4. CASE Begin(t) \/ Fetch(t) \/ GitReturns(t) \/ Use(t)
      BY <2>0, <3>2, <3>4 DEF Begin, Fetch, GitReturns, Use, Connect, Goto, NoJob
    <3>5. CASE (Clone(t) /\ mirror # "absent") \/ CloneFails(t) \/ FetchFails(t)
      BY <2>0, <3>3, <3>5 DEF Raise, Released, NoJob, Clone, CloneFails, FetchFails
    <3>6. CASE Clone(t) /\ mirror = "absent"
      BY <2>0, <3>2, <3>6 DEF Clone, Connect
    <3>7. CASE Checkout(t)
      <4>1. job'[t].pc \notin Locked /\ lock' = [lock EXCEPT ![processOf[t]] = Nobody]
        BY <3>7, CheckoutJob, RaiseJob DEF Took
      <4> QED BY <3>3, <3>7, <4>1 DEF Checkout
    <3> QED BY <2>1, <3>1, <3>4, <3>5, <3>6, <3>7 DEF Proceed
  <2>2. ASSUME NEW p \in Processes, Die(p) PROVE HoldsLock'
    <3>1. processOf' = processOf
      BY <2>2, DieJob DEF fixed
    <3> QED BY <2>0, <2>2, <3>1, DieJob
  <2>3. CASE Push \/ UNCHANGED vars
    <3>1. UNCHANGED <<processOf, lock, job>>
      BY <2>3 DEF Push, vars, fixed
    <3> QED BY <3>1
  <2> QED BY <2>1, <2>2, <2>3 DEF Next
<1> QED BY <1>1, <1>2, GitTyping, PTL DEF Spec

\* What a job asks for the server had when it began.
Asked(t) ==
    job[t].pc # "idle" =>
        job[t].since <= remote /\ (job[t].wanted = Head \/ job[t].wanted <= job[t].since)

\* A git command sees the branch as it was when the job began, or later.
Saw(t) == job[t].pc \in {"cloning", "fetching"} => job[t].since <= job[t].content

\* Where all threads are of one process, nobody sets the mirror back between the fetch
\* and the checkout of a job.
Brought(t) == OneProcess /\ job[t].pc = "checkout" => job[t].since <= fetched

Fresh(t) ==
    job[t].pc = "use" =>
        IF job[t].wanted = Head THEN OneProcess => job[t].content >= job[t].since
        ELSE job[t].content = job[t].wanted

CheckoutInv == \A t \in Threads : Asked(t) /\ Saw(t) /\ Brought(t) /\ Fresh(t)

\* The lock keeps the mirror as a fetch left it until the worktree has its files.
THEOREM CheckoutInvariance == Spec => []CheckoutInv
<1> USE GitCacheAssumption
<1>1. Init => CheckoutInv
  <2> SUFFICES ASSUME Init PROVE CheckoutInv
    OBVIOUS
  <2>1. \A t \in Threads : job[t].pc = "idle"
    BY DEF Init, NoJob
  <2> QED BY <2>1 DEF CheckoutInv, Asked, Saw, Brought, Fresh
<1>2. Typed /\ HoldsLock /\ CheckoutInv /\ [Next]_vars => CheckoutInv'
  <2> SUFFICES ASSUME Typed, HoldsLock, CheckoutInv, [Next]_vars PROVE CheckoutInv'
    OBVIOUS
  <2> USE DEF fixed, server, repo, shared
  <2>0. /\ job \in [Threads -> Job] /\ remote \in Nat /\ fetched \in Nat
        /\ \A t \in Threads : job[t].since \in Nat /\ job[t].content \in Nat
    BY DEF Typed, TypeOK, Job, Commits
  <2>1. ASSUME NEW t \in Threads, Begin(t) \/ Proceed(t) PROVE CheckoutInv'
    <3>0. /\ \A u \in Threads \ {t} : job'[u] = job[u]
          /\ UNCHANGED <<processOf, remote>> /\ (OneProcess' <=> OneProcess)
      BY <2>1, OthersKeepJobs DEF OneProcess
    <3>a. Asked(t) /\ Saw(t) /\ Brought(t) /\ Fresh(t)
      BY DEF CheckoutInv
    \* When the mirror changes, no other thread of the process is at its checkout.
    <3>1. ASSUME Asked(t)', Saw(t)', Brought(t)', Fresh(t)',
                 fetched' = fetched \/ job[t].pc \in Locked
          PROVE  CheckoutInv'
      <4>1. ASSUME NEW u \in Threads \ {t}
            PROVE  Asked(u)' /\ Saw(u)' /\ Brought(u)' /\ Fresh(u)'
        <5>1. Asked(u) /\ Saw(u) /\ Brought(u) /\ Fresh(u)
          BY DEF CheckoutInv
        <5>2. job'[u] = job[u]
          BY <3>0
        <5>3. OneProcess /\ job[u].pc = "checkout" => fetched' = fetched
          BY <3>1 DEF HoldsLock, Locked, OneProcess
        <5>4. Asked(u)' /\ Saw(u)' /\ Fresh(u)'
          BY <3>0, <5>1, <5>2 DEF Asked, Saw, Fresh
        <5>5. Brought(u)'
          BY <3>0, <5>1, <5>2, <5>3 DEF Brought
        <5> QED BY <5>4, <5>5
      <4> QED BY <3>1, <4>1 DEF CheckoutInv
    <3>2. ASSUME job'[t].pc = "idle", fetched' = fetched PROVE CheckoutInv'
      BY <3>1, <3>2 DEF Asked, Saw, Brought, Fresh
    \* A step that keeps what the job asked for.
    <3>3. ASSUME job[t].pc # "idle", job'[t].since = job[t].since,
                 job'[t].wanted = job[t].wanted
          PROVE  Asked(t)'
      BY <3>0, <3>a, <3>3 DEF Asked
    <3>4. CASE Begin(t)
      <4>1. /\ fetched' = fetched
            /\ job'[t].pc = "lock" /\ job'[t].since = remote
            /\ job'[t].wanted = Head \/ job'[t].wanted <= remote
        BY <2>0, <3>4 DEF Begin
      <4>2. Asked(t)'
        BY <2>0, <3>0, <4>1 DEF Asked
      <4> QED BY <3>1, <4>1, <4>2 DEF Saw, Brought, Fresh
    <3>5. CASE Lock(t)
      <4>1. /\ job[t].pc = "lock" /\ fetched' = fetched
            /\ Goto(t, IF mirror = "absent" THEN "clone" ELSE "fetch")
        BY <3>5 DEF Lock
      <4>2. /\ job'[t].pc \in {"clone", "fetch"} /\ job'[t].since = job[t].since
            /\ job'[t].wanted = job[t].wanted
        BY <4>1, GotoJob
      <4> QED BY <3>1, <3>3, <4>1, <4>2 DEF Saw, Brought, Fresh
    <3>6. CASE Fetch(t) \/ (Clone(t) /\ mirror = "absent")
      <4>1. /\ job[t].pc \in {"clone", "fetch"} /\ fetched' = fetched
            /\ Connect(t, "cloning") \/ Connect(t, "fetching")
        BY <3>6 DEF Fetch, Clone
      <4>2. /\ job'[t].pc \in {"cloning", "fetching"} /\ job'[t].content = remote
            /\ job'[t].since = job[t].since /\ job'[t].wanted = job[t].wanted
        BY <4>1, ConnectJob
      <4>3. Saw(t)'
        BY <3>a, <4>1, <4>2 DEF Saw, Asked
      <4> QED BY <3>1, <3>3, <4>1, <4>2, <4>3 DEF Brought, Fresh
    <3>7. CASE GitReturns(t)
      <4>1. /\ job[t].pc \in {"cloning", "fetching"} /\ Goto(t, "checkout")
            /\ fetched' \in job[t].content..remote
        BY <3>7 DEF GitReturns, SinceConnected
      <4>2. /\ job'[t].pc = "checkout" /\ job'[t].since = job[t].since
            /\ job'[t].wanted = job[t].wanted
        BY <4>1, GotoJob
      <4>3. Brought(t)'
        BY <2>0, <3>a, <4>1, <4>2 DEF Brought, Saw
      <4> QED BY <3>1, <3>3, <4>1, <4>2, <4>3 DEF Saw, Fresh, Locked
    <3>8. CASE CloneFails(t) \/ FetchFails(t) \/ (Clone(t) /\ mirror # "absent")
      <4>1. Raise(t) /\ fetched' = fetched
        BY <3>8 DEF CloneFails, FetchFails, Clone
      <4> QED BY <3>2, <4>1, RaiseJob
    <3>9. CASE Checkout(t)
      <4>1. job[t].pc = "checkout" /\ fetched' = fetched
        BY <3>9 DEF Checkout
      <4>2. CASE Took(t)
        <5>1. /\ job'[t].pc = "use" /\ job'[t].since = job[t].since
              /\ job'[t].wanted = job[t].wanted
              /\ job'[t].content = IF job[t].wanted = Head THEN fetched ELSE job[t].wanted
          BY <4>2 DEF Took
        <5>2. Fresh(t)'
          BY <2>0, <3>0, <3>a, <4>1, <5>1 DEF Fresh, Brought
        <5> QED BY <3>1, <3>3, <4>1, <5>1, <5>2 DEF Saw, Brought
      <4>3. CASE Raise(t)
        BY <3>2, <4>1, <4>3, RaiseJob
      <4> QED BY <3>9, <4>2, <4>3, CheckoutJob
    <3>10. CASE Use(t)
      <4>1. job'[t].pc = "idle" /\ fetched' = fetched
        BY <2>0, <3>10 DEF Use, NoJob
      <4> QED BY <3>2, <4>1
    <3> QED BY <2>1, <3>4, <3>5, <3>6, <3>7, <3>8, <3>9, <3>10 DEF Proceed
  \* In one process, all threads die together.
  <2>2. ASSUME NEW p \in Processes, Die(p) PROVE CheckoutInv'
    <3> DEFINE mine == {t \in Threads : processOf[t] = p /\ job[t].pc # "idle"}
    <3>1. /\ UNCHANGED <<processOf, remote>> /\ mine # {}
          /\ job' = [t \in Threads |-> IF t \in mine THEN NoJob ELSE job[t]]
      BY <2>2 DEF Die
    <3>2. \A t \in Threads : /\ t \in mine => job'[t].pc = "idle"
                             /\ t \notin mine => job'[t] = job[t]
      BY <3>1 DEF NoJob
    <3>3. OneProcess => \A t \in Threads : job'[t].pc = "idle"
      BY <3>1, <3>2 DEF OneProcess
    <3> HIDE DEF mine
    <3>4. ASSUME NEW t \in Threads PROVE Asked(t)' /\ Saw(t)' /\ Brought(t)' /\ Fresh(t)'
      <4>1. Asked(t) /\ Saw(t) /\ Brought(t) /\ Fresh(t)
        BY DEF CheckoutInv
      <4>2. CASE job'[t].pc = "idle"
        BY <4>2 DEF Asked, Saw, Brought, Fresh
      <4>3. CASE job'[t] = job[t] /\ ~OneProcess
        BY <3>1, <4>1, <4>3 DEF Asked, Saw, Brought, Fresh, OneProcess
      <4> QED BY <3>2, <3>3, <4>2, <4>3
    <3> QED BY <3>4 DEF CheckoutInv
  <2>3. CASE Push \/ UNCHANGED vars
    <3>1. /\ UNCHANGED <<processOf, fetched, job>>
          /\ remote' = remote \/ remote' = remote + 1
      BY <2>3 DEF Push, vars
    <3> QED BY <2>0, <3>1 DEF OneProcess, CheckoutInv, Asked, Saw, Brought, Fresh
  <2> QED BY <2>1, <2>2, <2>3 DEF Next
<1> QED BY <1>1, <1>2, GitTyping, LockHeld, PTL DEF Spec

\* A job indexes the commit it asked for, and where all workers are threads of one
\* process, a branch that is no older than it was when the job began.
THEOREM WorktreesFresh == Spec => []FreshWorktree
<1>1. CheckoutInv => FreshWorktree
  BY DEF CheckoutInv, Fresh, FreshWorktree
<1> QED BY <1>1, CheckoutInvariance, PTL

-----------------------------------------------------------------------------
(* What the branch has lost.                                                *)

\* A commit d of the branch: what it came from has come before, has itself come from
\* there, and was in the branch at every push in between.
Descends(d) ==
    /\ history[d] \subseteq 0..d
    /\ \A m \in history[d] : history[m] \subseteq history[d]
    /\ \A c \in 0..d : \A w \in history[d] : w <= c => w \in history[c]

HistoryInv ==
    /\ fetched <= remote
    /\ \A d \in 0..remote : Descends(d)
    /\ \A l \in left : l.wanted = Head \/ l.wanted <= remote

\* The branch has what it was pushed with, less what forced pushes took from it.
LEMMA PushDescends ==
    ASSUME Typed, HistoryInv, Push
    PROVE  /\ \A d \in 0..remote' : Descends(d)'
           /\ history'[remote'] \subseteq history[remote] \cup {remote'}
  <1> USE GitCacheAssumption
  <1>1. /\ remote \in Nat /\ remote' = remote + 1 /\ remote' \in Commits /\ remote \in Commits
        /\ history \in [Commits -> SUBSET Commits]
        /\ 0..remote \subseteq Commits
    BY DEF Typed, TypeOK, Commits, Push
  <1>2. PICK past \in {history[c] : c \in history[remote]} \cup {{}} :
          history' = [history EXCEPT ![remote'] = past \cup {remote'}]
    BY DEF Push
  <1>3. /\ history'[remote'] = past \cup {remote'}
        /\ \A d \in 0..remote : history'[d] = history[d] /\ d # remote'
    BY <1>1, <1>2
  <1>4. Descends(remote) /\ \A d \in 0..remote : Descends(d)
    BY <1>1 DEF HistoryInv
  <1>5. /\ past \subseteq history[remote] /\ past \subseteq 0..remote
        /\ \A m \in past : history[m] \subseteq past
    <2>1. CASE past = {}
      BY <2>1
    <2>2. ASSUME NEW k \in history[remote], past = history[k]
          PROVE  /\ past \subseteq history[remote]
                 /\ \A m \in past : history[m] \subseteq past
      <3>1. k \in 0..remote /\ history[k] \subseteq history[remote]
        BY <1>4, <2>2 DEF Descends
      <3> QED BY <1>4, <2>2, <3>1 DEF Descends
    <2>3. past \subseteq history[remote] => past \subseteq 0..remote
      BY <1>4 DEF Descends
    <2> QED BY <1>2, <2>1, <2>2, <2>3
  <1>6. ASSUME NEW d \in 0..remote PROVE Descends(d)'
    <2>1. history[d] \subseteq 0..d /\ Descends(d)
      BY <1>4 DEF Descends
    <2>2. \A c \in 0..d : c \in 0..remote
      BY <1>1
    <2> QED BY <1>3, <2>1, <2>2 DEF Descends
  <1>7. ASSUME NEW d \in 0..remote', d = remote' PROVE Descends(d)'
    <2>1. history'[remote'] \subseteq 0..remote'
      <3>1. remote' \in 0..remote' /\ 0..remote \subseteq 0..remote'
        BY <1>1
      <3> QED BY <1>3, <1>5, <3>1
    <2>2. \A m \in history'[remote'] : history'[m] \subseteq history'[remote']
      BY <1>3, <1>5
    <2>3. ASSUME NEW c \in 0..remote', NEW w \in history'[remote'], w <= c
          PROVE  w \in history'[c]
      <3>1. CASE c = remote'
        BY <3>1
      <3>2. CASE c # remote'
        <4>1. c \in 0..remote /\ w # remote'
          BY <1>1, <2>3, <3>2
        <4>2. w \in history[remote]
          BY <1>3, <1>5, <4>1
        <4>3. w \in history[c]
          BY <1>4, <2>3, <4>1, <4>2 DEF Descends
        <4> QED BY <1>3, <4>1, <4>3
      <3> QED BY <3>1, <3>2
    <2>4. /\ history'[d] \subseteq 0..d
          /\ \A m \in history'[d] : history'[m] \subseteq history'[d]
          /\ \A c \in 0..d : \A w \in history'[d] : w <= c => w \in history'[c]
      BY <1>7, <2>1, <2>2, <2>3
    <2> QED BY <2>4 DEF Descends
  <1>8. \A d \in 0..remote' : d \in 0..remote \/ d = remote'
    BY <1>1
  <1> QED BY <1>3, <1>5, <1>6, <1>7, <1>8

\* Commits leave the branch by forced pushes only, and none comes back.
THEOREM HistoryInvariance == Spec => []HistoryInv
<1> USE GitCacheAssumption
<1>1. Init => HistoryInv
  <2> SUFFICES ASSUME Init PROVE HistoryInv
    OBVIOUS
  <2>1. /\ fetched <= remote /\ left = {} /\ 0..remote = {0} /\ history[0] = {0}
    BY DEF Init, Commits
  <2> QED BY <2>1 DEF HistoryInv, Descends
<1>2. Typed /\ CheckoutInv /\ HistoryInv /\ [Next]_vars => HistoryInv'
  <2> SUFFICES ASSUME Typed, CheckoutInv, HistoryInv, [Next]_vars PROVE HistoryInv'
    OBVIOUS
  <2> USE DEF fixed, server, repo, shared
  <2>0. /\ remote \in Nat /\ fetched \in Nat /\ fetched <= remote
        /\ \A t \in Threads : job[t].content \in Nat /\ job[t].since \in Nat
        /\ \A t \in Threads : job[t].wanted \in Nat \cup {Head}
        /\ \A l \in left : l.wanted \in Nat \cup {Head}
    BY DEF Typed, TypeOK, Job, Commits, Checkouts, HistoryInv
  <2>1. ASSUME NEW t \in Threads, job[t].pc # "idle"
        PROVE  Over(t).wanted = Head \/ Over(t).wanted <= remote
    BY <2>0, <2>1 DEF CheckoutInv, Asked, Over
  \* What the server has stays the same, and nobody fetches more.
  <2>2. ASSUME UNCHANGED server, fetched' <= remote,
               \A l \in left' : l \in left
                  \/ \E t \in Threads : l = Over(t) /\ job[t].pc # "idle"
        PROVE  HistoryInv'
    BY <2>1, <2>2 DEF HistoryInv, Descends
  <2>3. ASSUME NEW t \in Threads, Begin(t) \/ Proceed(t) PROVE HistoryInv'
    <3>1. UNCHANGED server
      BY <2>3, OthersKeepJobs
    <3>2. CASE Raise(t) /\ job[t].pc # "idle" /\ fetched' = fetched
      BY <2>0, <2>2, <3>1, <3>2 DEF Raise
    <3>3. CASE left' = left /\ fetched' = fetched
      BY <2>0, <2>2, <3>1, <3>3
    <3>4. CASE GitReturns(t)
      <4>1. left' = left /\ fetched' \in job[t].content..remote
        BY <3>4 DEF GitReturns, SinceConnected
      <4>2. fetched' <= remote
        BY <2>0, <4>1
      <4> QED BY <2>2, <3>1, <4>1, <4>2
    <3>5. CASE Checkout(t)
      <4>1. job[t].pc # "idle" /\ fetched' = fetched
        BY <3>5 DEF Checkout
      <4> QED BY <3>2, <3>3, <3>5, <4>1, CheckoutJob DEF Took
    <3>6. CASE Clone(t) \/ CloneFails(t) \/ FetchFails(t)
      <4>1. job[t].pc # "idle" /\ fetched' = fetched /\ (Raise(t) \/ left' = left)
        BY <3>6 DEF Clone, CloneFails, FetchFails
      <4> QED BY <3>2, <3>3, <4>1
    <3>7. CASE Begin(t) \/ Lock(t) \/ Fetch(t) \/ Use(t)
      BY <3>3, <3>7 DEF Begin, Lock, Fetch, Use
    <3> QED BY <2>3, <3>4, <3>5, <3>6, <3>7 DEF Proceed
  <2>4. ASSUME NEW p \in Processes, Die(p) PROVE HistoryInv'
    <3>1. /\ UNCHANGED server /\ (fetched' = fetched \/ fetched' = remote)
          /\ \A l \in left' : l \in left
                \/ \E t \in Threads : l = Over(t) /\ job[t].pc # "idle"
      BY <2>4 DEF Die
    <3>2. fetched' <= remote
      BY <2>0, <3>1
    <3> QED BY <2>2, <3>1, <3>2
  <2>5. CASE Push
    <3>1. UNCHANGED <<left, fetched>> /\ remote' = remote + 1
      BY <2>5 DEF Push
    <3>2. fetched' <= remote' /\ \A l \in left' : l.wanted = Head \/ l.wanted <= remote'
      BY <2>0, <3>1 DEF HistoryInv
    <3> QED BY <2>5, <3>2, PushDescends DEF HistoryInv
  <2>6. CASE UNCHANGED vars
    BY <2>6 DEF vars, HistoryInv, Descends
  <2> QED BY <2>3, <2>4, <2>5, <2>6 DEF Next
<1> QED BY <1>1, <1>2, GitTyping, CheckoutInvariance, PTL DEF Spec

\* Without a fault, the threads of one process find the mirror as their step expects it.
Expected(t) ==
    /\ job[t].pc = "clone" => mirror = "absent"
    /\ job[t].pc = "cloning" => mirror = "partial"
    /\ job[t].pc \in {"fetch", "fetching", "checkout"} => mirror = "complete"

ForCause == \A l \in left : IF l.wanted = Head THEN ~default ELSE l.wanted \notin history[remote]

MirrorInv ==
    OneProcess /\ faults = 0 =>
        /\ ForCause
        /\ mirror = "partial" => \E t \in Threads : job[t].pc = "cloning"
        /\ mirror = "complete" => atHead = default
        /\ \A t \in Threads : Expected(t)

\* Where all workers are threads of one process, before a network fails or the process
\* dies, checkouts raise only for a branch that is not the server's default and for
\* commits that forced pushes took from the branch: the directory test, the clone and
\* the fetch happen under one lock, and a fetch after the job began brings what it asks.
THEOREM CheckoutsFailForCause == Spec => []FailsForCause
<1> USE GitCacheAssumption
<1>1. Init => MirrorInv
  <2> SUFFICES ASSUME Init PROVE MirrorInv
    OBVIOUS
  <2>1. (\A t \in Threads : job[t].pc = "idle") /\ mirror = "absent" /\ left = {}
    BY DEF Init, NoJob
  <2> QED BY <2>1 DEF MirrorInv, ForCause, Expected
<1>2. Typed /\ HoldsLock /\ CheckoutInv /\ HistoryInv /\ MirrorInv /\ [Next]_vars => MirrorInv'
  <2> SUFFICES ASSUME Typed, HoldsLock, CheckoutInv, HistoryInv, MirrorInv, [Next]_vars,
                      OneProcess', faults' = 0
               PROVE  /\ ForCause'
                      /\ mirror' = "partial" => \E t \in Threads : job'[t].pc = "cloning"
                      /\ mirror' = "complete" => atHead' = default'
                      /\ \A t \in Threads : Expected(t)'
    BY DEF MirrorInv
  <2> USE DEF fixed, server, repo, shared
  <2>0. job \in [Threads -> Job] /\ faults \in Nat /\ fetched \in Nat /\ remote \in Nat
        /\ mirror \in {"absent", "partial", "complete"}
    BY DEF Typed, TypeOK, Commits
  <2> DEFINE Goal == /\ ForCause'
                     /\ mirror' = "partial" => \E t \in Threads : job'[t].pc = "cloning"
                     /\ mirror' = "complete" => atHead' = default'
                     /\ \A t \in Threads : Expected(t)'
  <2>a. UNCHANGED <<processOf, default>> /\ OneProcess
    BY DEF Next, Begin, Proceed, Lock, Clone, CloneFails, Fetch, GitReturns, FetchFails,
           Checkout, Use, Die, Push, Raise, vars, OneProcess
  \* A fault that has happened is not forgotten.
  <2>b. faults = 0
    <3>1. UNCHANGED faults \/ Fault
      BY DEF Next, Begin, Proceed, Lock, Clone, CloneFails, Fetch, GitReturns, FetchFails,
             Checkout, Use, Die, Push, vars
    <3> QED BY <2>0, <3>1 DEF Fault
  <2>c. /\ ForCause /\ \A t \in Threads : Expected(t)
        /\ mirror = "partial" => \E t \in Threads : job[t].pc = "cloning"
        /\ mirror = "complete" => atHead = default
    BY <2>a, <2>b DEF MirrorInv
  \* One thread at most is within the with block.
  <2>d. ASSUME NEW t \in Threads, NEW u \in Threads \ {t}, job[t].pc \in Locked
        PROVE  job[u].pc \notin Locked
    BY <2>a, <2>d DEF HoldsLock, OneProcess
  <2>1. ASSUME NEW t \in Threads, Begin(t) \/ Proceed(t) PROVE Goal
    <3>0. (\A u \in Threads \ {t} : job'[u] = job[u]) /\ UNCHANGED server
      BY <2>1, OthersKeepJobs
    <3>a. Expected(t)
      BY <2>c
    <3>b. left' = left => ForCause'
      BY <2>a, <2>c, <3>0 DEF ForCause
    <3>1. ASSUME ForCause', mirror' = mirror, atHead' = atHead, Expected(t)',
                 job[t].pc # "cloning"
          PROVE  Goal
      <4>1. \A u \in Threads \ {t} : Expected(u)'
        BY <2>c, <3>0, <3>1 DEF Expected
      <4>2. mirror' = "partial" => \E u \in Threads : job'[u].pc = "cloning"
        BY <2>c, <3>0, <3>1
      <4> QED BY <2>a, <2>c, <3>1, <4>1, <4>2
    \* The one thread within the block changes the mirror.
    <3>2. ASSUME left' = left, job[t].pc \in Locked, Expected(t)',
                 mirror' = "partial" => job'[t].pc = "cloning",
                 mirror' = "complete" => atHead' = default
          PROVE  Goal
      <4>1. \A u \in Threads \ {t} : Expected(u)'
        BY <2>d, <3>0, <3>2 DEF Expected, Locked
      <4> QED BY <2>a, <2>c, <3>2, <3>b, <4>1
    <3>3. CASE Begin(t)
      <4>1. /\ left' = left /\ mirror' = mirror /\ atHead' = atHead /\ job'[t].pc = "lock"
            /\ job[t].pc # "cloning"
        BY <2>0, <3>3 DEF Begin
      <4> QED BY <3>1, <3>b, <4>1 DEF Expected
    <3>4. CASE Lock(t)
      <4>1. /\ job[t].pc = "lock" /\ left' = left /\ mirror' = mirror /\ atHead' = atHead
            /\ Goto(t, IF mirror = "absent" THEN "clone" ELSE "fetch")
        BY <3>4 DEF Lock
      <4>2. job'[t].pc = IF mirror = "absent" THEN "clone" ELSE "fetch"
        BY <4>1, GotoJob
      <4>3. mirror # "partial"
        <5>1. SUFFICES ASSUME NEW u \in Threads, job[u].pc = "cloning" PROVE FALSE
          BY <2>c
        <5>2. lock[processOf[u]] = u
          BY <5>1 DEF HoldsLock, Locked
        <5>3. lock[processOf[t]] \in {Nobody, t} /\ processOf[t] = processOf[u]
          BY <2>a, <3>4 DEF Lock, MayLock, OneProcess
        <5> QED BY <4>1, <5>1, <5>2, <5>3
      <4> QED BY <2>0, <3>1, <3>b, <4>1, <4>2, <4>3 DEF Expected
    <3>5. CASE Clone(t)
      <4>1. job[t].pc = "clone" /\ mirror = "absent"
        BY <3>5, <3>a DEF Clone, Expected
      <4>2. mirror' = "partial" /\ Connect(t, "cloning") /\ left' = left
        BY <3>5, <4>1 DEF Clone
      <4>3. job'[t].pc = "cloning"
        BY <4>2, ConnectJob
      <4> QED BY <3>2, <4>1, <4>2, <4>3 DEF Expected, Locked
    <3>6. CASE CloneFails(t)
      BY <2>b, <3>6 DEF CloneFails, Fault
    <3>7. CASE Fetch(t)
      <4>1. /\ job[t].pc = "fetch" /\ Connect(t, "fetching") /\ left' = left
            /\ mirror' = mirror /\ atHead' = atHead
        BY <3>7 DEF Fetch
      <4>2. job'[t].pc = "fetching"
        BY <4>1, ConnectJob
      <4> QED BY <3>1, <3>a, <3>b, <4>1, <4>2 DEF Expected
    <3>8. CASE GitReturns(t)
      <4>1. /\ job[t].pc \in {"cloning", "fetching"} /\ Goto(t, "checkout") /\ left' = left
            /\ mirror' = "complete"
        BY <3>8 DEF GitReturns
      <4>2. job'[t].pc = "checkout"
        BY <4>1, GotoJob
      <4>3. atHead' = default
        <5>1. CASE job[t].pc = "cloning"
          BY <3>8, <5>1 DEF GitReturns
        <5>2. CASE job[t].pc = "fetching"
          <6>1. mirror = "complete"
            BY <3>a, <5>2 DEF Expected
          <6>2. atHead' = atHead
            BY <3>8, <5>2, <6>1 DEF GitReturns
          <6> QED BY <2>c, <6>1, <6>2
        <5> QED BY <4>1, <5>1, <5>2
      <4> QED BY <3>2, <4>1, <4>2, <4>3 DEF Expected, Locked
    <3>9. CASE FetchFails(t)
      <4>1. job[t].pc = "fetching" /\ mirror = "complete" /\ ~Fault
        BY <2>b, <3>9, <3>a DEF FetchFails, Expected, Fault
      <4>2. ~Contended(t)
        BY <2>d, <4>1 DEF Contended, Locked
      <4> QED BY <3>9, <4>1, <4>2 DEF FetchFails
    <3>10. CASE Checkout(t)
      <4>1. /\ job[t].pc = "checkout" /\ mirror = "complete" /\ mirror' = mirror
            /\ atHead' = atHead
        BY <3>10, <3>a DEF Checkout, Expected
      <4>2. Asked(t) /\ Brought(t) /\ job[t].since \in Nat
            /\ job[t].wanted \in Nat \cup {Head}
        BY <2>0 DEF CheckoutInv, Job, Commits
      \* What the branch still has it had when the mirror was fetched.
      <4>3. ASSUME ~Found(job[t].wanted)
            PROVE  IF job[t].wanted = Head THEN ~default ELSE job[t].wanted \notin history[remote]
        <5>1. CASE job[t].wanted = Head
          BY <2>c, <4>1, <4>3, <5>1 DEF Found
        <5>2. CASE job[t].wanted # Head
          <6>1. job[t].wanted \notin history[fetched]
            BY <4>1, <4>3, <5>2 DEF Found
          <6>2. job[t].wanted \in Nat /\ job[t].wanted <= fetched
            BY <2>0, <2>a, <4>1, <4>2, <5>2 DEF Asked, Brought
          <6>3. fetched \in 0..remote /\ remote \in 0..remote
            BY <2>0 DEF HistoryInv
          <6>4. Descends(remote)
            BY <6>3 DEF HistoryInv
          <6> QED BY <5>2, <6>1, <6>2, <6>3, <6>4 DEF Descends
        <5> QED BY <5>1, <5>2
      <4>4. CASE Took(t)
        <5>1. left' = left /\ job'[t].pc = "use"
          BY <4>4 DEF Took
        <5> QED BY <3>1, <3>b, <4>1, <5>1 DEF Expected
      <4>5. CASE Raise(t) /\ ~Found(job[t].wanted)
        <5>1. left' = left \cup {Over(t)} /\ Over(t).wanted = job[t].wanted
          BY <4>5 DEF Raise, Over
        <5>2. ForCause'
          BY <2>a, <2>c, <3>0, <4>3, <4>5, <5>1 DEF ForCause
        <5>3. job'[t].pc = "idle"
          BY <4>5, RaiseJob
        <5> QED BY <3>1, <4>1, <5>2, <5>3 DEF Expected
      <4> QED BY <3>10, <4>4, <4>5, CheckoutJob
    <3>11. CASE Use(t)
      <4>1. /\ job'[t].pc = "idle" /\ job[t].pc = "use" /\ left' = left /\ mirror' = mirror
            /\ atHead' = atHead
        BY <2>0, <3>11 DEF Use, NoJob
      <4> QED BY <3>1, <3>b, <4>1 DEF Expected
    <3> QED
      BY <2>1, <3>3, <3>4, <3>5, <3>6, <3>7, <3>8, <3>9, <3>10, <3>11 DEF Proceed
  <2>2. ASSUME NEW p \in Processes, Die(p) PROVE Goal
    BY <2>b, <2>2 DEF Die, Fault
  <2>3. CASE Push
    <3>1. UNCHANGED <<left, mirror, atHead, job>>
      BY <2>3 DEF Push
    <3>2. ForCause'
      <4> SUFFICES ASSUME NEW l \in left, l.wanted # Head PROVE l.wanted \notin history'[remote']
        BY <2>a, <2>c, <3>1 DEF ForCause
      <4>1. l.wanted \notin history[remote] /\ l.wanted <= remote
        BY <2>c DEF ForCause, HistoryInv
      <4>2. remote' = remote + 1 /\ l.wanted \in Nat
        BY <2>3 DEF Push, Typed, TypeOK, Checkouts, Commits
      <4>3. l.wanted # remote'
        BY <2>0, <4>1, <4>2
      <4> QED BY <2>3, <4>1, <4>3, PushDescends
    <3> QED BY <2>a, <2>c, <3>1, <3>2 DEF Expected
  <2>4. CASE UNCHANGED vars
    BY <2>a, <2>c, <2>4 DEF vars, Expected, ForCause
  <2> QED BY <2>1, <2>2, <2>3, <2>4 DEF Next
<1>3. MirrorInv => FailsForCause
  BY DEF MirrorInv, ForCause, FailsForCause
<1> QED
  BY <1>1, <1>2, <1>3, GitTyping, LockHeld, CheckoutInvariance, HistoryInvariance, PTL DEF Spec

-----------------------------------------------------------------------------
(* Worktrees.                                                               *)

InUse == {job[t].worktree : t \in {u \in Threads : job[u].pc # "idle"}}
Abandoned == {l.worktree : l \in left} \cup stuck

\* A worktree has one user, and once it is abandoned it has none.
OneUser ==
    \A t, u \in Threads : job[t].pc # "idle" /\ job[u].pc # "idle"
                          /\ job[t].worktree = job[u].worktree => t = u

WorktreeInv ==
    /\ disk = InUse \cup Abandoned
    /\ InUse \cap Abandoned = {}
    /\ disk \subseteq 1..requests
    /\ OneUser

\* A job that is over has no worktree, and the others keep theirs.
LEMMA UserLeaves ==
    ASSUME OneUser, NEW S \in SUBSET {u \in Threads : job[u].pc # "idle"},
           \A t \in Threads : IF t \in S THEN job'[t].pc = "idle" ELSE job'[t] = job[t]
    PROVE  InUse' = InUse \ {job[t].worktree : t \in S} /\ OneUser'
  <1>1. OneUser'
    BY DEF OneUser
  <1>2. ASSUME NEW d \in InUse' PROVE d \in InUse \ {job[t].worktree : t \in S}
    <2>1. PICK t \in Threads : job'[t].pc # "idle" /\ d = job'[t].worktree
      BY <1>2 DEF InUse
    <2>2. t \notin S /\ job[t].pc # "idle" /\ d = job[t].worktree
      BY <2>1
    <2> QED BY <2>2 DEF InUse, OneUser
  <1>3. ASSUME NEW d \in InUse, d \notin {job[t].worktree : t \in S} PROVE d \in InUse'
    <2>1. PICK t \in Threads : job[t].pc # "idle" /\ d = job[t].worktree
      BY <1>3 DEF InUse
    <2>2. job'[t] = job[t]
      BY <1>3, <2>1
    <2> QED BY <2>1, <2>2 DEF InUse
  <1> QED BY <1>1, <1>2, <1>3

\* On disk are the worktrees in use and the abandoned ones: the caller's finally removes
\* each of the others, and nobody removes what a job has.
THEOREM NoOtherWorktrees == Spec => []WorktreesAccounted
<1> USE GitCacheAssumption
<1>1. Init => WorktreeInv
  BY DEF Init, WorktreeInv, OneUser, InUse, Abandoned, NoJob
<1>2. Typed /\ WorktreeInv /\ [Next]_vars => WorktreeInv'
  <2> SUFFICES ASSUME Typed, WorktreeInv, [Next]_vars PROVE WorktreeInv'
    OBVIOUS
  <2> USE DEF fixed, server, repo, shared
  <2>0. /\ job \in [Threads -> Job] /\ requests \in Nat /\ OneUser
        /\ disk = InUse \cup Abandoned /\ InUse \cap Abandoned = {} /\ disk \subseteq 1..requests
    BY DEF Typed, TypeOK, WorktreeInv
  <2>1. ASSUME NEW t \in Threads, Begin(t) \/ Proceed(t) PROVE WorktreeInv'
    <3>0. \A u \in Threads \ {t} : job'[u] = job[u]
      BY <2>1, OthersKeepJobs
    \* The job goes on in its worktree.
    <3>1. ASSUME job[t].pc # "idle", job'[t].pc # "idle",
                 job'[t].worktree = job[t].worktree, UNCHANGED <<disk, requests, left, stuck>>
          PROVE  WorktreeInv'
      <4>1. \A u \in Threads : /\ job'[u].worktree = job[u].worktree
                               /\ (job'[u].pc # "idle") <=> (job[u].pc # "idle")
        BY <3>0, <3>1
      <4>2. InUse' = InUse /\ OneUser' /\ Abandoned' = Abandoned
        BY <2>0, <3>1, <4>1 DEF InUse, OneUser, Abandoned
      <4> QED BY <2>0, <3>1, <4>2 DEF WorktreeInv
    \* It is over; the worktree is removed, or it is abandoned.
    <3>2. ASSUME job[t].pc # "idle", job'[t].pc = "idle", requests' = requests,
                 \/ disk' = disk /\ Abandoned' = Abandoned \cup {job[t].worktree}
                 \/ disk' = disk \ {job[t].worktree} /\ Abandoned' = Abandoned
          PROVE  WorktreeInv'
      <4>1. InUse' = InUse \ {job[u].worktree : u \in {t}} /\ OneUser'
        BY <2>0, <3>0, <3>2, UserLeaves
      <4>2. job[t].worktree \in InUse
        BY <3>2 DEF InUse
      <4> QED BY <2>0, <3>2, <4>1, <4>2 DEF WorktreeInv
    <3>3. CASE Begin(t)
      <4>1. /\ job[t].pc = "idle" /\ requests' = requests + 1 /\ disk' = disk \cup {requests'}
            /\ job'[t].pc = "lock" /\ job'[t].worktree = requests'
            /\ UNCHANGED <<left, stuck>>
        BY <2>0, <3>3 DEF Begin
      <4>2. requests' \notin disk
        BY <2>0, <4>1
      <4>3. InUse' = InUse \cup {requests'}
        <5>1. \A u \in Threads : job'[u].pc # "idle" <=> u = t \/ job[u].pc # "idle"
          BY <3>0, <4>1
        <5>2. \A u \in Threads \ {t} : job'[u].worktree = job[u].worktree
          BY <3>0
        <5> QED BY <4>1, <5>1, <5>2 DEF InUse
      <4>4. OneUser'
        <5>1. \A u \in Threads : job[u].pc # "idle" => job[u].worktree \in disk
          BY <2>0 DEF InUse
        <5> QED BY <2>0, <3>0, <4>1, <4>2, <5>1 DEF OneUser
      <4>5. Abandoned' = Abandoned /\ 1..requests' = 1..requests \cup {requests'}
        BY <2>0, <4>1 DEF Abandoned
      <4> QED BY <2>0, <4>1, <4>2, <4>3, <4>4, <4>5 DEF WorktreeInv
    <3>4. CASE Raise(t) /\ job[t].pc # "idle"
      <4>1. /\ UNCHANGED <<disk, stuck, requests>> /\ left' = left \cup {Over(t)}
            /\ job'[t].pc = "idle"
        BY <3>4, RaiseJob DEF Raise, NoJob
      <4>2. Abandoned' = Abandoned \cup {job[t].worktree}
        <5>1. Over(t).worktree = job[t].worktree
          BY DEF Over
        <5>2. {l.worktree : l \in left'} = {l.worktree : l \in left} \cup {job[t].worktree}
          BY <4>1, <5>1
        <5> QED BY <4>1, <5>2 DEF Abandoned
      <4> QED BY <3>2, <3>4, <4>1, <4>2
    <3>5. CASE Lock(t) \/ Fetch(t) \/ GitReturns(t) \/ (Clone(t) /\ mirror = "absent")
      <4>1. UNCHANGED <<disk, requests, left, stuck>> /\ job[t].pc # "idle"
        BY <3>5 DEF Lock, Fetch, GitReturns, Clone
      <4>2. job'[t].worktree = job[t].worktree /\ job'[t].pc # "idle"
        BY <2>0, <3>5 DEF Lock, Fetch, GitReturns, Clone, Connect, Goto, Job
      <4> QED BY <3>1, <4>1, <4>2
    <3>6. CASE Checkout(t)
      <4>1. job[t].pc # "idle" /\ (Took(t) \/ Raise(t)) /\ (Took(t) => requests' = requests)
        <5>1. job[t].pc = "checkout"
          BY <3>6 DEF Checkout
        <5>2. requests' = requests
          BY <3>6 DEF Checkout, Raise
        <5> QED BY <3>6, <5>1, <5>2, CheckoutJob
      <4>2. CASE Took(t)
        BY <3>1, <4>1, <4>2 DEF Took
      <4> QED BY <3>4, <4>1, <4>2
    <3>7. CASE Use(t)
      <4>1. /\ job[t].pc # "idle" /\ UNCHANGED <<requests, left>>
            /\ job' = [job EXCEPT ![t] = NoJob]
        BY <3>7 DEF Use
      <4>2. job'[t].pc = "idle"
        BY <2>0, <4>1 DEF NoJob
      <4>3. \/ disk' = disk \ {job[t].worktree} /\ stuck' = stuck
            \/ disk' = disk /\ stuck' = stuck \cup {job[t].worktree}
        BY <3>7 DEF Use, Cleaned
      <4>4. \/ disk' = disk \ {job[t].worktree} /\ Abandoned' = Abandoned
            \/ disk' = disk /\ Abandoned' = Abandoned \cup {job[t].worktree}
        BY <4>1, <4>3 DEF Abandoned
      <4> QED BY <3>2, <4>1, <4>2, <4>4
    <3>8. CASE CloneFails(t) \/ FetchFails(t) \/ (Clone(t) /\ mirror # "absent")
      BY <3>4, <3>8 DEF CloneFails, FetchFails, Clone
    <3> QED BY <2>1, <3>3, <3>5, <3>6, <3>7, <3>8 DEF Proceed
  <2>2. ASSUME NEW p \in Processes, Die(p) PROVE WorktreeInv'
    <3> DEFINE mine == {t \in Threads : processOf[t] = p /\ job[t].pc # "idle"}
    <3>1. /\ job' = [t \in Threads |-> IF t \in mine THEN NoJob ELSE job[t]]
          /\ left' = left \cup {Over(t) : t \in mine} /\ UNCHANGED <<disk, requests, stuck>>
      BY <2>2 DEF Die
    <3>2. mine \in SUBSET {u \in Threads : job[u].pc # "idle"}
      OBVIOUS
    <3> HIDE DEF mine
    <3>3. InUse' = InUse \ {job[t].worktree : t \in mine} /\ OneUser'
      <4>1. \A t \in Threads : IF t \in mine THEN job'[t].pc = "idle" ELSE job'[t] = job[t]
        BY <3>1 DEF NoJob
      <4> QED BY <2>0, <3>2, <4>1, UserLeaves
    <3>4. Abandoned' = Abandoned \cup {job[t].worktree : t \in mine}
      <4>1. \A t \in Threads : Over(t).worktree = job[t].worktree
        BY DEF Over
      <4>2. mine \subseteq Threads
        BY <3>2
      <4>3. {l.worktree : l \in {Over(t) : t \in mine}} = {job[t].worktree : t \in mine}
        BY <4>1, <4>2
      <4>4. {l.worktree : l \in left'}
              = {l.worktree : l \in left} \cup {l.worktree : l \in {Over(t) : t \in mine}}
        BY <3>1
      <4> QED BY <3>1, <4>3, <4>4 DEF Abandoned
    <3>5. {job[t].worktree : t \in mine} \subseteq InUse
      BY <3>2 DEF InUse
    <3> QED BY <2>0, <3>1, <3>3, <3>4, <3>5 DEF WorktreeInv
  <2>3. CASE Push \/ UNCHANGED vars
    <3>1. UNCHANGED <<job, disk, requests, left, stuck>>
      BY <2>3 DEF Push, vars
    <3> QED BY <3>1 DEF WorktreeInv, OneUser, InUse, Abandoned
  <2> QED BY <2>1, <2>2, <2>3 DEF Next
<1>3. WorktreeInv => WorktreesAccounted
  BY DEF WorktreeInv, WorktreesAccounted, InUse, Abandoned
<1> QED BY <1>1, <1>2, <1>3, GitTyping, PTL DEF Spec
=============================================================================
