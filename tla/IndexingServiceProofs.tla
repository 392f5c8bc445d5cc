----------------------- MODULE IndexingServiceProofs -----------------------
(* Proofs about IndexingService, for every history of a branch, every list  *)
(* of jobs, any number of workers and files in parallel, and every number   *)
(* of exceptions and crashes.                                               *)
EXTENDS IndexingService, TLAPS

-----------------------------------------------------------------------------
(* The store.                                                              *)

KeySpace == [kind : Kinds, path : Paths, version : Versions \cup {NoVersion}]

\* A key tells the kind and path of its document, and for chunks and edges all of it.
LEMMA KeyParts ==
    ASSUME NEW d \in Document
    PROVE  /\ Key(d) \in KeySpace
           /\ Key(d).kind = d.kind /\ Key(d).path = d.path
           /\ d.kind \in {"chunk", "edge"} => Key(d) = d
  BY DEF Key, Document, KeySpace, Kinds

\* The keys of documents are keys.
LEMMA KeysTyped ==
    ASSUME NEW D, D \subseteq Document
    PROVE  Keys(D) \subseteq KeySpace
  BY KeyParts DEF Keys

\* A document that searches see as it is, and on which a deletion does not conflict.
Settled(d) == d \in seen /\ Key(d) \notin unrefreshed

\* Deletion by query over one kind and path leaves the other documents alone, and
\* leaves none that is settled.
LEMMA DeletesTheSettled ==
    ASSUME StoreTypeOK, NEW k, NEW p, DeleteByQuery({d \in seen : d.kind = k /\ d.path = p})
    PROVE  /\ live' \subseteq live
           /\ \A d \in live : d.kind # k \/ d.path # p => d \in live'
           /\ \A d \in live : d.kind = k /\ d.path = p /\ Settled(d) => d \notin live'
  <1> DEFINE D == {d \in seen : d.kind = k /\ d.path = p}
  <1>1. live' = {d \in live : Key(d) \notin Keys(D \cap seen) \ unrefreshed}
    BY DEF DeleteByQuery
  <1>2. ASSUME NEW d \in live, d.kind # k \/ d.path # p PROVE d \in live'
    <2>1. ASSUME NEW e \in D PROVE Key(d) # Key(e)
      <3>1. e \in Document /\ d \in Document /\ e.kind = k /\ e.path = p
        BY DEF StoreTypeOK
      <3> QED BY <1>2, <3>1, KeyParts
    <2> QED BY <1>1, <2>1 DEF Keys
  <1>3. ASSUME NEW d \in live, d.kind = k, d.path = p, Settled(d) PROVE d \notin live'
    BY <1>1, <1>3 DEF Keys, Settled
  <1> HIDE DEF D
  <1> QED BY <1>1, <1>2, <1>3

\* What a bulk request writes of one file touches no other file.
LEMMA PutsOneFile ==
    ASSUME StoreTypeOK, NEW D, D \subseteq Document, NEW p, \A d \in D : d.path = p, Put(D)
    PROVE  /\ D \subseteq live' /\ live' \subseteq live \cup D
           /\ \A d \in live : d.path # p => d \in live' /\ (Settled(d) => Settled(d)')
  <1>1. live' = {d \in live : Key(d) \notin Keys(D)} \cup D /\ seen' = seen
        /\ unrefreshed' = unrefreshed \cup Keys(D)
    BY DEF Put
  <1>2. ASSUME NEW d \in live, d.path # p PROVE Key(d) \notin Keys(D)
    BY <1>2, KeyParts DEF StoreTypeOK, Keys
  <1> QED BY <1>1, <1>2 DEF Settled

\* Refreshes settle what is there.
LEMMA RefreshSettles ==
    ASSUME StoreTypeOK, NEW K, Refresh(K)
    PROVE  /\ live' = live /\ StoreTypeOK'
           /\ \A d \in live : Settled(d) => Settled(d)'
  <1>1. live' = live /\ seen' = {d \in seen : d.kind \notin K} \cup {d \in live : d.kind \in K}
        /\ unrefreshed' = {k \in unrefreshed : k.kind \notin K}
    BY DEF Refresh, OfKinds
  <1>2. ASSUME NEW d \in live, Settled(d) PROVE Settled(d)'
    BY <1>1, <1>2, KeyParts DEF Settled, StoreTypeOK
  <1> QED BY <1>1, <1>2 DEF StoreTypeOK

-----------------------------------------------------------------------------
(* Type correctness.                                                       *)

\* A worker is in a phase of a job it holds, and works through the paths of that phase.
HoldsJob == \A w \in Workers : phase[w] = "idle" <=> job[w] = 0

Asked ==
    \A w \in Workers, p \in Paths : step[w][p] # "none" =>
        \/ phase[w] = "delete" /\ step[w][p] # "bulk" /\ p \in PathsToDelete(JobOf(w))
        \/ /\ phase[w] = "index" /\ p \in PathsToIndex(JobOf(w))
           /\ step[w][p] = "bulk" => Indexable(JobOf(w).commit, p)

BrokenInPool == \A w \in Workers : broken[w] => phase[w] = "index"

Typed == TypeOK /\ HoldsJob /\ Asked /\ BrokenInPool

\* The documents of one file, one of each kind.
LEMMA FileDocsTyped ==
    ASSUME NEW c, NEW p \in Paths, Indexable(c, p)
    PROVE  /\ FileDocs(c, p) \subseteq Document
           /\ \A d \in FileDocs(c, p) : d.path = p
  BY DEF FileDocs, Indexable, Document

\* What a file still needs.
LEMMA ToDoTyped ==
    ASSUME NEW S
    PROVE  /\ ToDo(S) \in [Paths -> Kinds \cup {"none", "bulk"}]
           /\ \A p \in Paths : ToDo(S)[p] # "none" => p \in S /\ ToDo(S)[p] = "chunk"
  BY DEF ToDo, Kinds

\* Requests keep the store in its type.
LEMMA PutTyped ==
    ASSUME StoreTypeOK, NEW D, D \subseteq Document, Put(D)
    PROVE  StoreTypeOK'
  BY KeysTyped DEF StoreTypeOK, Put, KeySpace

\* A deletion leaves a typed store.
LEMMA DeleteTyped ==
    ASSUME StoreTypeOK, NEW D, DeleteByQuery(D)
    PROVE  StoreTypeOK'
  BY DEF StoreTypeOK, DeleteByQuery

\* A job of the list.
LEMMA JobListTyped ==
    ASSUME NEW k \in JobIds
    PROVE  JobList[k].commit \in Commits /\ k # 0
  <1> DEFINE Job == [type : {"full", "incremental", "push"}, commit : Commits]
  <1>1. JobList \in Seq(Job)
    BY IndexingAssumption
  <1>2. JobList[k] \in Job /\ k # 0
    <2> HIDE DEF Job
    <2> QED BY <1>1 DEF JobIds
  <1> QED BY <1>2

\* A worker that is not idle is about a commit of the history.
LEMMA JobOfTyped ==
    ASSUME Typed, NEW w \in Workers, phase[w] # "idle"
    PROVE  job[w] \in JobIds /\ JobOf(w) = JobList[job[w]] /\ JobOf(w).commit \in Commits
  BY JobListTyped DEF Typed, TypeOK, HoldsJob, JobOf

\* Faults stay within their bound.
LEMMA FaultTyped ==
    ASSUME faults \in 0..MaxFaults, Fault
    PROVE  faults' \in 0..MaxFaults
  BY IndexingAssumption DEF Fault

\* Leaving a job, for whatever reason.
LEMMA LeaveTyped ==
    ASSUME Typed, NEW w \in Workers, phase[w] # "idle", Leave(w),
           jobState' \in [JobIds -> {"new", "running", "expired", "failed", "done"}],
           StoreTypeOK', cut' = cut, repo' \in Commits \cup {0}, faults' \in 0..MaxFaults
    PROVE  Typed'
  <1> USE DEF Typed, TypeOK
  <1>1. /\ job' = [job EXCEPT ![w] = 0] /\ phase' = [phase EXCEPT ![w] = "idle"]
        /\ step' = [step EXCEPT ![w] = Idle] /\ broken' = [broken EXCEPT ![w] = FALSE]
        /\ orphans' = [orphans EXCEPT ![w] = {}]
    BY DEF Leave
  <1>2. TypeOK'
    BY <1>1 DEF Idle, Phases
  <1>3. HoldsJob' /\ BrokenInPool'
    BY <1>1 DEF HoldsJob, BrokenInPool
  <1>4. Asked'
    BY <1>1 DEF Asked, JobOf, Idle
  <1> QED BY <1>2, <1>3, <1>4

\* Settling a job.
LEMMA ReleaseTyped ==
    ASSUME Typed, NEW w \in Workers, phase[w] # "idle",
           NEW outcome \in {"failed", "done"}, Release(w, outcome),
           StoreTypeOK', cut' = cut, repo' \in Commits \cup {0}, faults' \in 0..MaxFaults
    PROVE  Typed'
  BY LeaveTyped DEF Release, Typed, TypeOK

\* Whatever fails, crashes or is retried, every variable keeps its type.
THEOREM IndexingTyping == Spec => []Typed
<1> USE IndexingAssumption
<1>1. Init => Typed
  <2> SUFFICES ASSUME Init PROVE Typed
    OBVIOUS
  <2> USE DEF Init
  <2>1. TypeOK
    <3>1. step \in [Workers -> [Paths -> Kinds \cup {"none", "bulk"}]]
      BY DEF Idle
    <3>2. jobState \in [JobIds -> {"new", "running", "expired", "failed", "done"}]
          /\ job \in [Workers -> JobIds \cup {0}] /\ phase \in [Workers -> Phases]
      BY DEF Phases
    <3>3. broken \in [Workers -> BOOLEAN] /\ orphans \in [Workers -> SUBSET (Paths \X Versions)]
      OBVIOUS
    <3>4. cut \in BOOLEAN /\ repo \in Commits \cup {0}
      OBVIOUS
    <3>5. faults \in 0..MaxFaults
      <4>1. MaxFaults \in Nat
        BY IndexingAssumption
      <4> QED BY <4>1
    <3> QED BY <3>1, <3>2, <3>3, <3>4, <3>5 DEF TypeOK, StoreInit, StoreTypeOK
  <2>2. HoldsJob /\ Asked /\ BrokenInPool
    BY DEF HoldsJob, Asked, BrokenInPool, Idle
  <2> QED BY <2>1, <2>2 DEF Typed
<1>2. Typed /\ [Next]_vars => Typed'
  <2> SUFFICES ASSUME Typed, [Next]_vars PROVE Typed'
    OBVIOUS
  <2>0. TypeOK /\ StoreTypeOK /\ HoldsJob /\ Asked /\ BrokenInPool
    BY DEF Typed, TypeOK
  <2>1. CASE UNCHANGED vars
    BY <2>0, <2>1 DEF Typed, TypeOK, StoreTypeOK, HoldsJob, Asked, BrokenInPool, JobOf, vars,
                      storeVars, jobVars
  <2>2. CASE RefreshInterval
    <3>1. UNCHANGED jobVars /\ StoreTypeOK'
      BY <2>0, <2>2, RefreshSettles DEF RefreshInterval
    <3> QED BY <2>0, <3>1 DEF Typed, TypeOK, HoldsJob, Asked, BrokenInPool, JobOf, jobVars
  <2>4. ASSUME NEW k \in JobIds, LeaseExpires(k) PROVE Typed'
    <3>1. /\ jobState' = [jobState EXCEPT ![k] = "expired"]
          /\ UNCHANGED <<live, seen, unrefreshed, job, phase, step, broken, orphans, cut, repo, faults>>
      BY <2>4 DEF LeaseExpires, storeVars
    <3>2. TypeOK'
      BY <2>0, <3>1 DEF TypeOK, StoreTypeOK
    <3> QED BY <2>0, <3>1, <3>2 DEF Typed, HoldsJob, Asked, BrokenInPool, JobOf
  <2>3. ASSUME NEW w \in Workers, WorkerStep(w) PROVE Typed'
    \* Another worker's steps are not looked at again.
    <3>1. ASSUME NEW k \in JobIds, Claim(w, k) PROVE Typed'
      <4> DEFINE S == PathsToDelete(JobList[k])
      <4>1. /\ phase[w] = "idle" /\ jobState' = [jobState EXCEPT ![k] = "running"]
            /\ job' = [job EXCEPT ![w] = k] /\ phase' = [phase EXCEPT ![w] = "delete"]
            /\ step' = [step EXCEPT ![w] = ToDo(S)]
            /\ UNCHANGED <<live, seen, unrefreshed, broken, orphans, cut, repo, faults>>
        BY <3>1 DEF Claim, storeVars
      <4>2. TypeOK'
        BY <2>0, <4>1, ToDoTyped DEF TypeOK, StoreTypeOK, Phases
      <4>3. HoldsJob' /\ BrokenInPool'
        BY <2>0, <4>1 DEF TypeOK, HoldsJob, BrokenInPool, JobIds
      <4>4. Asked'
        <5>1. JobOf(w)' = JobList[k] /\ \A x \in Workers \ {w} : JobOf(x)' = JobOf(x)
          BY <2>0, <4>1 DEF JobOf, TypeOK
        <5> HIDE DEF S
        <5>2. ASSUME NEW p \in Paths, step'[w][p] # "none"
              PROVE  phase'[w] = "delete" /\ step'[w][p] # "bulk" /\ p \in S
          BY <2>0, <4>1, <5>2, ToDoTyped DEF TypeOK
        <5>3. ASSUME NEW x \in Workers \ {w} PROVE step'[x] = step[x] /\ phase'[x] = phase[x]
          BY <2>0, <4>1 DEF TypeOK
        <5> QED BY <2>0, <5>1, <5>2, <5>3 DEF Asked, S
      <4> QED BY <4>2, <4>3, <4>4 DEF Typed
    <3>2. CASE Crash(w) \/ JobRaises(w) \/ PoolRaises(w) \/ RebuildCommunities(w)
      <4>1. CASE Crash(w)
        BY <2>0, <4>1, FaultTyped, LeaveTyped DEF Crash, storeVars, StoreTypeOK, TypeOK, Typed
      <4>2. CASE JobRaises(w)
        BY <2>0, <4>2, JobOfTyped, FaultTyped, ReleaseTyped
           DEF JobRaises, storeVars, StoreTypeOK, TypeOK
      <4>3. CASE PoolRaises(w)
        <5>1. phase[w] # "idle"
          BY <2>0, <4>3 DEF PoolRaises, BrokenInPool
        <5> QED BY <2>0, <5>1, <4>3, ReleaseTyped
                DEF PoolRaises, storeVars, StoreTypeOK, TypeOK, Typed
      <4>4. CASE RebuildCommunities(w)
        <5>1. StoreTypeOK'
          BY <2>0, <4>4, RefreshSettles DEF RebuildCommunities, storeVars, StoreTypeOK
        <5> QED BY <2>0, <5>1, <4>4, ReleaseTyped DEF RebuildCommunities, TypeOK, Typed
      <4> QED BY <3>2, <4>1, <4>2, <4>3, <4>4
    <3>3. ASSUME NEW p \in Paths, DeleteFile(w, p) PROVE Typed'
      <4>1. /\ phase[w] \in {"delete", "index"} /\ step[w][p] \in Kinds /\ StoreTypeOK'
            /\ step' = [step EXCEPT ![w][p] = After(w, p)]
            /\ UNCHANGED <<jobState, job, phase, broken, orphans, cut, repo, faults>>
        BY <2>0, <3>3, DeleteTyped DEF DeleteFile
      <4>2. /\ After(w, p) \in Kinds \cup {"none", "bulk"}
            /\ After(w, p) = "bulk" => Replaces(w, p)
        BY <4>1 DEF After, Kinds
      <4>3. TypeOK'
        BY <2>0, <4>1, <4>2 DEF TypeOK
      <4>4. Asked'
        <5>1. step[w][p] # "none"
          BY <4>1 DEF Kinds
        <5> QED BY <2>0, <4>1, <4>2, <5>1 DEF Asked, TypeOK, JobOf, Replaces
      <4> QED BY <2>0, <4>1, <4>3, <4>4 DEF Typed, HoldsJob, BrokenInPool
    <3>4. ASSUME NEW p \in Paths, BulkInsert(w, p) \/ FileRaises(w, p) PROVE Typed'
      <4>1. /\ UNCHANGED <<jobState, job, phase, orphans, cut, repo>>
            /\ step' = [step EXCEPT ![w][p] = "none"]
            /\ phase[w] = "index" /\ broken' \in {broken, [broken EXCEPT ![w] = TRUE]}
            /\ faults' \in 0..MaxFaults
        <5>1. CASE BulkInsert(w, p)
          BY <2>0, <5>1 DEF BulkInsert, Asked, TypeOK
        <5>2. CASE FileRaises(w, p)
          BY <2>0, <5>2, FaultTyped DEF FileRaises, TypeOK
        <5> QED BY <3>4, <5>1, <5>2
      <4>2. StoreTypeOK'
        <5>1. ASSUME NEW D \in SUBSET FileDocs(JobOf(w).commit, p), step[w][p] = "bulk", Put(D)
              PROVE  StoreTypeOK'
          <6>1. Indexable(JobOf(w).commit, p)
            BY <2>0, <5>1 DEF Asked
          <6> QED BY <2>0, <5>1, <6>1, FileDocsTyped, PutTyped
        <5> QED BY <2>0, <3>4, <5>1 DEF BulkInsert, FileRaises, storeVars, StoreTypeOK
      <4>3. TypeOK'
        BY <2>0, <4>1, <4>2 DEF TypeOK
      <4>4. Asked'
        BY <2>0, <4>1 DEF Asked, TypeOK, JobOf
      <4> QED BY <2>0, <4>1, <4>3, <4>4 DEF Typed, TypeOK, HoldsJob, BrokenInPool
    <3>5. CASE DeletesEnd(w)
      <4>1. /\ phase[w] = "delete" /\ phase' = [phase EXCEPT ![w] = "index"]
            /\ step' = [step EXCEPT ![w] = ToDo(PathsToIndex(JobOf(w)))]
            /\ UNCHANGED <<live, seen, unrefreshed, jobState, job, broken, orphans, cut, repo, faults>>
        BY <3>5 DEF DeletesEnd, storeVars
      <4>2. TypeOK'
        BY <2>0, <4>1, ToDoTyped DEF TypeOK, StoreTypeOK, Phases
      <4>3. Asked'
        <5>1. \A x \in Workers : JobOf(x)' = JobOf(x)
          BY <4>1 DEF JobOf
        <5>2. ASSUME NEW p \in Paths, step'[w][p] # "none"
              PROVE  step'[w][p] # "bulk" /\ p \in PathsToIndex(JobOf(w))
          BY <2>0, <4>1, <5>2, ToDoTyped DEF TypeOK
        <5>3. ASSUME NEW x \in Workers \ {w} PROVE step'[x] = step[x] /\ phase'[x] = phase[x]
          BY <2>0, <4>1 DEF TypeOK
        <5> QED BY <2>0, <4>1, <5>1, <5>2, <5>3 DEF Asked, TypeOK
      <4> QED BY <2>0, <4>1, <4>2, <4>3 DEF Typed, TypeOK, HoldsJob, BrokenInPool
    <3>6. CASE FilesEnd(w) \/ ListSources(w) \/ FindOrphans(w) \/ DeleteOrphans(w)
      <4>1. /\ UNCHANGED <<jobState, job, step, broken, repo, faults>>
            /\ StoreTypeOK' /\ phase[w] # "idle" /\ phase[w] # "delete" /\ ~broken[w]
            /\ \E f \in {"repo", "lookup", "unlink", "refresh"} : phase' = [phase EXCEPT ![w] = f]
            /\ orphans' \in [Workers -> SUBSET (Paths \X Versions)] /\ cut' \in BOOLEAN
        <5>1. CASE FilesEnd(w)
          BY <2>0, <5>1 DEF FilesEnd, storeVars, StoreTypeOK, TypeOK
        <5>2. CASE ListSources(w)
          <6>1. PICK B \in Buckets(Sources) : /\ orphans' = [orphans EXCEPT ![w] = B]
                                              /\ cut' = (B # Sources)
            BY <5>2 DEF ListSources
          <6>2. B \in SUBSET (Paths \X Versions)
            BY <2>0 DEF Buckets, Sources, StoreTypeOK, Document
          <6> QED BY <2>0, <5>2, <6>1, <6>2
                  DEF ListSources, storeVars, StoreTypeOK, TypeOK, BrokenInPool
        <5>3. CASE FindOrphans(w)
          BY <2>0, <5>3 DEF FindOrphans, storeVars, StoreTypeOK, TypeOK, BrokenInPool
        <5>4. CASE DeleteOrphans(w)
          BY <2>0, <5>4, DeleteTyped DEF DeleteOrphans, TypeOK, BrokenInPool
        <5> QED BY <3>6, <5>1, <5>2, <5>3, <5>4
      <4>2. \A p \in Paths : step[w][p] = "none"
        BY <2>0, <3>6 DEF Asked, FilesEnd, ListSources, FindOrphans, DeleteOrphans, Idle
      <4>3. TypeOK'
        BY <2>0, <4>1 DEF TypeOK, Phases
      <4>4. Asked' /\ HoldsJob' /\ BrokenInPool'
        BY <2>0, <4>1, <4>2 DEF Asked, HoldsJob, BrokenInPool, TypeOK, JobOf
      <4> QED BY <4>3, <4>4 DEF Typed
    <3>7. CASE IndexRepo(w)
      <4>1. phase[w] = "repo" /\ UNCHANGED <<live, seen, unrefreshed, cut, faults>>
            /\ repo' = JobOf(w).commit
        BY <3>7 DEF IndexRepo, storeVars
      <4>2. JobOf(w).commit \in Commits
        BY <4>1, JobOfTyped
      <4>3. CASE Release(w, "done")
        BY <2>0, <4>1, <4>2, <4>3, ReleaseTyped DEF StoreTypeOK, TypeOK, Typed
      <4>4. CASE /\ phase' = [phase EXCEPT ![w] = "prune"]
                 /\ UNCHANGED <<jobState, job, step, broken, orphans>>
        <5>1. \A p \in Paths : step[w][p] = "none"
          BY <2>0, <4>1 DEF Asked
        <5>2. Asked' /\ HoldsJob' /\ BrokenInPool'
          BY <2>0, <4>1, <4>4, <5>1 DEF Asked, HoldsJob, BrokenInPool, TypeOK, JobOf
        <5> QED BY <2>0, <4>1, <4>2, <4>4, <5>2 DEF Typed, TypeOK, StoreTypeOK, Phases
      <4> QED BY <3>7, <4>3, <4>4 DEF IndexRepo
    <3> QED BY <2>3, <3>1, <3>2, <3>3, <3>4, <3>5, <3>6, <3>7 DEF WorkerStep
  <2> QED BY <2>1, <2>2, <2>3, <2>4 DEF Next
<1> QED BY <1>1, <1>2, PTL DEF Spec

-----------------------------------------------------------------------------
(* One job at a time.                                                      *)

\* What runs of the queue need to provide: jobs of a branch one after the other, none of
\* them at work past its lease, and a refresh interval between them.
Environment == InOrder /\ LeasesHold /\ RefreshBetween

\* A job that runs has one worker, those before it have ended, those after it wait.
OneByOne ==
    /\ \A w \in Workers : job[w] # 0 => jobState[job[w]] = "running"
    /\ \A v, w \in Workers : job[v] = job[w] /\ job[v] # 0 => v = w
    /\ \A i, k \in JobIds : i < k /\ jobState[k] # "new" => jobState[i] \in {"done", "failed"}

\* A step of a worker takes a job, lets go of one, or leaves the jobs alone.
LEMMA JobSteps ==
    ASSUME Typed, NEW w \in Workers, WorkerStep(w)
    PROVE  \/ \E k \in JobIds : Claim(w, k)
           \/ \E outcome \in {"failed", "done"} : phase[w] # "idle" /\ Release(w, outcome)
           \/ Crash(w)
           \/ UNCHANGED <<job, jobState>>
  BY DEF WorkerStep, DeleteFile, BulkInsert, FileRaises, DeletesEnd, FilesEnd, PoolRaises,
         IndexRepo, ListSources, FindOrphans, DeleteOrphans, RebuildCommunities, JobRaises,
         Typed, BrokenInPool

\* A job that is taken again once its lease has run out works alone as long as executions
\* keep within their leases, and those before it are at an end.
THEOREM JobsOneByOne ==
    ASSUME InOrder, LeasesHold
    PROVE  Spec => []OneByOne
<1>1. Init => OneByOne
  BY DEF Init, OneByOne
<1>2. Typed /\ OneByOne /\ [Next]_vars => OneByOne'
  <2> SUFFICES ASSUME Typed, OneByOne, [Next]_vars PROVE OneByOne'
    OBVIOUS
  <2> USE DEF OneByOne
  <2>0. jobState \in [JobIds -> {"new", "running", "expired", "failed", "done"}]
        /\ job \in [Workers -> JobIds \cup {0}]
    BY DEF Typed, TypeOK
  <2>1. CASE UNCHANGED <<job, jobState>>
    BY <2>1
  <2>2. ASSUME NEW w \in Workers, NEW k \in JobIds, Claim(w, k) PROVE OneByOne'
    <3>1. /\ jobState[k] # "running"
          /\ \A i \in JobIds : (i < k => jobState[i] \in {"done", "failed"})
                               /\ (i > k => jobState[i] = "new")
          /\ jobState' = [jobState EXCEPT ![k] = "running"] /\ job' = [job EXCEPT ![w] = k]
      BY <2>2, InOrder DEF Claim, MayClaim
    <3>2. JobIds \subseteq Int
      BY DEF JobIds
    <3>3. \A v \in Workers : job'[v] # 0 => jobState'[job'[v]] = "running"
      BY <2>0, <3>1
    <3>4. \A u, v \in Workers : job'[u] = job'[v] /\ job'[u] # 0 => u = v
      BY <2>0, <3>1
    <3>5. \A i, l \in JobIds :
              i < l /\ jobState'[l] # "new" => jobState'[i] \in {"done", "failed"}
      BY <2>0, <3>1, <3>2
    <3> QED BY <3>3, <3>4, <3>5
  <2>4. ASSUME NEW w \in Workers, Crash(w) PROVE OneByOne'
    BY <2>0, <2>4 DEF Crash, Leave
  <2>5. ASSUME NEW k \in JobIds, LeaseExpires(k) PROVE OneByOne'
    <3>1. /\ jobState[k] = "running" /\ jobState' = [jobState EXCEPT ![k] = "expired"]
          /\ job' = job /\ \A w \in Workers : job[w] # k
      BY <2>5, LeasesHold DEF LeaseExpires
    <3> QED BY <2>0, <3>1
  <2>3. ASSUME NEW w \in Workers, NEW outcome \in {"failed", "done"},
               phase[w] # "idle", Release(w, outcome)
        PROVE  OneByOne'
    <3>1. job[w] \in JobIds /\ jobState[job[w]] = "running" /\ JobIds \subseteq Int
      BY <2>0, <2>3 DEF Typed, HoldsJob, JobIds
    <3>2. jobState' = [jobState EXCEPT ![job[w]] = outcome] /\ job' = [job EXCEPT ![w] = 0]
      BY <2>3 DEF Release, Leave
    <3>3. \A i \in JobIds : i > job[w] => jobState[i] = "new"
      BY <2>0, <3>1
    <3> QED BY <2>0, <3>1, <3>2, <3>3
  <2> QED BY <2>1, <2>2, <2>3, <2>4, <2>5, JobSteps DEF Next, RefreshInterval, jobVars, vars
<1> QED BY <1>1, <1>2, IndexingTyping, PTL DEF Spec

\* While a worker is in a job all others are idle, and all are when a job is claimed.
LEMMA WorksAlone ==
    ASSUME Typed, OneByOne, NEW w \in Workers, phase[w] # "idle", NEW x \in Workers \ {w}
    PROVE  phase[x] = "idle"
  <1> SUFFICES ASSUME phase[x] # "idle" PROVE FALSE
    OBVIOUS
  <1>1. job[w] \in JobIds /\ job[x] \in JobIds /\ job[w] # 0 /\ job[x] # 0
    BY JobOfTyped, JobListTyped
  <1>2. jobState[job[w]] = "running" /\ jobState[job[x]] = "running"
    BY <1>1 DEF OneByOne
  <1>3. job[w] < job[x] \/ job[x] < job[w] \/ job[w] = job[x]
    BY <1>1 DEF JobIds
  <1> QED BY <1>1, <1>2, <1>3 DEF OneByOne

\* Whoever claims a job finds all other workers idle.
LEMMA ClaimsAlone ==
    ASSUME Typed, OneByOne, InOrder, NEW k \in JobIds, MayClaim(k), NEW x \in Workers
    PROVE  phase[x] = "idle"
  <1> SUFFICES ASSUME phase[x] # "idle" PROVE FALSE
    OBVIOUS
  <1>1. job[x] \in JobIds /\ jobState[job[x]] = "running"
    BY JobOfTyped, JobListTyped DEF OneByOne
  <1>2. job[x] < k \/ job[x] > k \/ job[x] = k
    BY <1>1 DEF JobIds
  <1> QED BY <1>1, <1>2 DEF MayClaim

-----------------------------------------------------------------------------
(* What a job leaves of the documents of a path.                           *)

\* The kinds whose deletion a path still waits for.
Left(s) ==
    CASE s = "chunk"  -> Kinds
      [] s = "file"   -> {"file", "symbol", "edge"}
      [] s = "symbol" -> {"symbol", "edge"}
      [] s = "edge"   -> {"edge"}
      [] OTHER        -> {}

\* Nothing was written of a path since the job began, as long as the job works on it.
Untouched(w) ==
    \A p \in Paths, d \in live :
        d.path = p /\ (phase[w] = "delete" \/ step[w][p] # "none") => Settled(d)

\* Documents are deleted kind by kind.
Cleared(w) ==
    \A p \in Paths, d \in live :
        /\ d.path = p
        /\ \/ phase[w] = "delete" /\ p \in PathsToDelete(JobOf(w))
           \/ phase[w] = "index" /\ step[w][p] # "none"
        => d.kind \in Left(step[w][p])

Linked(e) == ChunkOf(e.path, e.version) \in live

\* An edge without a chunk is an old one, so that the deletion of orphans gets it as long
\* as the list of sources is complete.
Orphans(w) ==
    /\ phase[w] # "idle" /\ ~broken[w]
    /\ phase[w] \in {"lookup", "unlink", "refresh"} => ~cut
    => \A e \in live : e.kind = "edge" =>
            \/ Linked(e)
            \/ /\ phase[w] # "refresh" /\ Settled(e)
               /\ phase[w] \in {"lookup", "unlink"} => <<e.path, e.version>> \in orphans[w]

\* What pruning is about to delete has no chunk.
OrphansOnly(w) ==
    phase[w] = "unlink" => \A o \in orphans[w] : ChunkOf(o[1], o[2]) \notin live

\* Documents of a path, and those a commit has of it.
Of(p) == {d \in live : d.path = p}
Want(c, p) == IF Indexable(c, p) THEN FileDocs(c, p) ELSE {}

Before(k, p) == IF k = 1 THEN {} ELSE Want(JobList[k - 1].commit, p)
Touched(k) == PathsToDelete(JobList[k]) \cup PathsToIndex(JobList[k])

\* All jobs before the k-th are done, and none after it has started.
Turn(k) ==
    /\ \A i \in JobIds : i < k => jobState[i] = "done"
    /\ \A i \in JobIds : i > k => jobState[i] = "new"

\* The documents as the jobs up to the k-th leave them.
SnapshotOf(k) ==
    /\ \A p \in Paths \ Touched(k) : Of(p) = Before(k, p)
    /\ jobState[k] = "new" => \A p \in Paths : Of(p) = Before(k, p)
    /\ jobState[k] = "done" => /\ repo = JobList[k].commit
                              /\ \A p \in Paths : Of(p) = Want(JobList[k].commit, p)
    /\ \A w \in Workers : job[w] = k /\ ~broken[w] =>
         /\ phase[w] \in {"index", "repo", "prune", "lookup", "unlink", "refresh"} =>
              \A p \in Paths \cap Touched(k) :
                 step[w][p] = "none" => Of(p) = Want(JobList[k].commit, p)
         /\ phase[w] \in {"prune", "lookup", "unlink", "refresh"} => repo = JobList[k].commit

-----------------------------------------------------------------------------
(* Pruning.                                                                *)

\* The deletion of orphans deletes those edges that are settled.
LEMMA DeletesOrphans ==
    ASSUME Typed, NEW w \in Workers, DeleteOrphans(w)
    PROVE  /\ live' \subseteq live
           /\ \A d \in live : d \notin live' => d.kind = "edge" /\ <<d.path, d.version>> \in orphans[w]
           /\ \A d \in live : d.kind = "edge" /\ <<d.path, d.version>> \in orphans[w] /\ Settled(d)
                 => d \notin live'
  <1> DEFINE D == {d \in seen : d.kind = "edge" /\ <<d.path, d.version>> \in orphans[w]}
  <1>1. live' = {d \in live : Key(d) \notin Keys(D \cap seen) \ unrefreshed}
    BY DEF DeleteOrphans, DeleteByQuery
  <1>2. live \subseteq Document /\ D \subseteq Document
    BY DEF Typed, TypeOK, StoreTypeOK
  <1>3. ASSUME NEW d \in live, d \notin live'
        PROVE  d.kind = "edge" /\ <<d.path, d.version>> \in orphans[w]
    <2>1. PICK e \in D : Key(d) = Key(e)
      BY <1>1, <1>3 DEF Keys
    <2>2. Key(e) = e /\ Key(d).kind = d.kind /\ e.kind = "edge"
      BY <1>2, KeyParts
    <2>3. d = e
      BY <1>2, <2>1, <2>2, KeyParts
    <2> QED BY <2>3
  <1>4. ASSUME NEW d \in live, d.kind = "edge", <<d.path, d.version>> \in orphans[w], Settled(d)
        PROVE  d \notin live'
    BY <1>1, <1>4 DEF Keys, Settled
  <1>5. live' \subseteq live
    BY <1>1
  <1> HIDE DEF D
  <1> QED BY <1>3, <1>4, <1>5

\* Between the search for orphans and their deletion nobody writes a chunk.
THEOREM OrphansHaveNoChunk ==
    ASSUME InOrder, LeasesHold
    PROVE  Spec => [](\A w \in Workers : OrphansOnly(w))
<1>1. Init => \A w \in Workers : OrphansOnly(w)
  BY DEF Init, OrphansOnly
<1>2. Typed /\ OneByOne /\ (\A w \in Workers : OrphansOnly(w)) /\ [Next]_vars
        => (\A w \in Workers : OrphansOnly(w))'
  <2> SUFFICES ASSUME Typed, OneByOne, \A w \in Workers : OrphansOnly(w), [Next]_vars,
                      NEW x \in Workers, phase'[x] = "unlink", NEW o \in orphans'[x]
               PROVE  ChunkOf(o[1], o[2]) \notin live'
    BY DEF OrphansOnly
  <2>0. phase \in [Workers -> Phases]
        /\ orphans \in [Workers -> SUBSET (Paths \X Versions)]
    BY DEF Typed, TypeOK
  <2>1. CASE UNCHANGED <<live, phase, orphans>>
    BY <2>1 DEF OrphansOnly
  <2>2. CASE FindOrphans(x)
    <3>1. orphans' = [orphans EXCEPT ![x] = {q \in orphans[x] : ~FoundById(q[1], q[2])}]
          /\ live' = live
      BY <2>2 DEF FindOrphans, storeVars
    <3>2. ~FoundById(o[1], o[2])
      BY <2>0, <3>1
    <3> QED BY <3>1, <3>2 DEF FoundById
  <2>3. ASSUME NEW w \in Workers, WorkerStep(w), ~FindOrphans(x) PROVE ChunkOf(o[1], o[2]) \notin live'
    <3>1. phase[x] = "unlink" /\ orphans'[x] = orphans[x]
      BY <2>0, <2>3 DEF WorkerStep, Claim, DeleteFile, BulkInsert, FileRaises, DeletesEnd, FilesEnd,
            PoolRaises, IndexRepo, ListSources, FindOrphans, DeleteOrphans, RebuildCommunities,
            JobRaises, Crash, Release, Leave, Typed, BrokenInPool
    <3>2. w = x
      <4>1. CASE phase[w] = "idle"
        <5>1. PICK k \in JobIds : MayClaim(k)
          BY <2>3, <4>1, WorksAlone DEF WorkerStep, Claim, DeleteFile, BulkInsert, FileRaises,
             DeletesEnd, FilesEnd, PoolRaises, IndexRepo, ListSources, FindOrphans, DeleteOrphans,
             RebuildCommunities, JobRaises, Crash, Typed, BrokenInPool, Asked
        <5> QED BY <3>1, <5>1, ClaimsAlone, InOrder
      <4> QED BY <3>1, <4>1, WorksAlone
    <3>3. UNCHANGED live
      BY <2>0, <2>3, <3>1, <3>2 DEF WorkerStep, Claim, DeleteFile, BulkInsert, FileRaises, DeletesEnd,
         FilesEnd, PoolRaises, IndexRepo, ListSources, FindOrphans, DeleteOrphans, RebuildCommunities,
         JobRaises, Crash, Release, Leave, Typed, BrokenInPool, Asked, storeVars
    <3> QED BY <3>1, <3>3 DEF OrphansOnly
  <2>4. CASE RefreshInterval \/ \E k \in JobIds : LeaseExpires(k)
    BY <2>1, <2>4 DEF RefreshInterval, LeaseExpires, Refresh, jobVars, storeVars
  <2> QED BY <2>1, <2>2, <2>3, <2>4 DEF Next, vars, jobVars, storeVars
<1> QED BY <1>1, <1>2, IndexingTyping, JobsOneByOne, InOrder, LeasesHold, PTL DEF Spec

\* Edges are searched, their chunks read by id, and the edges then deleted by query, with
\* refreshes of either index in between: no edge goes whose chunk is there.
THEOREM PruningKeepsLinkedEdges ==
    ASSUME InOrder, LeasesHold
    PROVE  Spec => PruneKeepsLinkedEdges
<1>1. Typed /\ (\A w \in Workers : OrphansOnly(w)) /\ [Next]_vars =>
        (\A w \in Workers :
           phase[w] = "unlink" /\ phase'[w] = "refresh" =>
             \A d \in live : d.kind = "edge" /\ ChunkOf(d.path, d.version) \in live => d \in live')
  <2> SUFFICES ASSUME Typed, \A w \in Workers : OrphansOnly(w), [Next]_vars,
                      NEW w \in Workers, phase[w] = "unlink", phase'[w] = "refresh",
                      NEW d \in live, d.kind = "edge", ChunkOf(d.path, d.version) \in live
               PROVE  d \in live'
    OBVIOUS
  <2>1. DeleteOrphans(w)
    BY ZenonT(30) DEF Next, RefreshInterval, LeaseExpires, WorkerStep, Claim, DeleteFile, BulkInsert,
       FileRaises, DeletesEnd, FilesEnd, PoolRaises, IndexRepo, ListSources, FindOrphans, DeleteOrphans,
       RebuildCommunities, JobRaises, Crash, Release, Leave, Typed, TypeOK, BrokenInPool, vars, jobVars
  <2>2. <<d.path, d.version>> \notin orphans[w]
    BY DEF OrphansOnly
  <2> QED BY <2>1, <2>2, DeletesOrphans
<1> QED BY <1>1, IndexingTyping, OrphansHaveNoChunk, InOrder, LeasesHold, PTL
        DEF Spec, PruneKeepsLinkedEdges

-----------------------------------------------------------------------------
(* The documents of a path while a job works on it.                        *)

DocsOf(w) == Untouched(w) /\ Cleared(w) /\ Orphans(w)

\* Every phase but the deletions and the file pool asks for no path.
LEMMA NothingAsked ==
    ASSUME Asked, NEW w \in Workers, phase[w] \notin {"delete", "index"}, NEW p \in Paths
    PROVE  step[w][p] = "none"
  BY DEF Asked

\* What one file writes has the chunk of its edge.
LEMMA FileIsLinked ==
    ASSUME NEW c, NEW p, NEW d \in FileDocs(c, p)
    PROVE  ChunkOf(d.path, d.version) \in FileDocs(c, p) /\ d.path = p
  BY DEF FileDocs, ChunkOf, Kinds

\* A worker that does not wait for work leaves the others idle, as does a claim.
LEMMA OthersIdle ==
    ASSUME Typed, OneByOne, InOrder, NEW w \in Workers, WorkerStep(w), NEW x \in Workers \ {w}
    PROVE  phase[x] = "idle" /\ phase'[x] = "idle"
  <1>1. phase[x] = "idle"
    <2>1. CASE phase[w] = "idle"
      <3>1. PICK k \in JobIds : MayClaim(k)
        BY <2>1 DEF WorkerStep, Claim, DeleteFile, BulkInsert, FileRaises, DeletesEnd, FilesEnd,
           PoolRaises, IndexRepo, ListSources, FindOrphans, DeleteOrphans, RebuildCommunities,
           JobRaises, Crash, Typed, BrokenInPool, Asked
      <3> QED BY <3>1, ClaimsAlone
    <2> QED BY <2>1, WorksAlone
  <1>2. phase'[x] = phase[x]
    BY DEF WorkerStep, Claim, DeleteFile, BulkInsert, FileRaises, DeletesEnd, FilesEnd, PoolRaises,
       IndexRepo, ListSources, FindOrphans, DeleteOrphans, RebuildCommunities, JobRaises, Crash,
       Release, Leave,       Typed, TypeOK
  <1> QED BY <1>1, <1>2

\* A deletion leaves of its path the kinds behind it.
LEMMA DeletesKindByKind ==
    ASSUME Typed, NEW w \in Workers, DocsOf(w), NEW p \in Paths, DeleteFile(w, p)
    PROVE  /\ live' \subseteq live
           /\ \A d \in live : d.path # p \/ d.kind # step[w][p] => d \in live'
           /\ \A d \in live' : d.path = p => Settled(d) /\ d.kind \in Left(step[w][p]) \ {step[w][p]}
           /\ \A d \in live : d.path = p => Settled(d)
           /\ \A d \in live : Settled(d)' <=> Settled(d)
  <1>1. /\ step[w][p] \in Kinds /\ phase[w] \in {"delete", "index"}
        /\ DeleteByQuery({d \in seen : d.kind = step[w][p] /\ d.path = p})
        /\ UNCHANGED <<seen, unrefreshed>>
    BY DEF DeleteFile, QueryOf, DeleteByQuery
  <1>2. step[w][p] # "none"
    BY <1>1 DEF Kinds
  <1>3. phase[w] = "delete" => p \in PathsToDelete(JobOf(w))
    BY <1>2 DEF Typed, Asked
  <1>4. ASSUME NEW d \in live, d.path = p PROVE Settled(d) /\ d.kind \in Left(step[w][p])
    BY <1>1, <1>2, <1>3, <1>4 DEF DocsOf, Untouched, Cleared
  <1>5. StoreTypeOK
    BY DEF Typed, TypeOK
  <1>6. /\ live' \subseteq live
        /\ \A d \in live : d.kind # step[w][p] \/ d.path # p => d \in live'
        /\ \A d \in live : d.kind = step[w][p] /\ d.path = p /\ Settled(d) => d \notin live'
    BY <1>1, <1>5, DeletesTheSettled
  <1>7. \A d \in live : Settled(d)' <=> Settled(d)
    BY <1>1 DEF Settled
  <1> QED BY <1>4, <1>6, <1>7

\* A step of a file takes one kind off what is left of it.
LEMMA LeftAfter ==
    ASSUME NEW w, NEW p, step[w][p] \in Kinds
    PROVE  /\ After(w, p) \in {"file", "symbol", "edge"} =>
                Left(After(w, p)) = Left(step[w][p]) \ {step[w][p]}
           /\ After(w, p) \in {"none", "bulk"} =>
                Left(After(w, p)) = {} /\ Left(step[w][p]) \ {step[w][p]} = {}
           /\ After(w, p) \in {"file", "symbol", "edge", "none", "bulk"}
  BY DEF After, Left, Kinds

\* Between a claim and the end of its job: what the job has still to delete is settled
\* and goes kind by kind, and an edge that lost its chunk can be found and deleted.
THEOREM DocsInvariance ==
    ASSUME Environment
    PROVE  Spec => [](\A w \in Workers : DocsOf(w))
<1> USE Environment DEF Environment
<1>1. Init => \A w \in Workers : DocsOf(w)
  BY DEF Init, StoreInit, DocsOf, Untouched, Cleared, Orphans
<1>2. Typed /\ Typed' /\ OneByOne /\ (\A w \in Workers : DocsOf(w)) /\ [Next]_vars
        => (\A w \in Workers : DocsOf(w))'
  <2> SUFFICES ASSUME Typed, Typed', OneByOne, \A w \in Workers : DocsOf(w), [Next]_vars,
                      NEW x \in Workers
               PROVE  DocsOf(x)'
    OBVIOUS
  <2>0. /\ StoreTypeOK /\ Asked /\ Asked'
        /\ phase \in [Workers -> Phases]
        /\ step \in [Workers -> [Paths -> Kinds \cup {"none", "bulk"}]]
        /\ broken \in [Workers -> BOOLEAN]
        /\ orphans \in [Workers -> SUBSET (Paths \X Versions)]
    BY DEF Typed, TypeOK
  <2>1. CASE phase'[x] = "idle"
    <3>1. \A p \in Paths : step'[x][p] = "none"
      BY <2>0, <2>1 DEF Asked
    <3> QED BY <2>1, <3>1 DEF DocsOf, Untouched, Cleared, Orphans
  <2>2. CASE /\ UNCHANGED <<job, phase, step, broken, orphans, cut>>
             /\ live' = live /\ \A d \in live : Settled(d) => Settled(d)'
    BY <2>2 DEF DocsOf, Untouched, Cleared, Orphans, Linked, JobOf
  <2>3. CASE RefreshInterval
    BY <2>0, <2>2, <2>3, RefreshSettles DEF RefreshInterval, jobVars
  <2>4. CASE UNCHANGED vars \/ \E k \in JobIds : LeaseExpires(k)
    BY <2>2, <2>4 DEF vars, jobVars, storeVars, LeaseExpires, Settled
  <2>5. ASSUME WorkerStep(x), phase'[x] # "idle" PROVE DocsOf(x)'
    <3> SUFFICES Untouched(x)' /\ Cleared(x)' /\ Orphans(x)'
      BY DEF DocsOf
    <3> USE DEF DocsOf
    <3>1. ASSUME NEW k \in JobIds, Claim(x, k) PROVE Untouched(x)' /\ Cleared(x)' /\ Orphans(x)'
      <4>1. /\ Refreshed /\ phase'[x] = "delete" /\ job'[x] = k
            /\ step'[x] = ToDo(PathsToDelete(JobList[k])) /\ UNCHANGED <<live, seen, unrefreshed>>
        BY <2>0, <3>1 DEF Claim, MayClaim, storeVars, Typed, TypeOK
      <4>2. \A d \in live' : Settled(d)' /\ d.kind \in Kinds
        BY <2>0, <4>1 DEF Refreshed, Settled, StoreTypeOK, Document
      <4>3. \A p \in PathsToDelete(JobOf(x)') \cap Paths : step'[x][p] = "chunk"
        BY <4>1 DEF JobOf, ToDo
      <4>4. Cleared(x)'
        BY <4>1, <4>2, <4>3 DEF Cleared, Left
      <4> QED BY <4>1, <4>2, <4>4 DEF Untouched, Orphans
    <3>2. ASSUME NEW p \in Paths, DeleteFile(x, p) PROVE Untouched(x)' /\ Cleared(x)' /\ Orphans(x)'
      <4>1. /\ phase[x] \in {"delete", "index"} /\ step[x][p] \in Kinds
            /\ step' = [step EXCEPT ![x][p] = After(x, p)]
            /\ UNCHANGED <<job, phase, broken, orphans, cut>>
        BY <3>2 DEF DeleteFile
      <4>2. /\ step[x][p] # "none" /\ step'[x][p] = After(x, p)
            /\ \A q \in Paths \ {p} : step'[x][q] = step[x][q]
        BY <2>0, <4>1 DEF Kinds
      <4>3. /\ live' \subseteq live
            /\ \A d \in live : d.path # p \/ d.kind # step[x][p] => d \in live'
            /\ \A d \in live' : d.path = p => Settled(d) /\ d.kind \in Left(step[x][p]) \ {step[x][p]}
            /\ \A d \in live : d.path = p => Settled(d)
            /\ \A d \in live : Settled(d)' <=> Settled(d)
        BY <3>2, DeletesKindByKind
      <4>4. Untouched(x)'
        BY <4>1, <4>2, <4>3 DEF Untouched
      <4>5. Cleared(x)'
        <5>1. ASSUME NEW d \in live', d.path = p PROVE d.kind \in Left(step'[x][p])
          BY <4>1, <4>2, <4>3, <5>1, LeftAfter
        <5> QED BY <4>1, <4>2, <4>3, <5>1 DEF Cleared, JobOf
      <4>6. Orphans(x)'
        <5>1. ASSUME NEW e \in live', e.kind = "edge", ~broken[x] PROVE Linked(e)' \/ Settled(e)'
          <6>1. CASE Settled(e)
            BY <4>3, <6>1
          <6>2. CASE Linked(e)
            <7>1. ChunkOf(e.path, e.version).path = e.path
              BY DEF ChunkOf
            <7> QED BY <4>3, <6>2, <7>1 DEF Linked
          <6> QED BY <4>1, <4>3, <5>1, <6>1, <6>2 DEF Orphans
        <5> QED BY <4>1, <5>1 DEF Orphans
      <4> QED BY <4>4, <4>5, <4>6
    <3>3. ASSUME NEW p \in Paths, BulkInsert(x, p) \/ FileRaises(x, p)
          PROVE  Untouched(x)' /\ Cleared(x)' /\ Orphans(x)'
      <4>1. /\ phase[x] = "index" /\ step' = [step EXCEPT ![x][p] = "none"]
            /\ step[x][p] # "none" /\ UNCHANGED <<job, phase, orphans, cut>>
            /\ BulkInsert(x, p) => broken' = broken
            /\ FileRaises(x, p) => broken'[x]
        BY <2>0, <3>3 DEF BulkInsert, FileRaises, Asked
      <4>2. step'[x][p] = "none" /\ \A q \in Paths \ {p} : step'[x][q] = step[x][q]
        BY <2>0, <4>1
      <4>3. \E D \in SUBSET FileDocs(JobOf(x).commit, p) :
               /\ D \subseteq live' /\ live' \subseteq live \cup D /\ \A d \in D : d.path = p
               /\ BulkInsert(x, p) => D = FileDocs(JobOf(x).commit, p) /\ step[x][p] = "bulk"
               /\ \A d \in live : d.path # p => d \in live' /\ (Settled(d) => Settled(d)')
        <5>1. ASSUME step[x][p] = "bulk", NEW D \in SUBSET FileDocs(JobOf(x).commit, p), Put(D)
              PROVE  /\ D \subseteq live' /\ live' \subseteq live \cup D /\ \A d \in D : d.path = p
                     /\ \A d \in live : d.path # p => d \in live' /\ (Settled(d) => Settled(d)')
          <6>1. D \subseteq Document /\ \A d \in D : d.path = p
            BY <2>0, <5>1, FileDocsTyped DEF Asked
          <6> QED BY <2>0, <5>1, <6>1, PutsOneFile
        <5>2. CASE BulkInsert(x, p)
          BY <5>1, <5>2 DEF BulkInsert
        <5>3. CASE FileRaises(x, p) /\ step[x][p] = "bulk"
          <6>1. PICK D \in SUBSET FileDocs(JobOf(x).commit, p) : Put(D)
            BY <5>3 DEF FileRaises
          <6>2. ~BulkInsert(x, p)
            BY <5>3 DEF BulkInsert, FileRaises, Fault, Typed, TypeOK
          <6> QED BY <5>1, <5>3, <6>1, <6>2
        <5>4. CASE FileRaises(x, p) /\ step[x][p] # "bulk"
          <6>1. UNCHANGED <<live, seen, unrefreshed>> /\ ~BulkInsert(x, p)
            BY <5>4 DEF FileRaises, BulkInsert, storeVars
          <6> WITNESS {} \in SUBSET FileDocs(JobOf(x).commit, p)
          <6> QED BY <6>1 DEF Settled
        <5> QED BY <3>3, <5>2, <5>3, <5>4
      <4>4. PICK D \in SUBSET FileDocs(JobOf(x).commit, p) :
               /\ D \subseteq live' /\ live' \subseteq live \cup D /\ \A d \in D : d.path = p
               /\ BulkInsert(x, p) => D = FileDocs(JobOf(x).commit, p) /\ step[x][p] = "bulk"
               /\ \A d \in live : d.path # p => d \in live' /\ (Settled(d) => Settled(d)')
        BY <4>3
      <4>5. Untouched(x)'
        BY <4>1, <4>2, <4>4 DEF Untouched
      <4>6. Cleared(x)'
        BY <4>1, <4>2, <4>4 DEF Cleared, JobOf
      <4>7. Orphans(x)'
        <5>1. CASE FileRaises(x, p)
          BY <4>1, <5>1 DEF Orphans
        <5>2. CASE BulkInsert(x, p)
          <6>1. ASSUME NEW e \in live', e.kind = "edge", ~broken[x] PROVE Linked(e)' \/ Settled(e)'
            <7>1. CASE e \in D
              BY <4>4, <5>2, <7>1, FileIsLinked DEF Linked
            <7>2. CASE e \in live /\ e.path # p
              <8>1. ChunkOf(e.path, e.version).path = e.path
                BY DEF ChunkOf
              <8> QED BY <4>1, <4>4, <6>1, <7>2, <8>1 DEF Orphans, Linked
            <7>3. CASE e \in live /\ e.path = p
              BY <4>1, <4>4, <5>2, <7>3 DEF Cleared, Left
            <7> QED BY <4>4, <7>1, <7>2, <7>3
          <6> QED BY <4>1, <5>2, <6>1 DEF Orphans
        <5> QED BY <3>3, <5>1, <5>2
      <4> QED BY <4>5, <4>6, <4>7
    <3>4. CASE DeletesEnd(x)
      <4>1. /\ phase[x] = "delete" /\ phase'[x] = "index" /\ job'[x] = job[x]
            /\ step'[x] = ToDo(PathsToIndex(JobOf(x))) /\ broken' = broken
            /\ UNCHANGED <<live, seen, unrefreshed>>
        BY <2>0, <3>4 DEF DeletesEnd, storeVars
      <4>2. \A p \in Paths : step'[x][p] # "none" => step'[x][p] = "chunk"
        BY <4>1, ToDoTyped
      <4>3. Cleared(x)'
        BY <2>0, <4>1, <4>2 DEF Cleared, Left, StoreTypeOK, Document
      <4> QED BY <4>1, <4>3 DEF Untouched, Orphans, Settled, Linked
    <3>5. CASE FilesEnd(x) \/ (IndexRepo(x) /\ phase'[x] = "prune")
      <4>1. /\ phase[x] \in {"index", "repo"} /\ phase'[x] \in {"repo", "prune"}
            /\ step'[x] = step[x] /\ broken' = broken /\ UNCHANGED <<live, seen, unrefreshed>>
        BY <2>0, <3>5 DEF FilesEnd, IndexRepo, storeVars, Release, Leave, Phases
      <4>2. \A p \in Paths : step'[x][p] = "none"
        BY <2>0, <4>1 DEF Asked
      <4> QED BY <4>1, <4>2 DEF Untouched, Cleared, Orphans, Settled, Linked
    <3>6. CASE ListSources(x) \/ FindOrphans(x) \/ DeleteOrphans(x)
      <4>1. /\ phase[x] \in {"prune", "lookup", "unlink"}
            /\ phase'[x] \in {"lookup", "unlink", "refresh"}
            /\ ~broken[x] /\ UNCHANGED <<seen, unrefreshed, broken>>
        BY <2>0, <3>6
           DEF ListSources, FindOrphans, DeleteOrphans, storeVars, DeleteByQuery, Typed, BrokenInPool
      <4>2. \A p \in Paths : step'[x][p] = "none"
        BY <2>0, <4>1 DEF Asked
      <4>3. Orphans(x)'
        <5>0. CASE ListSources(x)
          <6>1. /\ orphans'[x] = Sources \/ cut'
                /\ live' = live /\ phase[x] = "prune" /\ phase'[x] = "lookup"
            BY <2>0, <5>0 DEF ListSources, storeVars
          <6>2. ASSUME NEW e \in live, e.kind = "edge", ~Linked(e)
                PROVE  Settled(e) /\ <<e.path, e.version>> \in Sources
            <7>1. Settled(e)
              BY <4>1, <6>1, <6>2 DEF Orphans
            <7> QED BY <6>2, <7>1 DEF Settled, Sources
          <6> QED BY <4>1, <6>1, <6>2 DEF Orphans, Linked, Settled
        <5>1. CASE FindOrphans(x)
          <6>1. /\ orphans'[x] = {o \in orphans[x] : ~FoundById(o[1], o[2])} /\ cut' = cut
                /\ live' = live /\ phase[x] = "lookup" /\ phase'[x] = "unlink"
            BY <2>0, <5>1 DEF FindOrphans, storeVars
          <6>2. ASSUME NEW e \in live, e.kind = "edge", ~Linked(e), ~cut
                PROVE  Settled(e) /\ <<e.path, e.version>> \in orphans'[x]
            <7>1. Settled(e) /\ <<e.path, e.version>> \in orphans[x]
              BY <4>1, <6>1, <6>2 DEF Orphans
            <7> QED BY <6>1, <6>2, <7>1 DEF Linked, FoundById
          <6> QED BY <4>1, <6>1, <6>2 DEF Orphans, Linked, Settled
        <5>2. CASE DeleteOrphans(x)
          <6>1. /\ phase[x] = "unlink" /\ phase'[x] = "refresh" /\ cut' = cut /\ live' \subseteq live
                /\ \A d \in live : d \notin live' => d.kind = "edge"
                /\ \A d \in live : d.kind = "edge" /\ <<d.path, d.version>> \in orphans[x] /\ Settled(d)
                      => d \notin live'
            BY <2>0, <5>2, DeletesOrphans DEF DeleteOrphans
          <6>2. ASSUME NEW e \in live', e.kind = "edge", ~cut PROVE Linked(e)'
            <7>1. Linked(e)
              BY <4>1, <6>1, <6>2 DEF Orphans
            <7>2. ChunkOf(e.path, e.version).kind = "chunk"
              BY DEF ChunkOf
            <7> QED BY <6>1, <7>1, <7>2 DEF Linked
          <6> QED BY <6>1, <6>2 DEF Orphans
        <5> QED BY <3>6, <5>0, <5>1, <5>2
      <4> QED BY <4>1, <4>2, <4>3 DEF Untouched, Cleared
    <3>7. ASSUME NEW outcome, Release(x, outcome) PROVE FALSE
      BY <2>0, <2>5, <3>7 DEF Release, Leave
    <3> QED
      BY <2>0, <2>5, <3>1, <3>2, <3>3, <3>4, <3>5, <3>6, <3>7
         DEF WorkerStep, PoolRaises, IndexRepo, RebuildCommunities, JobRaises, Crash, Leave
  <2>6. ASSUME NEW w \in Workers, WorkerStep(w) PROVE DocsOf(x)'
    BY <2>1, <2>5, <2>6, OthersIdle
  <2> QED BY <2>3, <2>4, <2>6 DEF Next
<1> QED BY <1>1, <1>2, IndexingTyping, JobsOneByOne, PTL DEF Spec

-----------------------------------------------------------------------------
(* Edges and chunks.                                                       *)

\* When pruning starts, every edge without a chunk is old enough to be found and deleted,
\* whatever earlier jobs of the branch left half written; and nothing writes after it.
THEOREM FullJobsLeaveNoOrphans ==
    ASSUME Environment
    PROVE  Spec => []NoOrphanEdges
<1> USE Environment DEF Environment
<1>1. Init => NoOrphanEdges
  BY DEF Init, NoOrphanEdges
<1>2. Typed /\ OneByOne /\ (\A w \in Workers : DocsOf(w)) /\ NoOrphanEdges /\ [Next]_vars
        => NoOrphanEdges'
  <2> SUFFICES ASSUME Typed, OneByOne, \A w \in Workers : DocsOf(w), NoOrphanEdges, [Next]_vars,
                      NEW k \in JobIds, JobList[k] \in FullJobs, jobState'[k] = "done", ~cut',
                      \A i \in JobIds : i > k => jobState'[i] = "new"
               PROVE  \A d \in live' : d.kind = "edge" => Linked(d)'
    BY DEF NoOrphanEdges, Linked
  <2>0. jobState \in [JobIds -> {"new", "running", "expired", "failed", "done"}]
    BY DEF Typed, TypeOK
  <2>1. CASE UNCHANGED <<live, jobState, cut>>
    BY <2>1 DEF NoOrphanEdges, Linked
  <2>3. ASSUME NEW j \in JobIds, LeaseExpires(j)
        PROVE  \A d \in live' : d.kind = "edge" => Linked(d)'
    <3>1. /\ jobState' = [jobState EXCEPT ![j] = "expired"] /\ jobState[j] = "running"
          /\ UNCHANGED <<live, cut>>
      BY <2>3 DEF LeaseExpires, storeVars
    <3>2. jobState[k] = "done" /\ \A i \in JobIds : i > k => jobState[i] = "new"
      BY <2>0, <3>1
    <3> QED BY <3>1, <3>2 DEF NoOrphanEdges, Linked
  <2>2. ASSUME NEW w \in Workers, WorkerStep(w)
        PROVE  \A d \in live' : d.kind = "edge" => Linked(d)'
    <3>1. CASE jobState[k] # "done"
      <4>1. PICK outcome \in {"failed", "done"} : phase[w] # "idle" /\ Release(w, outcome)
        BY <2>0, <2>2, <3>1, JobSteps DEF Claim, Crash
      <4>2. job[w] = k /\ outcome = "done"
        BY <2>0, <3>1, <4>1, JobOfTyped DEF Release
      <4>3. JobOf(w) \in FullJobs
        BY <4>2 DEF JobOf
      <4>4. phase[w] = "refresh" /\ live' = live /\ cut' = cut
        <5>1. jobState'[k] = "done" /\ jobState' # jobState
          BY <3>1
        <5>2. ~Crash(w) /\ ~JobRaises(w) /\ ~PoolRaises(w)
          BY <2>0, <4>2, <5>1 DEF Crash, JobRaises, PoolRaises, Release, Leave
        <5>3. RebuildCommunities(w)
          BY <2>2, <4>1, <4>3, <5>1, <5>2 DEF WorkerStep, Claim, DeleteFile, BulkInsert, FileRaises,
             DeletesEnd, FilesEnd, IndexRepo, ListSources, FindOrphans, DeleteOrphans
        <5> QED BY <5>3 DEF RebuildCommunities, Refresh, storeVars
      <4>5. ~broken[w]
        BY <4>4 DEF Typed, BrokenInPool
      <4> QED BY <4>4, <4>5 DEF DocsOf, Orphans, Linked
    <3>2. CASE jobState[k] = "done"
      <4>1. \A i \in JobIds : i > k => jobState[i] = "new"
        BY <2>0, <2>2, JobSteps, JobOfTyped DEF Claim, Release, Crash
      <4>2. phase[w] = "idle"
        <5> SUFFICES ASSUME phase[w] # "idle" PROVE FALSE
          OBVIOUS
        <5>1. job[w] \in JobIds /\ jobState[job[w]] = "running"
          BY JobOfTyped, JobListTyped DEF OneByOne
        <5>2. job[w] < k \/ job[w] > k \/ job[w] = k
          BY <5>1 DEF JobIds
        <5> QED BY <3>2, <4>1, <5>1, <5>2 DEF OneByOne
      <4>3. live' = live /\ cut' = cut
        BY <2>2, <4>2 DEF WorkerStep, Claim, DeleteFile, BulkInsert, FileRaises, DeletesEnd, FilesEnd,
           PoolRaises, IndexRepo, ListSources, FindOrphans, DeleteOrphans, RebuildCommunities,
           JobRaises, Crash, Typed, BrokenInPool, Asked, storeVars
      <4> QED BY <3>2, <4>1, <4>3 DEF NoOrphanEdges, Linked
    <3> QED BY <3>1, <3>2
  <2> QED BY <2>1, <2>2, <2>3 DEF Next, RefreshInterval, Refresh, jobVars, vars, storeVars
<1> QED BY <1>1, <1>2, IndexingTyping, JobsOneByOne, DocsInvariance, PTL DEF Spec

-----------------------------------------------------------------------------
(* Convergence.                                                            *)

\* What a job does not touch is the same in its commit and the one before.
LEMMA UntouchedStays ==
    ASSUME HistoryFollowed, NEW k \in JobIds, NEW p \in Paths \ Touched(k)
    PROVE  Before(k, p) = Want(JobList[k].commit, p)
  <1> DEFINE c == JobList[k].commit
  <1>1. CASE JobList[k] \in FullJobs
    <2>1. ~Indexable(c, p)
      BY <1>1 DEF Touched, PathsToIndex, RegularFiles, Indexable
    <2>2. k # 1 => ~Indexable(JobList[k - 1].commit, p)
      BY <1>1 DEF HistoryFollowed, JobIds, Touched, PathsToIndex
    <2> QED BY <2>1, <2>2 DEF Before, Want
  <1>2. CASE JobList[k] \notin FullJobs
    <2>1. k # 1 /\ JobList[k - 1].commit = c - 1
      BY <1>2 DEF HistoryFollowed, JobIds
    <2>2. p \notin Deleted(c) /\ p \notin RenamedFrom(c) /\ p \notin NewPaths(c)
      BY <1>2 DEF Touched, PathsToDelete, PathsToIndex
    <2>3. Content(c - 1, p) = Content(c, p)
      BY <2>2 DEF Deleted, NewPaths, Changed
    <2> HIDE DEF c
    <2> QED BY <2>1, <2>3 DEF Before, Want, Indexable, FileDocs, c
  <1> QED BY <1>1, <1>2

\* What a job deletes and does not index again, its commit does not have.
LEMMA DeletedForGood ==
    ASSUME HistoryFollowed, NEW k \in JobIds,
           NEW p \in Paths, p \in PathsToDelete(JobList[k]), p \notin PathsToIndex(JobList[k])
    PROVE  Want(JobList[k].commit, p) = {}
  <1> DEFINE c == JobList[k].commit
  <1>1. JobList[k] \notin FullJobs /\ RenamedFrom(c) \subseteq Changed(c) \cup RenamedTo(c)
    BY DEF PathsToDelete, HistoryFollowed
  <1>2. p \in Deleted(c) \cup RenamedFrom(c) \cup (NewPaths(c) \ RegularFiles(c))
        /\ p \notin NewPaths(c) \cap RegularFiles(c)
    BY <1>1 DEF PathsToDelete, PathsToIndex
  <1>3. Content(c, p) \notin Versions
    <2>1. CASE p \in NewPaths(c)
      BY <1>2, <2>1 DEF RegularFiles
    <2>2. CASE p \notin NewPaths(c)
      <3>1. Content(c, p) = Absent
        BY <1>1, <1>2, <2>2 DEF NewPaths, Deleted
      <3> QED BY <3>1, IndexingAssumption
    <2> QED BY <2>1, <2>2
  <1> QED BY <1>3 DEF Want, Indexable

SnapshotInv == \A k \in JobIds : Turn(k) => SnapshotOf(k)

\* A worker's job is the one whose turn it is.
LEMMA TurnOfRunner ==
    ASSUME Typed, OneByOne, NEW w \in Workers, phase[w] # "idle", NEW k \in JobIds, Turn(k)
    PROVE  k = job[w] /\ jobState[k] = "running" /\ \A x \in Workers : job[x] = k => x = w
  <1>1. job[w] \in JobIds /\ job[w] # 0 /\ jobState[job[w]] = "running"
    BY JobOfTyped, JobListTyped DEF OneByOne
  <1>2. job[w] < k \/ job[w] > k \/ job[w] = k
    BY <1>1 DEF JobIds
  <1> QED BY <1>1, <1>2 DEF Turn, OneByOne

\* Near the end of a job all paths are as its commit has them.
LEMMA EndsWithCommit ==
    ASSUME HistoryFollowed, Typed, NEW k \in JobIds, SnapshotOf(k),
           NEW w \in Workers, job[w] = k, phase[w] \in {"repo", "prune", "lookup", "unlink", "refresh"}
    PROVE  \A p \in Paths : Of(p) = Want(JobList[k].commit, p)
  <1>1. ~broken[w] /\ \A p \in Paths : step[w][p] = "none"
    BY NothingAsked DEF Typed, BrokenInPool
  <1>2. ASSUME NEW p \in Paths PROVE Of(p) = Want(JobList[k].commit, p)
    <2>1. CASE p \in Touched(k)
      BY <1>1, <2>1 DEF SnapshotOf
    <2>2. CASE p \notin Touched(k)
      BY <2>2, UntouchedStays DEF SnapshotOf
    <2> QED BY <2>1, <2>2
  <1> QED BY <1>2

\* Once it is a job's turn, paths it does not touch stay as the job before left them,
\* over all its attempts, and each path it is through with is as in its commit.
THEOREM SnapshotInvariance ==
    ASSUME Environment, HistoryFollowed
    PROVE  Spec => []SnapshotInv
<1> USE Environment, HistoryFollowed DEF Environment
<1>1. Init => SnapshotInv
  <2> SUFFICES ASSUME Init, NEW k \in JobIds, Turn(k) PROVE SnapshotOf(k)
    BY DEF SnapshotInv
  <2>1. k = 1
    <3> SUFFICES ASSUME k # 1 PROVE FALSE
      OBVIOUS
    <3>1. 1 \in JobIds /\ 1 < k
      BY DEF JobIds
    <3> QED BY <3>1 DEF Init, Turn
  <2> QED BY <2>1 DEF Init, StoreInit, SnapshotOf, Of, Before, JobIds
<1>2. Typed /\ OneByOne /\ (\A w \in Workers : DocsOf(w)) /\ (\A w \in Workers : OrphansOnly(w))
        /\ SnapshotInv /\ [Next]_vars
        => SnapshotInv'
  <2> SUFFICES ASSUME Typed, OneByOne, \A w \in Workers : DocsOf(w),
                      \A w \in Workers : OrphansOnly(w), SnapshotInv, [Next]_vars,
                      NEW k \in JobIds, Turn(k)'
               PROVE  SnapshotOf(k)'
    BY DEF SnapshotInv
  <2>0. /\ StoreTypeOK /\ Asked
        /\ jobState \in [JobIds -> {"new", "running", "expired", "failed", "done"}]
        /\ job \in [Workers -> JobIds \cup {0}]
        /\ phase \in [Workers -> Phases]
        /\ step \in [Workers -> [Paths -> Kinds \cup {"none", "bulk"}]]
        /\ broken \in [Workers -> BOOLEAN]
        /\ JobIds \subseteq Int /\ 0 \notin JobIds
        /\ \A i, j \in JobIds : i < j \/ i > j \/ i = j
    BY DEF Typed, TypeOK, JobIds
  <2>1. CASE UNCHANGED jobVars /\ live' = live
    BY <2>1 DEF SnapshotInv, SnapshotOf, Turn, Of, jobVars
  <2>2. CASE RefreshInterval \/ UNCHANGED vars
    BY <2>1, <2>2 DEF RefreshInterval, Refresh, vars, storeVars
  <2>3. ASSUME NEW w \in Workers, NEW j \in JobIds, Claim(w, j) PROVE SnapshotOf(k)'
    <3>1. /\ jobState[j] # "new" \/ jobState[j] = "new"
          /\ jobState' = [jobState EXCEPT ![j] = "running"] /\ job' = [job EXCEPT ![w] = j]
          /\ phase' = [phase EXCEPT ![w] = "delete"] /\ UNCHANGED <<live, repo>>
      BY <2>3 DEF Claim, storeVars
    <3>2. k = j
      BY <2>0, <3>1 DEF Turn
    <3>3. Turn(k)
      BY <2>0, <3>1, <3>2 DEF Turn
    <3>4. \A x \in Workers : job'[x] = k => x = w
      <4>1. \A x \in Workers : job[x] # k
        BY <2>0, <2>3, <3>2, ClaimsAlone DEF Claim, Typed, HoldsJob
      <4> QED BY <2>0, <3>1, <4>1
    <3> QED BY <2>0, <3>1, <3>2, <3>3, <3>4 DEF SnapshotInv, SnapshotOf, Of
  <2>9. ASSUME NEW j \in JobIds, LeaseExpires(j) PROVE SnapshotOf(k)'
    <3>1. /\ jobState[j] = "running" /\ jobState' = [jobState EXCEPT ![j] = "expired"]
          /\ UNCHANGED <<live, job, phase, step, broken, repo>>
      BY <2>9 DEF LeaseExpires, storeVars
    <3>2. Turn(k)
      BY <2>0, <3>1 DEF Turn
    <3>3. /\ jobState'[k] = "new" => jobState[k] = "new"
          /\ jobState'[k] = "done" => jobState[k] = "done"
      BY <2>0, <3>1
    <3>4. SnapshotOf(k)
      BY <3>2 DEF SnapshotInv
    <3> QED BY <3>1, <3>3, <3>4 DEF SnapshotOf, Of
  <2>10. ASSUME NEW w \in Workers, phase[w] # "idle", Leave(w), UNCHANGED <<live, jobState>>
         PROVE  SnapshotOf(k)'
    <3>1. Turn(k) /\ job' = [job EXCEPT ![w] = 0]
      BY <2>10 DEF Turn, Leave
    <3>2. k = job[w] /\ jobState[k] = "running" /\ \A x \in Workers : job[x] = k => x = w
      BY <2>10, <3>1, TurnOfRunner
    <3>3. \A x \in Workers : job'[x] # k
      BY <2>0, <3>1, <3>2
    <3>4. SnapshotOf(k)
      BY <3>1 DEF SnapshotInv
    <3> QED BY <2>10, <3>2, <3>3, <3>4 DEF SnapshotOf, Of
  <2>4. ASSUME NEW w \in Workers, phase[w] # "idle", Release(w, "failed"), UNCHANGED live
        PROVE  SnapshotOf(k)'
    <3>1. /\ jobState' = [jobState EXCEPT ![job[w]] = "failed"] /\ job' = [job EXCEPT ![w] = 0]
          /\ job[w] \in JobIds
      BY <2>4, JobOfTyped DEF Release, Leave
    <3>2. k = job[w]
      BY <2>0, <3>1 DEF Turn
    <3>3. Turn(k)
      BY <2>0, <3>1, <3>2 DEF Turn
    <3>4. \A x \in Workers : job'[x] # k
      BY <2>0, <2>4, <3>1, <3>2, <3>3, TurnOfRunner
    <3> QED BY <2>0, <2>4, <3>1, <3>2, <3>3, <3>4 DEF SnapshotInv, SnapshotOf, Of
  <2>5. ASSUME NEW w \in Workers, phase[w] \in {"repo", "refresh"}, Release(w, "done"), UNCHANGED live,
               repo' = IF phase[w] = "repo" THEN JobOf(w).commit ELSE repo
        PROVE  SnapshotOf(k)'
    <3>1. /\ jobState' = [jobState EXCEPT ![job[w]] = "done"] /\ job' = [job EXCEPT ![w] = 0]
          /\ job[w] \in JobIds /\ JobOf(w) = JobList[job[w]] /\ jobState[job[w]] = "running"
      BY <2>0, <2>5, JobOfTyped DEF Release, Leave, OneByOne
    <3>2. \A i \in JobIds : i > job[w] => jobState[i] = "new"
      BY <2>0, <3>1 DEF OneByOne
    <3>3. k = job[w] \/ k = job[w] + 1
      <4> DEFINE j == job[w]
      <4>1. ~(j > k)
        BY <2>0, <3>1 DEF Turn
      <4>2. ~(k > j + 1)
        <5> SUFFICES ASSUME k > j + 1 PROVE FALSE
          OBVIOUS
        <5>1. j + 1 \in JobIds /\ j + 1 > j /\ j + 1 < k /\ j + 1 # j
          BY <3>1 DEF JobIds
        <5>2. jobState[j + 1] = "new" /\ jobState'[j + 1] = jobState[j + 1]
          BY <2>0, <3>1, <3>2, <5>1
        <5> QED BY <5>1, <5>2 DEF Turn
      <4>3. j \in Int /\ k \in Int
        BY <2>0, <3>1
      <4> HIDE DEF j
      <4> QED BY <4>1, <4>2, <4>3 DEF j
    <3>4. Turn(job[w])
      <4>1. ASSUME NEW i \in JobIds, i < job[w]
            PROVE  jobState'[i] = "done" /\ jobState'[i] = jobState[i]
        <5>1. i < k /\ i # job[w]
          BY <3>1, <3>3, <4>1 DEF JobIds
        <5> QED BY <2>0, <3>1, <5>1 DEF Turn
      <4> QED BY <3>1, <3>2, <4>1 DEF Turn
    <3>5. SnapshotOf(job[w])
      BY <3>1, <3>4 DEF SnapshotInv
    <3>6. \A p \in Paths : Of(p)' = Want(JobList[job[w]].commit, p)
      BY <2>5, <3>1, <3>5, EndsWithCommit DEF Of
    <3>7. repo' = JobList[job[w]].commit
      <4>1. ~broken[w]
        BY <2>5 DEF Typed, BrokenInPool
      <4> QED BY <2>5, <3>1, <3>5, <4>1 DEF SnapshotOf
    <3>8. CASE k = job[w]
      <4>1. \A x \in Workers : job'[x] # k
        BY <2>0, <2>5, <3>1, <3>4, <3>8, TurnOfRunner
      <4> QED BY <2>0, <3>1, <3>6, <3>7, <3>8, <4>1, UntouchedStays DEF SnapshotOf
    <3>9. CASE k = job[w] + 1
      <4>0. k > job[w] /\ k # job[w] /\ k # 1 /\ job[w] = k - 1
        BY <3>1, <3>9 DEF JobIds
      <4>1. jobState'[k] = "new" /\ jobState[k] = "new"
        BY <2>0, <3>1, <3>2, <4>0
      <4>2. \A x \in Workers : job'[x] # k
        BY <2>0, <3>1, <4>1 DEF OneByOne
      <4>3. \A p \in Paths : Of(p)' = Before(k, p)
        BY <3>6, <4>0 DEF Before
      <4> QED BY <4>1, <4>2, <4>3 DEF SnapshotOf
    <3> QED BY <3>3, <3>8, <3>9
  <2>6. ASSUME NEW w \in Workers, phase[w] # "idle", UNCHANGED <<job, jobState>>,
               \A p \in Paths \ Touched(job[w]) : Of(p)' = Of(p),
               ~broken'[w] =>
                 /\ phase'[w] \in {"index", "repo", "prune", "lookup", "unlink", "refresh"} =>
                      \A p \in Paths \cap Touched(job[w]) :
                         step'[w][p] = "none" => Of(p)' = Want(JobList[job[w]].commit, p)
                 /\ phase'[w] \in {"prune", "lookup", "unlink", "refresh"} =>
                      repo' = JobList[job[w]].commit
        PROVE  SnapshotOf(k)'
    <3>1. Turn(k)
      BY <2>6 DEF Turn
    <3>2. k = job[w] /\ jobState[k] = "running" /\ \A x \in Workers : job[x] = k => x = w
      BY <2>6, <3>1, TurnOfRunner
    <3>3. SnapshotOf(k)
      BY <3>1 DEF SnapshotInv
    <3> QED BY <2>6, <3>2, <3>3 DEF SnapshotOf
  <2>7. ASSUME NEW w \in Workers, WorkerStep(w), Turn(k), phase[w] # "idle", UNCHANGED <<job, jobState>>
        PROVE  SnapshotOf(k)'
    <3>0. /\ k = job[w] /\ JobOf(w) = JobList[k] /\ SnapshotOf(k) /\ DocsOf(w) /\ OrphansOnly(w)
      BY <2>7, TurnOfRunner, JobOfTyped DEF SnapshotInv
    <3>1. ASSUME NEW p \in Paths, DeleteFile(w, p) PROVE SnapshotOf(k)'
      <4>1. /\ phase[w] \in {"delete", "index"} /\ step[w][p] \in Kinds
            /\ step' = [step EXCEPT ![w][p] = After(w, p)] /\ UNCHANGED <<phase, broken, repo>>
        BY <3>1 DEF DeleteFile
      <4>2. /\ step[w][p] # "none" /\ step'[w][p] = After(w, p)
            /\ \A q \in Paths \ {p} : step'[w][q] = step[w][q]
        BY <2>0, <4>1 DEF Kinds
      <4>3. p \in Touched(k)
        BY <2>0, <3>0, <4>2 DEF Asked, Touched
      <4>4. \A q \in Paths \ {p} : Of(q)' = Of(q)
        BY <3>0, <3>1, DeletesKindByKind DEF Of
      <4>5. ASSUME phase[w] = "index", step'[w][p] = "none"
            PROVE  Of(p)' = Want(JobList[k].commit, p)
        <5>0. After(w, p) = "none"
          BY <4>2, <4>5
        <5>1. ~Indexable(JobList[k].commit, p)
          BY <3>0, <4>1, <4>5, <5>0 DEF After, Replaces, Kinds
        <5>2. Of(p)' = {}
          BY <3>0, <3>1, <4>1, <5>0, DeletesKindByKind, LeftAfter DEF Of
        <5> QED BY <5>1, <5>2 DEF Want
      <4> QED BY <2>6, <2>7, <3>0, <4>1, <4>2, <4>3, <4>4, <4>5 DEF SnapshotOf
    <3>2. ASSUME NEW p \in Paths, BulkInsert(w, p) \/ FileRaises(w, p) PROVE SnapshotOf(k)'
      <4>1. /\ phase[w] = "index" /\ step' = [step EXCEPT ![w][p] = "none"] /\ step[w][p] # "none"
            /\ UNCHANGED <<phase, repo>>
            /\ broken'[w] \/ (BulkInsert(w, p) /\ broken' = broken)
        BY <2>0, <3>2 DEF BulkInsert, FileRaises, Asked
      <4>2. step'[w][p] = "none" /\ \A q \in Paths \ {p} : step'[w][q] = step[w][q]
        BY <2>0, <4>1
      <4>3. p \in Touched(k)
        BY <2>0, <3>0, <4>1 DEF Asked, Touched
      <4>4. ASSUME step[w][p] = "bulk", NEW D \in SUBSET FileDocs(JobOf(w).commit, p), Put(D)
            PROVE  /\ D \subseteq live' /\ live' \subseteq live \cup D /\ \A d \in D : d.path = p
                   /\ \A d \in live : d.path # p => d \in live'
        <5>1. D \subseteq Document /\ \A d \in D : d.path = p
          BY <2>0, <4>4, FileDocsTyped DEF Asked
        <5> QED BY <2>0, <4>4, <5>1, PutsOneFile
      <4>5. \A q \in Paths \ {p} : Of(q)' = Of(q)
        BY <3>2, <4>4 DEF Of, BulkInsert, FileRaises, storeVars
      <4>6. BulkInsert(w, p) => Of(p)' = Want(JobList[k].commit, p)
        <5> SUFFICES ASSUME BulkInsert(w, p) PROVE Of(p)' = Want(JobList[k].commit, p)
          OBVIOUS
        <5>1. step[w][p] = "bulk" /\ Put(FileDocs(JobList[k].commit, p))
          BY <3>0 DEF BulkInsert
        <5>2. Of(p) = {}
          BY <3>0, <4>1, <5>1 DEF DocsOf, Cleared, Left, Of
        <5>3. Indexable(JobList[k].commit, p)
          BY <2>0, <3>0, <5>1 DEF Asked
        <5> QED BY <3>0, <4>4, <5>1, <5>2, <5>3 DEF Of, Want
      <4> QED BY <2>6, <2>7, <3>0, <4>1, <4>2, <4>3, <4>5, <4>6 DEF SnapshotOf
    <3>3. CASE DeletesEnd(w)
      <4>1. /\ phase[w] = "delete" /\ phase'[w] = "index"
            /\ \A p \in Paths : step[w][p] = "none"
            /\ step'[w] = ToDo(PathsToIndex(JobList[k])) /\ live' = live
        BY <2>0, <3>0, <3>3 DEF DeletesEnd, storeVars, Idle
      <4>2. ASSUME NEW p \in Paths \cap Touched(k), step'[w][p] = "none"
            PROVE  Of(p)' = Want(JobList[k].commit, p)
        <5>1. p \notin PathsToIndex(JobList[k]) /\ p \in PathsToDelete(JobList[k])
          BY <4>1, <4>2 DEF ToDo, Touched
        <5>2. Of(p) = {}
          BY <3>0, <4>1, <5>1 DEF DocsOf, Cleared, Left, Of
        <5> QED BY <4>1, <5>1, <5>2, DeletedForGood DEF Of
      <4>3. phase'[w] \notin {"prune", "lookup", "unlink", "refresh"}
        BY <4>1
      <4>4. \A p \in Paths \ Touched(job[w]) : Of(p)' = Of(p)
        BY <4>1 DEF Of
      <4>5. \A p \in Paths \cap Touched(job[w]) :
               step'[w][p] = "none" => Of(p)' = Want(JobList[job[w]].commit, p)
        BY <3>0, <4>2
      <4> QED BY <2>6, <2>7, <4>3, <4>4, <4>5
    <3>4. CASE FilesEnd(w) \/ IndexRepo(w) \/ ListSources(w) \/ FindOrphans(w)
      <4>1. /\ live' = live /\ step' = step /\ broken' = broken
            /\ phase[w] \in {"index", "repo", "prune", "lookup"}
            /\ phase'[w] \in {"repo", "prune", "lookup", "unlink"}
            /\ phase'[w] # "repo" => \/ repo' = JobList[k].commit
                                     \/ phase[w] \in {"prune", "lookup"} /\ repo' = repo
        <5>1. CASE FilesEnd(w)
          BY <2>0, <5>1 DEF FilesEnd, storeVars
        <5>2. CASE IndexRepo(w)
          BY <2>0, <2>7, <3>0, <5>2 DEF IndexRepo, Release, Leave, storeVars
        <5>3. CASE ListSources(w)
          BY <2>0, <5>3 DEF ListSources, storeVars
        <5>4. CASE FindOrphans(w)
          BY <2>0, <5>4 DEF FindOrphans, storeVars
        <5> QED BY <3>4, <5>1, <5>2, <5>3, <5>4
      <4> QED BY <2>6, <2>7, <3>0, <4>1 DEF SnapshotOf, Of
    <3>5. CASE DeleteOrphans(w)
      <4>1. /\ phase[w] = "unlink" /\ phase'[w] = "refresh" /\ UNCHANGED <<step, broken, repo>>
        BY <2>0, <3>5 DEF DeleteOrphans
      <4>2. live' = live
        <5>1. ASSUME NEW d \in live, d \notin live' PROVE FALSE
          <6>1. <<d.path, d.version>> \in orphans[w] /\ d.path \in Paths
            BY <2>0, <3>5, <5>1, DeletesOrphans DEF StoreTypeOK, Document
          <6>2. ChunkOf(d.path, d.version) \notin live
            BY <3>0, <4>1, <6>1 DEF OrphansOnly
          <6>3. d \in Of(d.path) /\ Of(d.path) = Want(JobList[k].commit, d.path)
            BY <3>0, <4>1, <6>1, EndsWithCommit DEF Of
          <6>4. d \in FileDocs(JobList[k].commit, d.path)
                /\ Of(d.path) = FileDocs(JobList[k].commit, d.path)
            BY <6>3 DEF Want
          <6>5. ChunkOf(d.path, d.version) \in Of(d.path)
            BY <6>4, FileIsLinked
          <6> QED BY <6>2, <6>5 DEF Of
        <5> QED BY <3>5, <5>1, DeletesOrphans
      <4> QED BY <2>6, <2>7, <3>0, <4>1, <4>2 DEF SnapshotOf, Of
    <3>6. ~Leave(w)
      BY <2>0, <2>7, JobOfTyped DEF Leave
    <3> QED BY <2>7, <3>1, <3>2, <3>3, <3>4, <3>5, <3>6
            DEF WorkerStep, Claim, PoolRaises, RebuildCommunities, JobRaises, Crash, Release
  <2>8. ASSUME NEW w \in Workers, WorkerStep(w) PROVE SnapshotOf(k)'
    <3>1. CASE phase[w] = "idle"
      BY <2>3, <2>8, <3>1 DEF WorkerStep, DeleteFile, BulkInsert, FileRaises, DeletesEnd, FilesEnd,
         PoolRaises, IndexRepo, ListSources, FindOrphans, DeleteOrphans, RebuildCommunities,
         JobRaises, Crash, Typed, BrokenInPool, Asked
    <3>2. CASE phase[w] # "idle" /\ UNCHANGED <<job, jobState>>
      BY <2>7, <2>8, <3>2 DEF Turn
    <3>3. CASE Crash(w) \/ JobRaises(w) \/ PoolRaises(w)
      <4>1. CASE Crash(w)
        BY <2>10, <4>1 DEF Crash, storeVars
      <4>2. CASE JobRaises(w)
        BY <2>4, <4>2 DEF JobRaises, storeVars
      <4>3. CASE PoolRaises(w)
        BY <2>4, <4>3 DEF PoolRaises, storeVars, Typed, BrokenInPool
      <4> QED BY <3>3, <4>1, <4>2, <4>3
    <3>4. CASE IndexRepo(w) /\ Release(w, "done")
      BY <2>5, <3>4 DEF IndexRepo, storeVars
    <3>5. CASE RebuildCommunities(w)
      BY <2>5, <3>5 DEF RebuildCommunities, Refresh, storeVars
    <3> QED BY <2>8, <3>1, <3>2, <3>3, <3>4, <3>5
            DEF WorkerStep, Claim, DeleteFile, BulkInsert, FileRaises, DeletesEnd, FilesEnd, IndexRepo,
                ListSources, FindOrphans, DeleteOrphans
  <2> QED BY <2>2, <2>8, <2>9 DEF Next
<1> QED BY <1>1, <1>2, IndexingTyping, JobsOneByOne, DocsInvariance, OrphansHaveNoChunk, PTL DEF Spec

\* Exceptions, crashes and retries at any request: once the jobs up to one of the branch
\* are done, the index is the snapshot of its commit.
THEOREM JobsConverge ==
    ASSUME Environment, HistoryFollowed
    PROVE  Spec => []SnapshotConverges
<1>1. Typed /\ SnapshotInv => SnapshotConverges
  <2> SUFFICES ASSUME Typed, SnapshotInv, NEW k \in JobIds, SettledAt(k)
               PROVE  live = Snapshot(JobList[k].commit) /\ repo = JobList[k].commit
    BY DEF SnapshotConverges
  <2>1. JobIds \subseteq Int /\ Turn(k) /\ jobState[k] = "done"
    BY DEF SettledAt, Turn, JobIds
  <2>2. repo = JobList[k].commit /\ \A p \in Paths : Of(p) = Want(JobList[k].commit, p)
    BY <2>1 DEF SnapshotInv, SnapshotOf
  <2>3. \A d \in live : d.path \in Paths /\ d \in Of(d.path)
    BY DEF Typed, TypeOK, StoreTypeOK, Document, Of
  <2>4. \A d \in live : d \in Snapshot(JobList[k].commit)
    BY <2>2, <2>3 DEF Want, Snapshot
  <2>5. \A d \in Snapshot(JobList[k].commit) : d \in live
    <3> TAKE d \in Snapshot(JobList[k].commit)
    <3>1. PICK p \in Paths : Indexable(JobList[k].commit, p) /\ d \in FileDocs(JobList[k].commit, p)
      BY DEF Snapshot
    <3>2. d \in Of(p)
      BY <2>2, <3>1 DEF Want
    <3> QED BY <3>2 DEF Of
  <2> QED BY <2>2, <2>4, <2>5
<1> QED BY <1>1, IndexingTyping, SnapshotInvariance, PTL
=============================================================================
