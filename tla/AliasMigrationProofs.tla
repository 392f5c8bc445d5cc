------------------------ MODULE AliasMigrationProofs ------------------------
(* Proofs about AliasMigration, for every set of documents, versions and    *)
(* processes that start up, and every number of writes, tasks and crashes.  *)
EXTENDS AliasMigration, FiniteSetTheorems, TLAPS

\* What the runbook asks for: one migration at a time, from the version the application
\* is deployed with, no writes while it goes on, and no competing reindex, which a task
\* that outlives its command would be.
OneMigration ==
    /\ ~LiveTraffic /\ TasksAwaited
    /\ \A p, q \in Operators : p = q
    /\ \A p, q \in Starters : Version[p] = Version[q]

-----------------------------------------------------------------------------
(* Type correctness.                                                        *)

\* The backing is there before the alias is asked for.
ExistsBefore ==
    \A p \in Processes : pc[p] \in {"alias", "put", "copy", "swap"} => Version[p] \in exists

\* A process goes on with the task it waits for, or with one that has ended.
Numbered ==
    /\ \A t \in tasks : t.nr <= started
    /\ \A t, u \in tasks : t.nr = u.nr => t = u

Typed == TypeOK /\ ExistsBefore /\ Numbered

\* The copy that a migration starts.
LEMMA StartTyped ==
    ASSUME Typed, NEW p \in Processes, StartTask(p)
    PROVE  /\ tasks' \subseteq Task /\ started' \in 0..MaxTasks
           /\ awaits' = [awaits EXCEPT ![p] = started'] /\ awaits' \in [Processes -> 0..MaxTasks]
           /\ Numbered'
           /\ \E v \in alias :
                tasks' = tasks \cup {[nr |-> started', dest |-> Version[p], left |-> searchable[v]]}
  <1>1. PICK v \in alias :
          tasks' = tasks \cup {[nr |-> started + 1, dest |-> Version[p], left |-> searchable[v]]}
    BY DEF StartTask
  <1>2. /\ started' = started + 1 /\ started' \in 1..MaxTasks /\ started \in Nat
        /\ awaits' = [awaits EXCEPT ![p] = started']
    BY AliasAssumption DEF StartTask, Typed, TypeOK
  <1>3. [nr |-> started', dest |-> Version[p], left |-> searchable[v]] \in Task
    BY <1>2, AliasAssumption DEF Task, Typed, TypeOK, Processes
  <1>4. awaits' \in [Processes -> 0..MaxTasks]
    BY <1>2 DEF Typed, TypeOK
  <1>5. Numbered'
    BY <1>1, <1>2 DEF Numbered, Typed, TypeOK, Task
  <1> QED BY <1>1, <1>2, <1>3, <1>4, <1>5 DEF Typed, TypeOK

\* Every request of a start-up, a migration or the application, and every step of a copy,
\* keeps each variable in its type; in particular the alias points at existing indices only.
THEOREM AliasTyping == Spec => []Typed
<1> USE AliasAssumption
<1>1. Init => Typed
  <2> SUFFICES ASSUME Init PROVE Typed
    OBVIOUS
  <2>1. None \in [Docs -> Nat]
    BY DEF None
  <2>2. 0 \in 0..MaxWrites /\ 0 \in 0..MaxTasks
    OBVIOUS
  <2>3. ExistsBefore /\ Numbered
    BY DEF Init, ExistsBefore, Numbered
  <2> QED BY <2>1, <2>2, <2>3 DEF Init, Typed, TypeOK, Places
<1>2. Typed /\ [Next]_vars => Typed'
  <2> SUFFICES ASSUME Typed, [Next]_vars PROVE Typed'
    OBVIOUS
  <2>0. writes \in Nat /\ writes + 1 \in Nat
    BY DEF Typed, TypeOK
  <2> USE DEF Typed, TypeOK, ExistsBefore, Goto, serverVars, Places
  \* Steps of the server or of the application leave the processes where they are.
  <2>4. ASSUME tasks' \subseteq tasks, UNCHANGED <<exists, alias, started, awaits, olds, migrating>>,
               \E S \in SUBSET Processes : pc' = [p \in Processes |-> IF p \in S THEN "idle" ELSE pc[p]],
               backing' \in [Versions -> [Docs -> Nat]], searchable' \in [Versions -> [Docs -> Nat]],
               writes' \in 0..MaxWrites
        PROVE  Typed'
    <3>1. Numbered'
      BY <2>4 DEF Numbered
    <3> QED BY <2>4, <3>1
  <2>1. ASSUME NEW p \in Processes, ProcessStep(p) PROVE Typed'
    <3>0. Version[p] \in Versions
      BY DEF Processes
    <3>1. CASE StartEnsure(p)
      BY <3>1 DEF StartEnsure, Numbered
    <3>2. CASE StartReindex(p)
      BY <3>2 DEF StartReindex, Numbered
    <3>3. CASE CheckBacking(p)
      BY <3>3 DEF CheckBacking, BackingExists, Numbered
    <3>4. CASE CreateBacking(p)
      BY <3>0, <3>4 DEF CreateBacking, Numbered
    <3>5. CASE CheckAlias(p)
      <4>1. pc' \in [Processes -> Places] /\ ExistsBefore' /\ migrating' \in BOOLEAN
        BY <3>5 DEF CheckAlias
      <4>2. olds' \in [Processes -> SUBSET Versions]
        BY <3>5 DEF CheckAlias
      <4>3. /\ tasks' \subseteq Task /\ started' \in 0..MaxTasks
            /\ awaits' \in [Processes -> 0..MaxTasks] /\ Numbered'
        <5>1. CASE StartTask(p)
          BY <5>1, StartTyped
        <5>2. CASE UNCHANGED <<tasks, started, awaits>>
          BY <5>2 DEF Numbered
        <5> QED BY <3>5, <5>1, <5>2 DEF CheckAlias
      <4> QED BY <3>5, <4>1, <4>2, <4>3 DEF CheckAlias
    <3>6. CASE PutAlias(p)
      BY <3>6 DEF PutAlias, Numbered
    <3>7. CASE EndCopy(p)
      BY <3>7 DEF EndCopy, Numbered
    <3>8. CASE SwapAlias(p)
      <4>1. Version[p] \in exists
        BY <3>8 DEF SwapAlias
      <4>2. alias' \subseteq exists /\ olds' \in [Processes -> SUBSET Versions]
        BY <3>8, <4>1 DEF SwapAlias, MoveAlias
      <4>3. pc' \in [Processes -> Places] /\ migrating' \in BOOLEAN /\ ExistsBefore'
        BY <3>8 DEF SwapAlias
      <4> QED BY <3>8, <4>2, <4>3 DEF SwapAlias, Numbered
    <3>9. CASE Crash(p)
      <4>1. 0 \in 0..MaxTasks
        OBVIOUS
      <4> QED BY <3>9, <4>1 DEF Crash, Numbered
    <3> QED BY <2>1, <3>1, <3>2, <3>3, <3>4, <3>5, <3>6, <3>7, <3>8, <3>9 DEF ProcessStep
  <2>2. ASSUME NEW t \in tasks, CopyDoc(t) PROVE Typed'
    <3>1. PICK d \in Docs :
            /\ backing' = [backing EXCEPT ![t.dest][d] = t.left[d]]
            /\ tasks' = (tasks \ {t}) \cup {[t EXCEPT !.left[d] = 0]}
      BY <2>2 DEF CopyDoc
    <3>2. t \in Task /\ t.left \in [Docs -> Nat] /\ t.left[d] \in Nat
      BY DEF Task
    <3>3. [t EXCEPT !.left[d] = 0] \in Task /\ [t EXCEPT !.left[d] = 0].nr = t.nr
      BY <3>2 DEF Task
    <3>4. backing' \in [Versions -> [Docs -> Nat]]
      BY <3>1, <3>2 DEF Task
    <3>6. UNCHANGED <<exists, alias, pc, started, awaits, olds, migrating, writes, searchable>>
      BY <2>2 DEF CopyDoc
    <3>5. Numbered'
      <4> DEFINE u == [t EXCEPT !.left[d] = 0]
      <4>1. tasks' = (tasks \ {t}) \cup {u} /\ u.nr = t.nr /\ started' = started
        BY <3>1, <3>3, <3>6
      <4>2. Numbered
        OBVIOUS
      <4> HIDE DEF u
      <4> QED BY <4>1, <4>2, Zenon DEF Numbered
    <3>7. tasks' \subseteq Task
      BY <3>1, <3>3
    <3> HIDE DEF Task
    <3> QED BY <3>4, <3>5, <3>6, <3>7
  <2>3. ASSUME NEW v \in Versions, Refresh(v) PROVE searchable' \in [Versions -> [Docs -> Nat]]
    BY <2>3 DEF Refresh
  <2>5. ASSUME NEW t \in tasks, EndTask(t) PROVE Typed'
    <3>1. t.dest \in Versions
      BY DEF Task
    <3>2. searchable' \in [Versions -> [Docs -> Nat]]
      BY <2>3, <2>5, <3>1 DEF EndTask, RefreshDest
    <3>3. pc' = [p \in Processes |-> IF p \in {} THEN "idle" ELSE pc[p]]
      BY <2>5 DEF EndTask
    <3> QED BY <2>4, <2>5, <3>2, <3>3 DEF EndTask
  <2>6. ASSUME NEW t \in tasks, TaskFails(t) PROVE Typed'
    <3> DEFINE S == {p \in Processes : pc[p] = "copy" /\ awaits[p] = t.nr}
    <3>1. S \in SUBSET Processes /\ pc' = [p \in Processes |-> IF p \in S THEN "idle" ELSE pc[p]]
      BY <2>6 DEF TaskFails
    <3> HIDE DEF S
    <3> QED BY <2>4, <2>6, <3>1 DEF TaskFails
  <2>7. ASSUME NEW d \in Docs, WriteThroughAlias(d) PROVE Typed'
    <3>1. PICK v \in alias, n \in {0, writes + 1} : backing' = [backing EXCEPT ![v][d] = n]
      BY <2>7 DEF WriteThroughAlias
    <3>2. backing' \in [Versions -> [Docs -> Nat]]
      BY <2>0, <3>1
    <3>3. writes' \in 0..MaxWrites
      BY <2>0, <2>7 DEF WriteThroughAlias
    <3>4. pc' = [p \in Processes |-> IF p \in {} THEN "idle" ELSE pc[p]]
      BY <2>7 DEF WriteThroughAlias
    <3> QED BY <2>4, <2>7, <3>2, <3>3, <3>4 DEF WriteThroughAlias
  <2>8. ASSUME NEW v \in Versions, RefreshInterval(v) PROVE Typed'
    <3>1. pc' = [p \in Processes |-> IF p \in {} THEN "idle" ELSE pc[p]]
      BY <2>8 DEF RefreshInterval
    <3> QED BY <2>3, <2>4, <2>8, <3>1 DEF RefreshInterval
  <2>9. CASE UNCHANGED vars
    BY <2>9 DEF vars, Numbered
  <2> QED BY <2>1, <2>2, <2>5, <2>6, <2>7, <2>8, <2>9 DEF Next
<1> QED BY <1>1, <1>2, PTL DEF Spec

-----------------------------------------------------------------------------
(* One backing behind the alias.                                            *)

Single == alias # {} => \E v \in Versions : alias = {v}

\* Who is about to put the alias found none, and only start-ups do.
Putting == \A q \in Processes : pc[q] = "put" => q \in Starters /\ alias \subseteq {Version[q]}

\* While a migration goes on, or waits to be run again, nobody is about to put the alias.
Migrating ==
    /\ migrating => alias # {} /\ \A q \in Processes : pc[q] # "put"
    /\ \A p \in Operators : pc[p] # "idle" => migrating
    /\ tasks # {} => migrating

\* A migration moves the alias from what it found it on.
Moving ==
    \A p \in Processes :
        /\ pc[p] \in {"copy", "swap"} => p \in Operators
        /\ pc[p] = "copy" => olds[p] = alias /\ alias # {Version[p]}
        /\ pc[p] = "swap" => \/ olds[p] = alias /\ alias # {Version[p]}
                             \/ olds[p] = {} /\ alias = {Version[p]}

\* The tasks that go on copy to a version that is not served yet, and a migration waits
\* for them.
Copiers ==
    /\ \A t \in tasks : t.dest \notin alias /\ \A p \in Operators : t.dest = Version[p]
    /\ \A p \in Operators :
         /\ pc[p] \in {"check", "create", "alias", "swap"} => tasks = {}
         /\ pc[p] = "copy" => \A t \in tasks : t.nr = awaits[p]

AliasInv == Single /\ Putting /\ Migrating /\ Moving /\ Copiers

\* Start-ups race with each other, migrations are cut off and run again while the server
\* may still copy: the alias never has two backings, and the one it has is not copied to.
THEOREM AliasInvariance ==
    ASSUME OneMigration
    PROVE  Spec => []AliasInv
<1> USE AliasAssumption, OneMigration DEF OneMigration
<1>1. Init => AliasInv
  BY DEF Init, AliasInv, Single, Putting, Migrating, Moving, Copiers, Processes
<1>2. Typed /\ AliasInv /\ [Next]_vars => AliasInv'
  <2> SUFFICES ASSUME Typed, AliasInv, [Next]_vars PROVE AliasInv'
    OBVIOUS
  <2>0. /\ pc \in [Processes -> Places] /\ awaits \in [Processes -> 0..MaxTasks]
        /\ olds \in [Processes -> SUBSET Versions] /\ alias \subseteq Versions
        /\ Processes = Starters \cup Operators /\ Starters \cap Operators = {}
        /\ \A p \in Processes : Version[p] \in Versions
    BY DEF Typed, TypeOK, Processes
  <2> USE DEF AliasInv, Single, Putting, Migrating, Moving, Goto, serverVars, Places
  <2>1. ASSUME NEW p \in Processes, ProcessStep(p) PROVE AliasInv'
    <3>1. CASE StartEnsure(p)
      BY <2>0, <3>1 DEF StartEnsure, Copiers
    <3>2. CASE StartReindex(p)
      BY <2>0, <3>2 DEF StartReindex, Copiers
    <3>3. CASE CheckBacking(p) \/ CreateBacking(p)
      <4>1. /\ UNCHANGED <<tasks, awaits, alias, olds, migrating>> /\ pc[p] \in {"check", "create"}
            /\ \E where \in {"idle", "create", "alias"} : pc' = [pc EXCEPT ![p] = where]
        BY <3>3 DEF CheckBacking, CreateBacking
      <4> QED BY <2>0, <4>1 DEF Copiers
    <3>4. CASE CheckAlias(p)
      <4>1. CASE alias = {}
        BY <2>0, <3>4, <4>1 DEF CheckAlias, Copiers
      <4>2. CASE alias # {} /\ p \in Operators /\ Stale(p)
        <5>1. PICK v \in Versions : alias = {v} /\ v # Version[p]
          BY <4>2 DEF Stale
        <5>2. /\ pc' = [pc EXCEPT ![p] = "copy"] /\ UNCHANGED <<alias, migrating>>
              /\ olds' = [olds EXCEPT ![p] = alias] /\ StartTask(p) /\ pc[p] = "alias"
          BY <3>4, <4>2 DEF CheckAlias
        <5>3. tasks = {} /\ migrating
          BY <4>2, <5>2 DEF Copiers
        <5>4. PICK u \in alias :
                tasks' = {[nr |-> started', dest |-> Version[p], left |-> searchable[u]]}
          BY <5>2, <5>3, StartTyped
        <5>5. awaits'[p] = started' /\ pc'[p] = "copy" /\ \A q \in Operators : q = p
          BY <2>0, <4>2, <5>2, StartTyped
        <5>6. Copiers'
          BY <5>1, <5>2, <5>4, <5>5 DEF Copiers
        <5> QED BY <2>0, <4>2, <5>1, <5>2, <5>3, <5>6
      <4>3. CASE alias # {} /\ ~(p \in Operators /\ Stale(p))
        <5>1. /\ pc' = [pc EXCEPT ![p] = "idle"] /\ UNCHANGED <<tasks, awaits, alias, olds>>
              /\ p \in Operators \/ migrating' = migrating
          BY <3>4, <4>3 DEF CheckAlias
        <5>4. p \in Operators => tasks = {}
          BY <3>4 DEF CheckAlias, Copiers
        <5>2. CASE migrating' = migrating
          BY <2>0, <5>1, <5>2 DEF Copiers
        <5>3. CASE p \in Operators
          BY <2>0, <4>3, <5>1, <5>3, <5>4, <3>4 DEF CheckAlias, Copiers
        <5> QED BY <5>1, <5>2, <5>3
      <4> QED BY <4>1, <4>2, <4>3
    <3>5. CASE PutAlias(p)
      <4>1. alias' = {Version[p]} /\ ~migrating /\ p \in Starters /\ tasks = {} /\ tasks' = tasks
        BY <3>5 DEF PutAlias
      <4> QED BY <2>0, <3>5, <4>1 DEF PutAlias, Copiers
    <3>6. CASE EndCopy(p)
      <4>1. tasks = {} /\ tasks' = tasks
        BY <3>6 DEF EndCopy, CopyDone, Copiers
      <4> QED BY <2>0, <3>6, <4>1 DEF EndCopy, Copiers
    <3>7. CASE SwapAlias(p)
      <4>0. p \in Operators /\ tasks = {} /\ tasks' = tasks
        BY <2>0, <3>7 DEF SwapAlias, Copiers
      <4>1. CASE olds[p] \subseteq {Version[p]}
        BY <2>0, <3>7, <4>0, <4>1 DEF SwapAlias, Copiers
      <4>2. CASE ~(olds[p] \subseteq {Version[p]})
        <5>1. PICK old \in olds[p] \ {Version[p]} :
                MoveAlias(p, old) /\ olds' = [olds EXCEPT ![p] = @ \ {old}]
          BY <3>7, <4>2 DEF SwapAlias
        <5>2. alias = {old} /\ olds[p] = {old}
          BY <3>7, <4>0, <5>1 DEF SwapAlias
        <5>3. alias' = {Version[p]} /\ olds'[p] = {}
          BY <2>0, <5>1, <5>2 DEF MoveAlias
        <5> QED BY <2>0, <3>7, <4>0, <4>2, <5>3 DEF SwapAlias, Copiers
      <4> QED BY <4>1, <4>2
    <3>8. CASE Crash(p)
      BY <2>0, <3>8 DEF Crash, Copiers
    <3> QED BY <2>1, <3>1, <3>2, <3>3, <3>4, <3>5, <3>6, <3>7, <3>8 DEF ProcessStep
  <2>2. ASSUME NEW t \in tasks, CopyDoc(t) PROVE AliasInv'
    <3>1. PICK d \in Docs : tasks' = (tasks \ {t}) \cup {[t EXCEPT !.left[d] = 0]}
      BY <2>2 DEF CopyDoc
    <3>2. t \in Task
      BY DEF Typed, TypeOK
    <3>3. [t EXCEPT !.left[d] = 0].nr = t.nr /\ [t EXCEPT !.left[d] = 0].dest = t.dest
      BY <3>2 DEF Task
    <3>4. UNCHANGED <<alias, pc, awaits, olds, migrating>>
      BY <2>2 DEF CopyDoc
    <3>5. Copiers'
      BY <3>1, <3>3, <3>4 DEF Copiers
    <3> QED BY <3>4, <3>5
  <2>3. ASSUME NEW t \in tasks, EndTask(t) PROVE AliasInv'
    BY <2>3 DEF EndTask, Copiers
  <2>4. ASSUME NEW t \in tasks, TaskFails(t) PROVE AliasInv'
    BY <2>0, <2>4 DEF TaskFails, Copiers
  <2>5. CASE (\E d \in Docs : WriteThroughAlias(d)) \/ (\E v \in Versions : RefreshInterval(v))
             \/ UNCHANGED vars
    <3>1. UNCHANGED <<alias, pc, olds, migrating, tasks, awaits>>
      BY <2>5 DEF WriteThroughAlias, RefreshInterval, vars
    <3> QED BY <3>1 DEF Copiers
  <2> QED BY <2>1, <2>2, <2>3, <2>4, <2>5 DEF Next
<1> QED BY <1>1, <1>2, AliasTyping, PTL DEF Spec

\* Once the alias exists it serves one backing index, and goes on to.
THEOREM AliasAlwaysServesOne ==
    ASSUME OneMigration
    PROVE  Spec => AliasServesOne
<1>1. AliasInv /\ AliasInv' /\ [Next]_vars => [alias # {} => Cardinality(alias') = 1]_vars
  <2> SUFFICES ASSUME AliasInv, AliasInv', Next, alias # {} PROVE Cardinality(alias') = 1
    OBVIOUS
  <2>1. alias' # {}
    BY DEF Next, ProcessStep, StartEnsure, StartReindex, CheckBacking, CreateBacking,
                CheckAlias, PutAlias, EndCopy, SwapAlias, MoveAlias, Crash, CopyDoc, EndTask,
                TaskFails, RefreshInterval, WriteThroughAlias
  <2> QED BY <2>1, FS_Singleton DEF AliasInv, Single
<1> QED BY <1>1, AliasInvariance, PTL DEF Spec, AliasServesOne

\* Neither a migration that is run again nor what the server still copies for one that was
\* cut off writes into the backing that serves the alias.
THEOREM CopiesElsewhere ==
    ASSUME OneMigration
    PROVE  Spec => []NeverCopiesOverServing
<1>1. AliasInv => NeverCopiesOverServing
  BY DEF AliasInv, Copiers, NeverCopiesOverServing
<1> QED BY <1>1, AliasInvariance, PTL

-----------------------------------------------------------------------------
(* What a migration moves the alias to.                                     *)

\* What is known, while p's version is not the one served, v, of the copies into it:
\* documents are copied as they are served, also by a copy that was cut off, and when the
\* task p waits for has ended they are all there and refreshed.
Copying(p, v) ==
    /\ ~migrating => backing[Version[p]] = None
    /\ \A d \in Docs : backing[Version[p]][d] \in {0, backing[v][d]}
    /\ migrating => searchable[v] = backing[v]
    /\ \A t \in tasks : \A d \in Docs :
         /\ t.left[d] \in {0, backing[v][d]}
         /\ t.left[d] = 0 => backing[Version[p]][d] = backing[v][d]
    /\ pc[p] = "swap" \/ (pc[p] = "copy" /\ tasks = {}) =>
         /\ backing[Version[p]] = backing[v]
         /\ searchable[Version[p]] = backing[Version[p]]

CopyInv ==
    /\ alias = {} => \A v \in Versions : backing[v] = None
    /\ \A p \in Operators : \A v \in alias : v # Version[p] => Copying(p, v)

\* Copies that were cut off, and tasks that outlive them, are made good by the next one.
THEOREM CopyInvariance ==
    ASSUME OneMigration, RefreshFirst
    PROVE  Spec => []CopyInv
<1> USE AliasAssumption, OneMigration, RefreshFirst DEF OneMigration
<1>1. Init => CopyInv
  BY DEF Init, CopyInv
<1>2. Typed /\ AliasInv /\ CopyInv /\ [Next]_vars => CopyInv'
  <2> SUFFICES ASSUME Typed, AliasInv, CopyInv, [Next]_vars PROVE CopyInv'
    OBVIOUS
  <2>0. /\ pc \in [Processes -> Places] /\ alias \subseteq Versions
        /\ Processes = Starters \cup Operators /\ Starters \cap Operators = {}
        /\ \A p \in Processes : Version[p] \in Versions
        /\ backing \in [Versions -> [Docs -> Nat]]
        /\ searchable \in [Versions -> [Docs -> Nat]]
        /\ \A t \in tasks : t \in Task /\ t.left \in [Docs -> Nat] /\ t.dest \in Versions
    BY DEF Typed, TypeOK, Processes, Task
  <2>7. None \in [Docs -> Nat] /\ \A d \in Docs : None[d] = 0
    BY DEF None
  \* Steps that leave the documents, the tasks and the alias where they are.
  <2>8. ASSUME UNCHANGED <<backing, searchable, tasks, alias>>,
               migrating => migrating',
               \A v \in alias : migrating' /\ ~migrating => searchable[v] = backing[v],
               \A p \in Operators :
                  /\ pc'[p] = "swap" => pc[p] = "swap" \/ (pc[p] = "copy" /\ tasks = {})
                  /\ pc'[p] = "copy" => pc[p] = "copy"
        PROVE  CopyInv'
    <3> SUFFICES ASSUME NEW p \in Operators, NEW v \in alias, v # Version[p]
                 PROVE  Copying(p, v)'
      BY <2>8 DEF CopyInv
    <3>1. Copying(p, v)
      BY DEF CopyInv
    <3> QED BY <2>8, <3>1 DEF Copying
  <2>1. ASSUME NEW p \in Processes, ProcessStep(p) PROVE CopyInv'
    <3>1. CASE StartEnsure(p)
      <4>1. \A q \in Operators : pc'[q] = pc[q]
        BY <2>0, <3>1 DEF StartEnsure, Goto
      <4> QED BY <2>8, <3>1, <4>1 DEF StartEnsure, serverVars
    <3>2. CASE StartReindex(p)
      <4>1. \A q \in Operators : pc'[q] \notin {"copy", "swap"}
        BY <2>0, <3>2 DEF StartReindex, Goto
      <4> QED BY <2>8, <3>2, <4>1 DEF StartReindex, serverVars
    <3>3. CASE CheckBacking(p) \/ CreateBacking(p)
      <4>1. /\ UNCHANGED <<backing, searchable, tasks, alias, migrating>>
            /\ \E where \in {"idle", "create", "alias"} : pc' = [pc EXCEPT ![p] = where]
        BY <3>3 DEF CheckBacking, CreateBacking, Goto, serverVars
      <4>2. \A q \in Operators : pc'[q] \in {"copy", "swap"} => pc'[q] = pc[q]
        BY <2>0, <4>1
      <4> QED BY <2>8, <4>1, <4>2
    <3>4. CASE CheckAlias(p)
      <4>1. CASE alias = {}
        <5>1. \A q \in Operators : pc'[q] \in {"copy", "swap"} => pc'[q] = pc[q]
          BY <2>0, <3>4, <4>1 DEF CheckAlias, Goto
        <5> QED BY <2>8, <3>4, <4>1, <5>1 DEF CheckAlias
      <4>2. CASE alias # {} /\ p \in Operators /\ Stale(p)
        <5>1. /\ pc' = [pc EXCEPT ![p] = "copy"] /\ pc[p] = "alias" /\ StartTask(p)
              /\ UNCHANGED <<alias, migrating, backing, searchable>>
          BY <3>4, <4>2 DEF CheckAlias, Goto
        <5>2. tasks = {} /\ migrating
          BY <4>2, <5>1 DEF AliasInv, Copiers, Migrating
        <5>3. PICK u \in alias :
                tasks' = {[nr |-> started', dest |-> Version[p], left |-> searchable[u]]}
          BY <5>1, <5>2, StartTyped
        <5>4. /\ \A q \in Operators : q = p
              /\ alias = {u} /\ pc'[p] = "copy"
          BY <2>0, <4>2, <5>1 DEF AliasInv, Single
        <5>5. ASSUME u # Version[p] PROVE Copying(p, u)'
          <6>1. Copying(p, u)
            BY <4>2, <5>5 DEF CopyInv
          <6>2. searchable[u] = backing[u] /\ searchable' = searchable /\ backing' = backing
            BY <5>1, <5>2, <6>1 DEF Copying
          <6>3. \A d \in Docs : backing[Version[p]][d] \in {0, backing[u][d]}
            BY <6>1 DEF Copying
          <6>4. \A t \in tasks' : t.left = backing[u]
            BY <5>3, <6>2
          <6>5. \A d \in Docs : backing[u][d] = 0 => backing[Version[p]][d] = backing[u][d]
            BY <6>3
          <6>6. tasks' # {} /\ migrating' = migrating
            BY <5>1, <5>3
          <6> QED BY <5>2, <5>4, <6>2, <6>3, <6>4, <6>5, <6>6 DEF Copying
        <5> QED BY <5>1, <5>4, <5>5 DEF CopyInv
      <4>3. CASE alias # {} /\ p \in Starters
        <5>1. \A q \in Operators : pc'[q] = pc[q] /\ q # p
          BY <2>0, <3>4, <4>3 DEF CheckAlias, Goto
        <5> QED BY <2>0, <2>8, <3>4, <4>3, <5>1 DEF CheckAlias
      <4>4. CASE alias # {} /\ p \in Operators /\ ~Stale(p)
        <5>1. alias' = {Version[p]} /\ \A q \in Operators : q = p
          BY <3>4, <4>4 DEF CheckAlias, Stale
        <5> QED BY <5>1 DEF CopyInv
      <4> QED BY <2>0, <4>1, <4>2, <4>3, <4>4
    <3>5. CASE PutAlias(p)
      <4>1. /\ ~migrating /\ p \in Starters /\ tasks = {}
            /\ alias' = {Version[p]} /\ UNCHANGED <<backing, searchable, tasks, migrating>>
            /\ \A q \in Operators : pc'[q] = pc[q] /\ pc[q] = "idle"
        BY <2>0, <3>5 DEF PutAlias, Goto, serverVars, AliasInv, Migrating, Putting
      <4>2. CASE alias = {}
        <5>1. \A v \in Versions : backing[v] = None
          BY <4>2 DEF CopyInv
        <5>2. ASSUME NEW q \in Operators, NEW v \in alias', v # Version[q] PROVE Copying(q, v)'
          <6>1. Version[q] \in Versions /\ v \in Versions
            BY <2>0, <4>1
          <6> QED BY <2>7, <4>1, <5>1, <6>1 DEF Copying
        <5> QED BY <4>1, <5>2 DEF CopyInv
      <4>3. CASE alias # {}
        <5>1. alias' = alias
          BY <3>5, <4>1, <4>3 DEF PutAlias, AliasInv, Putting
        <5> QED BY <2>8, <4>1, <5>1
      <4> QED BY <4>2, <4>3
    <3>6. CASE EndCopy(p)
      <4>1. /\ p \in Operators /\ tasks = {} /\ pc[p] = "copy"
            /\ UNCHANGED <<backing, searchable, tasks, alias, migrating>>
        BY <3>6 DEF EndCopy, CopyDone, serverVars, AliasInv, Copiers, Moving
      <4>2. \A q \in Operators : q = p
        BY <4>1
      <4> QED BY <2>8, <4>1, <4>2
    <3>7. CASE SwapAlias(p)
      <4>1. p \in Operators /\ \A q \in Operators : q = p
        BY <2>0, <3>7 DEF SwapAlias, AliasInv, Moving
      <4>2. alias' = {Version[p]}
        <5>1. CASE olds[p] \subseteq {Version[p]}
          BY <3>7, <4>1, <5>1 DEF SwapAlias, AliasInv, Moving, Migrating
        <5>2. CASE ~(olds[p] \subseteq {Version[p]})
          <6>1. PICK old \in olds[p] : old # Version[p] /\ MoveAlias(p, old)
            BY <3>7, <5>2 DEF SwapAlias
          <6>2. alias = {old}
            BY <3>7, <6>1 DEF SwapAlias, AliasInv, Moving, Single
          <6> QED BY <6>1, <6>2 DEF MoveAlias
        <5> QED BY <5>1, <5>2
      <4> QED BY <4>1, <4>2 DEF CopyInv
    <3>8. CASE Crash(p)
      <4>1. \A q \in Operators : pc'[q] \in {"copy", "swap"} => pc'[q] = pc[q]
        BY <2>0, <3>8 DEF Crash, Goto
      <4> QED BY <2>8, <3>8, <4>1 DEF Crash, serverVars
    <3> QED BY <2>1, <3>1, <3>2, <3>3, <3>4, <3>5, <3>6, <3>7, <3>8 DEF ProcessStep
  <2>2. ASSUME NEW t \in tasks, CopyDoc(t) PROVE CopyInv'
    <3>1. PICK e \in Docs :
            /\ t.left[e] # 0
            /\ backing' = [backing EXCEPT ![t.dest][e] = t.left[e]]
            /\ tasks' = (tasks \ {t}) \cup {[t EXCEPT !.left[e] = 0]}
      BY <2>2 DEF CopyDoc
    <3>2. /\ UNCHANGED <<searchable, alias, pc, migrating>> /\ migrating /\ alias # {}
          /\ t.dest \in Versions /\ t.left \in [Docs -> Nat] /\ t \in Task
      BY <2>0, <2>2 DEF CopyDoc, AliasInv, Migrating
    <3>3. SUFFICES ASSUME NEW p \in Operators, NEW v \in alias, v # Version[p]
                   PROVE  Copying(p, v)'
      BY <3>2 DEF CopyInv
    <3>4. Copying(p, v) /\ t.dest = Version[p] /\ v # t.dest
      BY <3>3 DEF CopyInv, AliasInv, Copiers
    <3>5. t.left[e] = backing[v][e]
      BY <3>1, <3>4 DEF Copying
    <3>6. /\ backing'[v] = backing[v]
          /\ backing'[Version[p]] = [backing[Version[p]] EXCEPT ![e] = backing[v][e]]
      BY <2>0, <3>1, <3>2, <3>3, <3>4, <3>5
    <3>7. \A d \in Docs : backing'[Version[p]][d] = IF d = e THEN backing[v][e]
                                                   ELSE backing[Version[p]][d]
      <4>1. backing[Version[p]] \in [Docs -> Nat]
        BY <2>0, <3>2, <3>4
      <4> QED BY <3>6, <4>1
    <3>8. \A d \in Docs : backing'[Version[p]][d] \in {0, backing'[v][d]}
      BY <3>4, <3>6, <3>7 DEF Copying
    <3>9. ASSUME NEW u \in tasks', NEW d \in Docs
          PROVE  /\ u.left[d] \in {0, backing'[v][d]}
                 /\ u.left[d] = 0 => backing'[Version[p]][d] = backing'[v][d]
      <4>1. CASE u \in tasks
        BY <3>4, <3>6, <3>7, <4>1 DEF Copying
      <4>2. CASE u = [t EXCEPT !.left[e] = 0]
        <5>1. u.left = [t.left EXCEPT ![e] = 0]
          BY <3>2, <4>2 DEF Task
        <5>2. u.left[d] = IF d = e THEN 0 ELSE t.left[d]
          BY <3>2, <5>1
        <5> QED BY <3>4, <3>6, <3>7, <5>2 DEF Copying
      <4> QED BY <3>1, <4>1, <4>2
    <3>10. tasks' # {} /\ pc'[p] # "swap"
      BY <3>1, <3>2 DEF AliasInv, Copiers
    <3>11. searchable'[v] = backing'[v]
      BY <3>2, <3>4, <3>6 DEF Copying
    <3> QED BY <3>2, <3>8, <3>9, <3>10, <3>11 DEF Copying
  <2>3. ASSUME NEW t \in tasks, EndTask(t) PROVE CopyInv'
    <3>2. /\ UNCHANGED <<backing, alias, pc, migrating>> /\ migrating /\ alias # {}
          /\ tasks' = tasks \ {t} /\ t.left = None /\ t.dest \in Versions
          /\ searchable' = [searchable EXCEPT ![t.dest] = backing[t.dest]]
      BY <2>0, <2>3 DEF EndTask, RefreshDest, Refresh, AliasInv, Migrating
    <3>3. SUFFICES ASSUME NEW p \in Operators, NEW v \in alias, v # Version[p]
                   PROVE  Copying(p, v)'
      BY <3>2 DEF CopyInv
    <3>4. Copying(p, v) /\ t.dest = Version[p] /\ v # t.dest
      BY <3>3 DEF CopyInv, AliasInv, Copiers
    <3>5. searchable'[v] = searchable[v] /\ searchable'[Version[p]] = backing[Version[p]]
      BY <2>0, <3>2, <3>3, <3>4
    <3>6. backing[Version[p]] = backing[v]
      <4>1. \A d \in Docs : backing[Version[p]][d] = backing[v][d]
        BY <2>7, <3>2, <3>4 DEF Copying
      <4>2. backing[Version[p]] \in [Docs -> Nat] /\ backing[v] \in [Docs -> Nat]
        BY <2>0, <3>2, <3>3, <3>4
      <4> QED BY <4>1, <4>2
    <3> QED BY <3>2, <3>4, <3>5, <3>6 DEF Copying
  <2>4. ASSUME NEW t \in tasks, TaskFails(t) PROVE CopyInv'
    <3>1. /\ tasks' \subseteq tasks /\ UNCHANGED <<backing, searchable, alias, migrating>>
          /\ \A p \in Operators : pc'[p] # "copy" /\ pc'[p] # "swap"
      BY <2>0, <2>4 DEF TaskFails, AliasInv, Copiers
    <3>2. SUFFICES ASSUME NEW p \in Operators, NEW v \in alias, v # Version[p]
                   PROVE  Copying(p, v)'
      BY <3>1 DEF CopyInv
    <3>3. Copying(p, v)
      BY <3>2 DEF CopyInv
    <3> QED BY <3>1, <3>3 DEF Copying
  <2>5. ASSUME NEW d \in Docs, WriteThroughAlias(d) PROVE CopyInv'
    <3>1. PICK v \in alias, n \in {0, writes + 1} :
            alias = {v} /\ backing' = [backing EXCEPT ![v][d] = n]
      BY <2>5 DEF WriteThroughAlias
    <3>2. /\ ~migrating /\ tasks = {} /\ \A p \in Operators : pc[p] = "idle"
          /\ UNCHANGED <<searchable, alias, pc, tasks, migrating>>
      BY <2>5 DEF WriteThroughAlias, AliasInv, Migrating
    <3>3. SUFFICES ASSUME NEW p \in Operators, v # Version[p] PROVE Copying(p, v)'
      BY <3>1, <3>2 DEF CopyInv
    <3>4. backing'[Version[p]] = backing[Version[p]] /\ backing[Version[p]] = None
      BY <2>0, <3>1, <3>2, <3>3 DEF CopyInv, Copying
    <3> QED BY <2>7, <3>2, <3>4 DEF Copying
  <2>6. ASSUME NEW w \in Versions, RefreshInterval(w) PROVE CopyInv'
    <3>1. /\ UNCHANGED <<backing, alias, pc, tasks, migrating>>
          /\ searchable' = [searchable EXCEPT ![w] = backing[w]]
      BY <2>6 DEF RefreshInterval, Refresh
    <3>2. SUFFICES ASSUME NEW p \in Operators, NEW v \in alias, v # Version[p]
                   PROVE  Copying(p, v)'
      BY <3>1 DEF CopyInv
    <3>3. Copying(p, v) /\ v \in Versions /\ Version[p] \in Versions
      BY <2>0, <3>2 DEF CopyInv
    <3>4. \A u \in Versions : searchable'[u] = IF u = w THEN backing[u] ELSE searchable[u]
      BY <2>0, <3>1
    <3> QED BY <3>1, <3>3, <3>4 DEF Copying
  <2>9. CASE UNCHANGED vars
    BY <2>8, <2>9 DEF vars
  <2> QED BY <2>1, <2>2, <2>3, <2>4, <2>5, <2>6, <2>9 DEF Next
<1> QED BY <1>1, <1>2, AliasTyping, AliasInvariance, PTL DEF Spec

\* A reader or writer sees the same documents through the alias before and after it moves,
\* by id and in a search.
THEOREM MovesKeepDocuments ==
    ASSUME OneMigration, RefreshFirst
    PROVE  Spec => MoveKeepsDocuments
<1> DEFINE Moved(v, u) == v # u /\ alias = {v} /\ alias' = {u} =>
                            backing'[u] = backing[v] /\ searchable'[u] = searchable[v]
<1>1. Typed /\ AliasInv /\ CopyInv /\ [Next]_vars =>
        [\A v, u \in Versions : Moved(v, u)]_vars
  <2> SUFFICES ASSUME Typed, AliasInv, CopyInv, Next, NEW v \in Versions, NEW u \in Versions,
                      v # u, alias = {v}, alias' = {u}
               PROVE  backing'[u] = backing[v] /\ searchable'[u] = searchable[v]
    OBVIOUS
  <2>1. PICK p \in Processes : SwapAlias(p) \/ PutAlias(p)
    BY DEF Next, ProcessStep, StartEnsure, StartReindex, CheckBacking, CreateBacking, CheckAlias,
           EndCopy, Crash, CopyDoc, EndTask, TaskFails, RefreshInterval, WriteThroughAlias
  <2>2. ~PutAlias(p)
    BY DEF PutAlias
  <2>3. /\ pc[p] = "swap" /\ p \in Operators /\ migrating
        /\ UNCHANGED <<backing, searchable>>
    BY <2>1, <2>2 DEF SwapAlias, serverVars, AliasInv, Moving, Migrating
  <2>4. u = Version[p]
    BY <2>1, <2>2 DEF SwapAlias, MoveAlias
  <2>5. Copying(p, v)
    BY <2>3, <2>4 DEF CopyInv
  <2> QED BY <2>3, <2>4, <2>5 DEF Copying
<1> QED BY <1>1, AliasTyping, AliasInvariance, CopyInvariance, PTL DEF Spec, MoveKeepsDocuments

=============================================================================
