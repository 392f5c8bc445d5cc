--------------------------- MODULE AliasMigration ---------------------------
(***************************************************************************)
(* One managed index: an alias, its versioned backing indices, and the     *)
(* processes that prepare it (ensure_indices, at start-up and in           *)
(* init-indices) or migrate it (reindex), one Elasticsearch request at a   *)
(* time, while the application writes through the alias.  The copy is a    *)
(* task of the server: it reads the last refresh of its source, and goes   *)
(* on when the command that asked for it has died or timed out.            *)
(***************************************************************************)
EXTENDS Naturals, FiniteSets

CONSTANTS
    Docs,          \* document ids
    Versions,      \* values of index_version
    Starters,      \* processes that call ensure_indices
    Operators,     \* processes that run the reindex command
    Version,       \* the index_version each process is configured with
    LiveTraffic,   \* environment: writes go on, and start-ups finish, during a migration
    TasksAwaited,  \* environment: a reindex is asked for when no task of an earlier one goes on
    RefreshFirst,  \* environment: a refresh interval passes between the last write and a migration
    MaxWrites,     \* bound: writes and deletes through the alias
    MaxTasks       \* bound: reindex tasks

Processes == Starters \cup Operators

ASSUME AliasAssumption ==
    /\ Starters \cap Operators = {}
    /\ Version \in [Processes -> Versions]
    /\ {LiveTraffic, TasksAwaited, RefreshFirst} \subseteq BOOLEAN
    /\ MaxWrites \in Nat /\ MaxTasks \in Nat

VARIABLES
    exists,        \* the backing indices that exist
    backing,       \* their documents: the number of the write, 0 for none
    searchable,    \* the same as of the last refresh of each
    alias,         \* the backing indices the alias points at
    pc,            \* where each process is
    tasks,         \* the copies that go on: where to, and what is left to write
    started,       \* how many there have been
    awaits,        \* the one a process waits for
    olds,          \* current_backings
    migrating,     \* a migration has started and not finished
    writes

vars == <<exists, backing, searchable, alias, pc, tasks, started, awaits, olds, migrating, writes>>

None == [d \in Docs |-> 0]
Places == {"idle", "check", "create", "alias", "put", "copy", "swap"}
Task == [nr : 1..MaxTasks, dest : Versions, left : [Docs -> Nat]]

\* Type correctness.
TypeOK ==
    /\ exists \subseteq Versions
    /\ backing \in [Versions -> [Docs -> Nat]]
    /\ searchable \in [Versions -> [Docs -> Nat]]
    /\ alias \subseteq exists
    /\ pc \in [Processes -> Places]
    /\ tasks \subseteq Task
    /\ started \in 0..MaxTasks
    /\ awaits \in [Processes -> 0..MaxTasks]
    /\ olds \in [Processes -> SUBSET Versions]
    /\ migrating \in BOOLEAN
    /\ writes \in 0..MaxWrites

Init ==
    /\ exists = {}
    /\ backing = [v \in Versions |-> None]
    /\ searchable = [v \in Versions |-> None]
    /\ alias = {}
    /\ pc = [p \in Processes |-> "idle"]
    /\ tasks = {}
    /\ started = 0
    /\ awaits = [p \in Processes |-> 0]
    /\ olds = [p \in Processes |-> {}]
    /\ migrating = FALSE
    /\ writes = 0

serverVars == <<backing, searchable, tasks, started>>

Goto(p, where) == pc' = [pc EXCEPT ![p] = where]

StartEnsure(p) ==
    /\ p \in Starters /\ pc[p] = "idle"
    /\ Goto(p, "check")
    /\ UNCHANGED <<serverVars, exists, alias, awaits, olds, migrating, writes>>

\* The runbook migrates an index that is in use.
StartReindex(p) ==
    /\ p \in Operators /\ pc[p] = "idle" /\ alias # {}
    /\ LiveTraffic \/ \A q \in Starters : pc[q] = "idle"
    /\ TasksAwaited => tasks = {}
    /\ RefreshFirst => \A v \in alias : searchable[v] = backing[v]
    /\ Goto(p, "check")
    /\ migrating' = TRUE
    /\ UNCHANGED <<serverVars, exists, alias, awaits, olds, writes>>

BackingExists(p) == Version[p] \in exists

CheckBacking(p) ==
    /\ pc[p] = "check"
    /\ Goto(p, IF BackingExists(p) THEN "alias" ELSE "create")
    /\ UNCHANGED <<serverVars, exists, alias, awaits, olds, migrating, writes>>

\* Creating an index another process has created in between raises.
CreateBacking(p) ==
    /\ pc[p] = "create"
    /\ IF Version[p] \in exists
         THEN Goto(p, "idle") /\ UNCHANGED exists
         ELSE Goto(p, "alias") /\ exists' = exists \cup {Version[p]}
    /\ UNCHANGED <<serverVars, alias, awaits, olds, migrating, writes>>

AlwaysStale(p) == TRUE
Stale(p) == alias # {Version[p]}

\* The copy reads its source by a search, so what it was at its last refresh.
StartTask(p) ==
    /\ started < MaxTasks /\ started' = started + 1
    /\ awaits' = [awaits EXCEPT ![p] = started + 1]
    /\ \E v \in alias :
         tasks' = tasks \cup {[nr |-> started + 1, dest |-> Version[p], left |-> searchable[v]]}

\* The alias exists: ensure_indices is done, and so is a reindex whose version
\* it already serves.  Otherwise the server starts copying what it serves.
CheckAlias(p) ==
    /\ pc[p] = "alias"
    /\ IF alias = {} THEN
         /\ Goto(p, "put")
         /\ UNCHANGED <<tasks, started, awaits, olds, migrating>>
       ELSE IF p \in Operators /\ Stale(p) THEN
         /\ Goto(p, "copy")
         /\ olds' = [olds EXCEPT ![p] = alias]
         /\ StartTask(p)
         /\ UNCHANGED migrating
       ELSE
         /\ Goto(p, "idle")
         /\ migrating' = IF p \in Operators THEN FALSE ELSE migrating
         /\ UNCHANGED <<tasks, started, awaits, olds>>
    /\ UNCHANGED <<exists, backing, searchable, alias, writes>>

PutAlias(p) ==
    /\ pc[p] = "put"
    /\ alias' = alias \cup {Version[p]}
    /\ Goto(p, "idle")
    /\ UNCHANGED <<serverVars, exists, awaits, olds, migrating, writes>>

CopyDone(p) == \A t \in tasks : t.nr # awaits[p]

EndCopy(p) ==
    /\ pc[p] = "copy" /\ CopyDone(p)
    /\ Goto(p, "swap")
    /\ UNCHANGED <<serverVars, exists, alias, awaits, olds, migrating, writes>>

AddToAlias(p, old) == alias' = alias \cup {Version[p]}
MoveAlias(p, old) == alias' = (alias \ {old}) \cup {Version[p]}

\* update_aliases removes and adds in one request, per old backing.
SwapAlias(p) ==
    /\ pc[p] = "swap"
    /\ IF olds[p] \subseteq {Version[p]}
         THEN /\ Goto(p, "idle")
              /\ olds' = [olds EXCEPT ![p] = {}]
              /\ migrating' = FALSE
              /\ UNCHANGED alias
         ELSE \E old \in olds[p] \ {Version[p]} :
              /\ MoveAlias(p, old)
              /\ olds' = [olds EXCEPT ![p] = @ \ {old}]
              /\ UNCHANGED <<pc, migrating>>
    /\ UNCHANGED <<serverVars, exists, awaits, writes>>

\* The command dies or its request times out; the runbook says to run it again.
Crash(p) ==
    /\ p \in Operators /\ pc[p] # "idle"
    /\ Goto(p, "idle")
    /\ awaits' = [awaits EXCEPT ![p] = 0]
    /\ olds' = [olds EXCEPT ![p] = {}]
    /\ UNCHANGED <<serverVars, exists, alias, migrating, writes>>

\* The server copies one document after the other, overwriting those of the same id.
CopyDoc(t) ==
    /\ \E d \in Docs :
         /\ t.left[d] # 0
         /\ backing' = [backing EXCEPT ![t.dest][d] = t.left[d]]
         /\ tasks' = (tasks \ {t}) \cup {[t EXCEPT !.left[d] = 0]}
    /\ UNCHANGED <<exists, searchable, alias, pc, started, awaits, olds, migrating, writes>>

Refresh(v) == searchable' = [searchable EXCEPT ![v] = backing[v]]
RefreshNothing(v) == UNCHANGED searchable
RefreshDest(v) == Refresh(v)

\* refresh=True: the destination is refreshed, and the request answered.
EndTask(t) ==
    /\ t.left = None
    /\ tasks' = tasks \ {t}
    /\ RefreshDest(t.dest)
    /\ UNCHANGED <<exists, backing, alias, pc, started, awaits, olds, migrating, writes>>

\* The copy fails half way, and with it the command if that still waits.
TaskFails(t) ==
    /\ tasks' = tasks \ {t}
    /\ pc' = [p \in Processes |-> IF pc[p] = "copy" /\ awaits[p] = t.nr THEN "idle" ELSE pc[p]]
    /\ UNCHANGED <<exists, backing, searchable, alias, started, awaits, olds, migrating, writes>>

RefreshInterval(v) ==
    /\ searchable[v] # backing[v]
    /\ Refresh(v)
    /\ UNCHANGED <<exists, backing, alias, pc, tasks, started, awaits, olds, migrating, writes>>

\* The application indexes or deletes a document through the alias.
WriteThroughAlias(d) ==
    /\ writes < MaxWrites /\ (LiveTraffic \/ ~migrating)
    /\ writes' = writes + 1
    /\ \E v \in alias, n \in {0, writes + 1} :
         /\ alias = {v}
         /\ backing' = [backing EXCEPT ![v][d] = n]
    /\ UNCHANGED <<exists, searchable, alias, pc, tasks, started, awaits, olds, migrating>>

ProcessStep(p) ==
    \/ StartEnsure(p) \/ StartReindex(p)
    \/ CheckBacking(p) \/ CreateBacking(p) \/ CheckAlias(p) \/ PutAlias(p)
    \/ EndCopy(p) \/ SwapAlias(p) \/ Crash(p)

Next ==
    \/ \E p \in Processes : ProcessStep(p)
    \/ \E t \in tasks : CopyDoc(t) \/ EndTask(t) \/ TaskFails(t)
    \/ \E v \in Versions : RefreshInterval(v)
    \/ \E d \in Docs : WriteThroughAlias(d)

Spec == Init /\ [][Next]_vars

-----------------------------------------------------------------------------
(* Properties.                                                             *)

\* Once the alias exists it serves exactly one backing index, however start-ups
\* race with each other, start during a migration, or a migration is cut off:
\* writes through an alias on two backings would be refused.
AliasServesOne == [][alias # {} => Cardinality(alias') = 1]_vars

\* Moving the alias changes no document a reader or writer sees through it, be it by id or
\* by a search, although the copies behind it may have been cut off and run again.
MoveKeepsDocuments ==
    [][\A v, u \in Versions :
         v # u /\ alias = {v} /\ alias' = {u} =>
           backing'[u] = backing[v] /\ searchable'[u] = searchable[v]]_vars

\* Safe to re-run: no copy, of this run or one cut off before, writes into the backing
\* that serves the alias.
NeverCopiesOverServing == \A t \in tasks : t.dest \notin alias
=============================================================================
