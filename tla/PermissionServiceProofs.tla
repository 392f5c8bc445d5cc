----------------------- MODULE PermissionServiceProofs -----------------------
(* Proofs about PermissionService, for every number of servers, handlers,   *)
(* editors, users and requests, and every lifetime and delay.               *)
EXTENDS PermissionService, TLAPS

-----------------------------------------------------------------------------
(* Type correctness.                                                        *)

\* The steps of a request.
LEMMA HandlerTyped ==
    ASSUME TypeOK, NEW h \in Handlers
    PROVE  /\ handler[h] \in Handler
           /\ \A v \in SUBSET Projects : [Idle EXCEPT !.pc = "done", !.value = v] \in Handler
           /\ [handler[h] EXCEPT !.pc = "get", !.stamp = 0] \in Handler
           /\ \A v \in SUBSET Projects, n \in Nat :
                [handler[h] EXCEPT !.pc = "store", !.stamp = clock, !.value = v,
                                   !.asOf = n] \in Handler
           /\ Idle \in Handler
           /\ \A r \in Requests :
                [Idle EXCEPT !.pc = "lookup", !.user = r[1], !.requested = r[2],
                             !.stamp = clock] \in Handler
  <1> USE PermissionAssumption
  <1>1. handler[h] \in Handler /\ clock \in Nat
    BY DEF TypeOK
  <1>2. Idle \in Handler
    BY DEF Idle, Handler
  <1>3. \A r \in Requests : r[1] \in Users \cup {NoUser} /\ r[2] \in SUBSET Projects
    OBVIOUS
  <1> QED BY <1>1, <1>2, <1>3 DEF Handler

\* What a lookup may do: miss, or answer with the value of an entry of the request's key
\* that has not expired.
LEMMA LookupSteps ==
    ASSUME NEW h \in Handlers, Lookup(h)
    PROVE  \/ Update(h, [handler[h] EXCEPT !.pc = "get", !.stamp = 0])
           \/ \E e \in cache[ServerOf[h]] :
                /\ e.user = handler[h].user /\ e.requested = handler[h].requested
                /\ e.expires > handler[h].stamp
                /\ Answer(h, e.value)
  BY DEF Lookup, SameKey, Valid

\* Every step of a request, of an update and of time keeps the records, the cache entries
\* and the threads' local state in their types, and one entry per key in each cache.
THEOREM PermissionTyping == Spec => []TypeOK
<1> USE PermissionAssumption
<1>1. Init => TypeOK
  BY DEF Init, TypeOK, Idle, NoEdit, Handler, Editor
<1>2. TypeOK /\ [Next]_vars => TypeOK'
  <2> SUFFICES ASSUME TypeOK, [Next]_vars PROVE TypeOK'
    OBVIOUS
  <2> USE DEF counters
  <2>0. /\ clock \in Nat /\ grants \in [Users -> Seq(Record)]
        /\ handler \in [Handlers -> Handler] /\ editor \in [Editors -> Editor]
        /\ cache \in [Servers -> SUBSET Entry]
        /\ completed \in [Servers -> [Users -> Nat]] /\ {arrivals, upserts} \subseteq Nat
        /\ \A t \in Handlers \cup Editors : ServerOf[t] \in Servers
        /\ \A u \in Users \cup {NoUser} : Latest(u) \in Nat
    BY DEF TypeOK, Latest
  <2>1. ASSUME NEW h \in Handlers, Resolve(h) PROVE TypeOK'
    <3>1. handler' \in [Handlers -> Handler]
      BY <2>0, <2>1, HandlerTyped DEF Resolve, Update
    <3> QED BY <2>0, <2>1, <3>1 DEF Resolve, TypeOK
  <2>2. ASSUME NEW h \in Handlers, Lookup(h) PROVE TypeOK'
    <3>1. \A e \in cache[ServerOf[h]] : e.value \in SUBSET Projects
      BY <2>0 DEF Entry
    <3>2. PICK r \in Handler : Update(h, r)
      BY <2>2, LookupSteps, <3>1, HandlerTyped DEF Answer
    <3>3. handler' \in [Handlers -> Handler]
      BY <2>0, <3>2 DEF Update
    <3> QED BY <2>2, <3>3 DEF Lookup, TypeOK
  <2>3. ASSUME NEW h \in Handlers, Get(h) PROVE TypeOK'
    <3> DEFINE u == handler[h].user
               q == handler[h].requested
    <3>1. u \in Users \cup {NoUser} /\ q \in SUBSET Projects /\ Latest(u) \in Nat
      BY <2>0 DEF Handler
    <3>2. ASSUME Latest(u) > 0 PROVE grants[u][Latest(u)].projects \in SUBSET Projects
      <4>1. u \in Users /\ Latest(u) = Len(grants[u])
        BY <3>1, <3>2 DEF Latest
      <4>2. grants[u] \in Seq(Record)
        BY <2>0, <4>1
      <4>3. Latest(u) \in 1..Len(grants[u])
        BY <3>1, <3>2, <4>1
      <4>4. grants[u][Latest(u)] \in Record
        BY <4>2, <4>3
      <4> QED BY <4>4 DEF Record
    <3>3. CASE Latest(u) > 0
      <4>1. Resolved(h, Filtered(grants[u][Latest(u)].projects, q))
        BY <2>3, <3>3 DEF Get
      <4>2. Filtered(grants[u][Latest(u)].projects, q) \in SUBSET Projects
        BY <3>2, <3>3 DEF Filtered
      <4>3. handler' \in [Handlers -> Handler]
        BY <2>0, <3>1, <4>1, <4>2, HandlerTyped DEF Resolved, Update
      <4> QED BY <2>3, <4>3 DEF Get, TypeOK
    <3>4. CASE ~(Latest(u) > 0)
      <4>1. Resolved(h, q) \/ Update(h, Idle)
        BY <2>3, <3>4 DEF Get
      <4>2. handler' \in [Handlers -> Handler]
        <5>1. CASE Resolved(h, q)
          BY <2>0, <3>1, <5>1, HandlerTyped DEF Resolved, Update
        <5>2. CASE Update(h, Idle)
          BY <2>0, <5>2, HandlerTyped DEF Update
        <5> QED BY <4>1, <5>1, <5>2
      <4> QED BY <2>3, <4>2 DEF Get, TypeOK
    <3> QED BY <3>3, <3>4
  <2>4. ASSUME NEW h \in Handlers, Store(h) PROVE TypeOK'
    <3>1. handler' \in [Handlers -> Handler]
      BY <2>0, <2>4, HandlerTyped, ZenonT(30) DEF Store, Answer, Update, Handler
    <3>2. EntryOf(h) \in Entry
      BY <2>0, SMTT(30) DEF EntryOf, Entry, Handler
    <3>3. \/ cache' = cache
          \/ cache' = [cache EXCEPT ![ServerOf[h]] = {e \in @ : Keeps(e, h)} \cup {EntryOf(h)}]
      BY <2>4 DEF Store
    <3> DEFINE kept == {e \in cache[ServerOf[h]] : Keeps(e, h)}
    <3>4. kept \cup {EntryOf(h)} \in SUBSET Entry
      BY <2>0, <3>2
    <3>5. \A s \in Servers : cache'[s] = cache[s] \/ cache'[s] = kept \cup {EntryOf(h)}
      BY <2>0, <3>3
    <3>6. cache' \in [Servers -> SUBSET Entry]
      <4>1. CASE cache' = cache
        BY <2>0, <4>1
      <4>2. CASE cache' = [cache EXCEPT ![ServerOf[h]] = kept \cup {EntryOf(h)}]
        <5> HIDE DEF kept
        <5> QED BY <2>0, <3>4, <4>2
      <4> QED BY <3>3, <4>1, <4>2
    <3>7. ASSUME NEW s \in Servers, NEW e \in cache'[s], NEW f \in cache'[s],
                 e.user = f.user, e.requested = f.requested
          PROVE  e = f
      <4>1. CASE cache'[s] = cache[s]
        BY <3>7, <4>1 DEF TypeOK
      <4>2. CASE cache'[s] = kept \cup {EntryOf(h)}
        <5>1. \A k \in kept : ~(k.user = handler[h].user /\ k.requested = handler[h].requested)
          BY DEF Keeps, SameKey
        <5>2. EntryOf(h).user = handler[h].user /\ EntryOf(h).requested = handler[h].requested
          BY DEF EntryOf
        <5>3. CASE e \in kept /\ f \in kept
          BY <2>0, <3>7, <5>3 DEF TypeOK
        <5> QED BY <3>7, <4>2, <5>1, <5>2, <5>3
      <4> QED BY <3>5, <4>1, <4>2
    <3> QED BY <2>4, <3>1, <3>6, <3>7 DEF Store, TypeOK
  <2>5. ASSUME NEW x \in Editors, WriteRecord(x) PROVE TypeOK'
    <3>1. PICK u \in Users, P \in SUBSET Projects :
            /\ grants' = [grants EXCEPT ![u] = Append(@, [projects |-> P, since |-> clock])]
            /\ editor' = [editor EXCEPT ![x] = [pc |-> "drop", user |-> u,
                                                written |-> Latest(u) + 1]]
      BY <2>5 DEF WriteRecord
    <3>2. [projects |-> P, since |-> clock] \in Record
      BY <2>0 DEF Record
    <3>3. grants' \in [Users -> Seq(Record)]
      BY <2>0, <3>1, <3>2
    <3>4. [pc |-> "drop", user |-> u, written |-> Latest(u) + 1] \in Editor
      BY <2>0 DEF Editor
    <3>5. editor' \in [Editors -> Editor]
      BY <2>0, <3>1, <3>4
    <3> QED BY <2>0, <2>5, <3>3, <3>5, SMTT(30) DEF WriteRecord, TypeOK
  <2>6. ASSUME NEW x \in Editors, DropEntries(x) PROVE TypeOK'
    <3>1. NoEdit \in Editor /\ editor[x].written \in Nat
      BY <2>0 DEF NoEdit, Editor
    <3>2. editor' \in [Editors -> Editor]
      BY <2>0, <2>6, <3>1 DEF DropEntries
    <3>3. cache' \in [Servers -> SUBSET Entry]
      BY <2>0, <2>6 DEF DropEntries
    <3>4. completed' \in [Servers -> [Users -> Nat]]
      BY <2>0, <2>6, <3>1 DEF DropEntries
    <3>5. \A s \in Servers : cache'[s] \subseteq cache[s]
      BY <2>0, <2>6 DEF DropEntries
    <3> QED BY <2>6, <3>2, <3>3, <3>4, <3>5 DEF DropEntries, TypeOK
  <2>7. CASE Tick
    BY <2>0, <2>7 DEF Tick, TypeOK
  <2>8. CASE UNCHANGED vars
    BY <2>8 DEF vars, TypeOK
  <2> QED BY <2>1, <2>2, <2>3, <2>4, <2>5, <2>6, <2>7, <2>8 DEF Next
<1> QED BY <1>1, <1>2, PTL DEF Spec

-----------------------------------------------------------------------------
(* The records of a user only grow, and a new one carries the time of its   *)
(* writing.                                                                 *)

Grown ==
    \A u \in Users :
        /\ Len(grants[u]) <= Len(grants'[u])
        /\ \A n \in 1..Len(grants[u]) : grants'[u][n] = grants[u][n]
        /\ \A n \in (Len(grants[u]) + 1)..Len(grants'[u]) : grants'[u][n].since = clock

\* A write adds a record for one user.
LEMMA RecordsGrow ==
    ASSUME TypeOK, NEW x \in Editors, WriteRecord(x)
    PROVE  /\ Grown
           /\ \E u \in Users :
                /\ editor' = [editor EXCEPT ![x] = [pc |-> "drop", user |-> u,
                                                    written |-> Len(grants[u]) + 1]]
                /\ Len(grants'[u]) = Len(grants[u]) + 1
  <1>1. PICK u \in Users, P \in SUBSET Projects :
            /\ grants' = [grants EXCEPT ![u] = Append(@, [projects |-> P, since |-> clock])]
            /\ editor' = [editor EXCEPT ![x] = [pc |-> "drop", user |-> u,
                                                written |-> Latest(u) + 1]]
    BY DEF WriteRecord
  <1> DEFINE r == [projects |-> P, since |-> clock]
  <1>2. grants \in [Users -> Seq(Record)] /\ r \in Record
    BY DEF TypeOK, Record
  <1>3. Latest(u) = Len(grants[u])
    BY PermissionAssumption DEF Latest
  <1>4. grants'[u] = Append(grants[u], r) /\ \A v \in Users \ {u} : grants'[v] = grants[v]
    BY <1>1, <1>2
  <1>5. r.since = clock
    OBVIOUS
  <1> HIDE DEF r
  <1>6. /\ Len(grants'[u]) = Len(grants[u]) + 1
        /\ \A n \in 1..Len(grants[u]) : grants'[u][n] = grants[u][n]
        /\ grants'[u][Len(grants[u]) + 1] = r
        /\ Len(grants[u]) \in Nat
    BY <1>2, <1>4
  <1>7. Grown
    <2> SUFFICES ASSUME NEW v \in Users
                 PROVE  /\ Len(grants[v]) <= Len(grants'[v])
                        /\ \A n \in 1..Len(grants[v]) : grants'[v][n] = grants[v][n]
                        /\ \A n \in (Len(grants[v]) + 1)..Len(grants'[v]) :
                              grants'[v][n].since = clock
      BY DEF Grown
    <2>1. CASE v = u
      BY <2>1, <1>5, <1>6
    <2>2. CASE v # u
      <3>1. grants'[v] = grants[v] /\ Len(grants[v]) \in Nat
        BY <1>2, <1>4, <2>2
      <3> QED BY <3>1
    <2> QED BY <2>1, <2>2
  <1> QED BY <1>1, <1>3, <1>6, <1>7

\* Without a write no record is lost.
LEMMA NothingWritten ==
    ASSUME TypeOK, UNCHANGED grants
    PROVE  Grown
  <1>1. \A u \in Users : Len(grants[u]) \in Nat
    BY DEF TypeOK
  <1> QED BY <1>1 DEF Grown

-----------------------------------------------------------------------------
(* A server keeps nothing older than the updates it completed itself.       *)

\* No server has completed an update, and no editor is about to, of a record that was not
\* written: so an entry filled from the latest record is never behind.
OwnInv ==
    /\ \A s \in Servers, u \in Users : completed[s][u] <= Len(grants[u])
    /\ \A x \in Editors : editor[x].pc = "drop" =>
          /\ editor[x].user \in Users
          /\ editor[x].written <= Len(grants[editor[x].user])
    /\ OwnUpdatesSeen

\* The numbers of the state.
LEMMA TypedParts ==
    ASSUME TypeOK
    PROVE  /\ \A u \in Users : Len(grants[u]) \in Nat
           /\ \A s \in Servers, u \in Users : completed[s][u] \in Nat
           /\ \A x \in Editors : editor[x].written \in Nat
           /\ \A s \in Servers : \A e \in cache[s] : e.asOf \in Nat /\ e.expires \in Nat
           /\ \A h \in Handlers : handler[h].asOf \in Nat /\ handler[h].stamp \in Nat
           /\ \A t \in Handlers \cup Editors : ServerOf[t] \in Servers
           /\ clock \in Nat
  BY PermissionAssumption DEF TypeOK, Entry, Editor, Handler

\* The invariant holds initially and every step keeps it.
THEOREM OwnInvariance == Spec => []OwnInv
<1> USE PermissionAssumption
<1>1. Init => OwnInv
  BY DEF Init, OwnInv, OwnUpdatesSeen, NoEdit
<1>2. TypeOK /\ OwnInv /\ [Next]_vars => OwnInv'
  <2> SUFFICES ASSUME TypeOK, OwnInv, [Next]_vars PROVE OwnInv'
    OBVIOUS
  <2> USE DEF counters
  <2>1. ASSUME UNCHANGED <<grants, cache, editor, completed>> PROVE OwnInv'
    BY <2>1 DEF OwnInv, OwnUpdatesSeen
  <2>2. ASSUME NEW h \in Handlers, Store(h) PROVE OwnInv'
    <3>1. UNCHANGED <<grants, editor, completed>>
      BY <2>2 DEF Store
    <3>2. \A s \in Servers : \A e \in cache'[s] : e \in cache[s] \/ e = EntryOf(h)
      BY <2>2 DEF Store, TypeOK
    <3>3. ASSUME NEW s \in Servers, EntryOf(h).user \in Users,
                 EntryOf(h).asOf = EntryOf(h).storedOver
          PROVE  EntryOf(h).asOf >= completed[s][EntryOf(h).user]
      <4>1. EntryOf(h).user = handler[h].user
            /\ EntryOf(h).storedOver = Latest(handler[h].user)
        BY DEF EntryOf
      <4>2. EntryOf(h).asOf = Len(grants[handler[h].user])
        BY <3>3, <4>1 DEF Latest
      <4> QED BY <3>3, <4>1, <4>2, TypedParts DEF OwnInv
    <3>4. OwnUpdatesSeen'
      BY <3>1, <3>2, <3>3 DEF OwnInv, OwnUpdatesSeen
    <3> QED BY <3>1, <3>4 DEF OwnInv
  <2>3. ASSUME NEW x \in Editors, WriteRecord(x) PROVE OwnInv'
    <3>1. UNCHANGED <<cache, completed>>
      BY <2>3 DEF WriteRecord
    <3>2. PICK u \in Users :
            /\ editor' = [editor EXCEPT ![x] = [pc |-> "drop", user |-> u,
                                                written |-> Len(grants[u]) + 1]]
            /\ Len(grants'[u]) = Len(grants[u]) + 1
      BY <2>3, RecordsGrow
    <3>3. \A v \in Users : Len(grants[v]) \in Nat /\ Len(grants[v]) <= Len(grants'[v])
      BY <2>3, RecordsGrow, TypedParts DEF Grown
    <3>4. \A s \in Servers, v \in Users : completed'[s][v] <= Len(grants'[v])
      BY <3>1, <3>3, TypedParts DEF OwnInv
    <3>5. ASSUME NEW y \in Editors, editor'[y].pc = "drop"
          PROVE  editor'[y].user \in Users /\ editor'[y].written <= Len(grants'[editor'[y].user])
      <4>1. CASE y = x
        <5>1. editor'[x] = [pc |-> "drop", user |-> u, written |-> Len(grants[u]) + 1]
          BY <3>2 DEF TypeOK
        <5> QED BY <3>2, <3>3, <4>1, <5>1
      <4>2. CASE y # x
        <5>1. editor'[y] = editor[y]
          BY <3>2, <4>2 DEF TypeOK
        <5> QED BY <3>3, <3>5, <5>1, TypedParts DEF OwnInv
      <4> QED BY <4>1, <4>2
    <3> QED BY <3>1, <3>4, <3>5 DEF OwnInv, OwnUpdatesSeen
  <2>4. ASSUME NEW x \in Editors, DropEntries(x) PROVE OwnInv'
    <3> DEFINE u == editor[x].user
               s == ServerOf[x]
    <3>1. u \in Users /\ s \in Servers /\ editor[x].written <= Len(grants[u])
      BY <2>4, TypedParts DEF DropEntries, OwnInv
    <3>2. UNCHANGED grants /\ editor' = [editor EXCEPT ![x] = NoEdit]
      BY <2>4 DEF DropEntries
    <3>3. \A r \in Servers : \A e \in cache'[r] : e \in cache[r] /\ (r = s => e.user # u)
      BY <2>4, <3>1 DEF DropEntries, TypeOK, Drops
    <3>4. /\ completed' \in [Servers -> [Users -> Nat]]
          /\ \A r \in Servers, v \in Users : r # s \/ v # u => completed'[r][v] = completed[r][v]
          /\ completed'[s][u] \in {completed[s][u], editor[x].written}
      BY <2>4, <3>1, TypedParts DEF DropEntries, TypeOK
    <3>5. \A r \in Servers, v \in Users : completed'[r][v] <= Len(grants'[v])
      BY <3>1, <3>2, <3>4 DEF OwnInv
    <3>6. \A y \in Editors : editor'[y].pc = "drop" =>
             /\ editor'[y].user \in Users
             /\ editor'[y].written <= Len(grants'[editor'[y].user])
      BY <3>2 DEF OwnInv, TypeOK, NoEdit
    <3>7. OwnUpdatesSeen'
      BY <3>3, <3>4 DEF OwnInv, OwnUpdatesSeen
    <3> QED BY <3>5, <3>6, <3>7 DEF OwnInv
  <2>5. ASSUME NEW h \in Handlers, Resolve(h) \/ Lookup(h) \/ Get(h) PROVE OwnInv'
    BY <2>1, <2>5 DEF Resolve, Lookup, Get
  <2>6. CASE Tick \/ UNCHANGED vars
    BY <2>1, <2>6 DEF Tick, vars
  <2> QED BY <2>2, <2>3, <2>4, <2>5, <2>6 DEF Next
<1> QED BY <1>1, <1>2, PermissionTyping, PTL DEF Spec

\* A server that completed an update of a user serves nothing older from its cache,
\* however many servers, requests and updates there are, except what a request read before
\* the update and stored after it.
THEOREM OwnUpdatesAreSeen == Spec => []OwnUpdatesSeen
<1>1. OwnInv => OwnUpdatesSeen
  BY DEF OwnInv
<1> QED BY <1>1, OwnInvariance, PTL

-----------------------------------------------------------------------------
(* An answer is recent.                                                     *)

\* The n-th record of u gave `value' for what was requested.
Gave(u, n, requested, value) ==
    n \in 1..Len(grants[u]) /\ value = Filtered(grants[u][n].projects, requested)

\* Unless it is the last one, the n-th record of u was not replaced before `time'.
HeldUntil(u, n, time) ==
    n < Len(grants[u]) => time <= grants[u][n + 1].since

\* What a request that resolved its answer is about to store was current when it read it.
Fetched(h) ==
    handler[h].pc = "store" /\ handler[h].user \in Users =>
       /\ Gave(handler[h].user, handler[h].asOf, handler[h].requested, handler[h].value)
       /\ HeldUntil(handler[h].user, handler[h].asOf, handler[h].stamp)

\* A thread waits no longer than MaxDelay for its next step.
Prompt(h) ==
    handler[h].pc \in {"lookup", "store"} =>
       handler[h].stamp <= clock /\ clock <= handler[h].stamp + MaxDelay

\* An entry expires TTL and one fill after the record it shows was replaced at the latest.
Fresh(e) ==
    /\ e.expires <= clock + TTL
    /\ e.user \in Users =>
          /\ Gave(e.user, e.asOf, e.requested, e.value)
          /\ e.asOf < Len(grants[e.user]) =>
                e.expires <= grants[e.user][e.asOf + 1].since + TTL + MaxDelay

RecentInv ==
    /\ \A h \in Handlers : Fetched(h) /\ Prompt(h)
    /\ \A s \in Servers : \A e \in cache[s] : Fresh(e)

\* Nothing a step does to the records takes these facts away.
LEMMA GaveKept ==
    ASSUME TypeOK, Grown, NEW u \in Users, NEW n, NEW q, NEW v, Gave(u, n, q, v)
    PROVE  /\ Gave(u, n, q, v)'
           /\ n < Len(grants'[u]) =>
                \/ n < Len(grants[u]) /\ grants'[u][n + 1] = grants[u][n + 1]
                \/ grants'[u][n + 1].since = clock
  <1>1. Len(grants[u]) \in Nat /\ n \in 1..Len(grants[u]) /\ Len(grants[u]) <= Len(grants'[u])
    BY TypedParts DEF Grown, Gave
  <1>2. grants'[u][n] = grants[u][n]
    BY <1>1 DEF Grown
  <1>3. CASE n < Len(grants[u])
    <2>1. n + 1 \in 1..Len(grants[u])
      BY <1>1, <1>3
    <2>2. grants'[u][n + 1] = grants[u][n + 1]
      BY <2>1 DEF Grown
    <2> QED BY <1>1, <1>2, <1>3, <2>2 DEF Gave
  <1>4. CASE n = Len(grants[u])
    <2>1. n < Len(grants'[u]) => n + 1 \in (Len(grants[u]) + 1)..Len(grants'[u])
      BY <1>1, <1>4
    <2>2. n < Len(grants'[u]) => grants'[u][n + 1].since = clock
      BY <2>1 DEF Grown
    <2> QED BY <1>1, <1>2, <2>2 DEF Gave
  <1> QED BY <1>1, <1>3, <1>4

\* A fresh cache entry is fresh as long as it is in the cache.
LEMMA FreshKept ==
    ASSUME TypeOK, TypeOK', Grown, clock' \in Nat, clock <= clock',
           NEW s \in Servers, NEW e \in cache[s], Fresh(e)
    PROVE  Fresh(e)'
  <1> USE PermissionAssumption
  <1>1. e.expires \in Nat /\ clock \in Nat /\ e.expires <= clock + TTL
    BY TypedParts DEF Fresh
  <1>2. e.expires <= clock' + TTL
    BY <1>1
  <1>3. ASSUME e.user \in Users
        PROVE  /\ Gave(e.user, e.asOf, e.requested, e.value)'
               /\ e.asOf < Len(grants'[e.user]) =>
                     e.expires <= grants'[e.user][e.asOf + 1].since + TTL + MaxDelay
    <2>1. Gave(e.user, e.asOf, e.requested, e.value)
      BY <1>3 DEF Fresh
    <2>2. /\ Gave(e.user, e.asOf, e.requested, e.value)'
          /\ e.asOf < Len(grants'[e.user]) =>
                \/ /\ e.asOf < Len(grants[e.user])
                   /\ grants'[e.user][e.asOf + 1] = grants[e.user][e.asOf + 1]
                \/ grants'[e.user][e.asOf + 1].since = clock
      BY <1>3, <2>1, GaveKept
    <2>3. ASSUME e.asOf < Len(grants'[e.user]), grants'[e.user][e.asOf + 1].since = clock
          PROVE  e.expires <= grants'[e.user][e.asOf + 1].since + TTL + MaxDelay
      BY <1>1, <2>3
    <2> QED BY <1>3, <2>2, <2>3 DEF Fresh
  <1> QED BY <1>2, <1>3 DEF Fresh

\* What a handler fetched stays what the records gave it.
LEMMA FetchedKept ==
    ASSUME TypeOK, Grown, NEW h \in Handlers, handler'[h] = handler[h], Fetched(h), Prompt(h)
    PROVE  Fetched(h)'
  <1>1. PICK r : r = handler[h] /\ r = handler'[h]
    OBVIOUS
  <1>2. SUFFICES ASSUME r.pc = "store", r.user \in Users
                 PROVE  /\ Gave(r.user, r.asOf, r.requested, r.value)'
                        /\ HeldUntil(r.user, r.asOf, r.stamp)'
    BY <1>1 DEF Fetched, Gave, HeldUntil
  <1>3. /\ Gave(r.user, r.asOf, r.requested, r.value)
        /\ HeldUntil(r.user, r.asOf, r.stamp)
        /\ r.stamp <= clock
    BY <1>1, <1>2 DEF Fetched, Prompt
  <1>4. /\ Gave(r.user, r.asOf, r.requested, r.value)'
        /\ r.asOf < Len(grants'[r.user]) =>
              \/ r.asOf < Len(grants[r.user])
                 /\ grants'[r.user][r.asOf + 1] = grants[r.user][r.asOf + 1]
              \/ grants'[r.user][r.asOf + 1].since = clock
    BY <1>2, <1>3, GaveKept
  <1> QED BY <1>3, <1>4 DEF HeldUntil

\* A cache hit shows what a record gave that had not been replaced for longer than the
\* lifetime and the delays of one fill and one lookup; so does a resolved answer.
Recent(u, requested, value, now) ==
    \E n \in 1..Len(grants[u]) :
       /\ value = Filtered(grants[u][n].projects, requested)
       /\ n < Len(grants[u]) => now < grants[u][n + 1].since + TTL + 2 * MaxDelay

\* The bounds are numbers.
LEMMA Bounds == TTL \in Nat /\ MaxDelay \in Nat
  BY PermissionAssumption

\* The time of a record.
LEMMA RecordTyped ==
    ASSUME TypeOK, NEW u \in Users, NEW n \in 1..Len(grants[u])
    PROVE  grants[u][n].since \in Nat
  <1>1. grants[u] \in Seq(Record)
    BY DEF TypeOK
  <1>2. grants[u][n] \in Record
    BY <1>1
  <1> QED BY <1>2 DEF Record

\* A hit gives an answer of the last TTL.
LEMMA HitsRecent ==
    ASSUME TypeOK, RecentInv, NEW h \in Handlers, At(h, "lookup"), handler[h].user \in Users,
           NEW e \in cache[ServerOf[h]], e.user = handler[h].user,
           e.requested = handler[h].requested, e.expires > handler[h].stamp
    PROVE  Recent(handler[h].user, handler[h].requested, e.value, clock)
  <1> DEFINE u == e.user
             n == e.asOf
  <1>1. Fresh(e) /\ e.expires \in Nat /\ handler[h].stamp \in Nat /\ clock \in Nat
    BY TypedParts DEF RecentInv
  <1>2. clock <= handler[h].stamp + MaxDelay
    BY DEF RecentInv, Prompt, At
  <1>3. /\ n \in 1..Len(grants[u])
        /\ e.value = Filtered(grants[u][n].projects, e.requested)
        /\ n < Len(grants[u]) => e.expires <= grants[u][n + 1].since + TTL + MaxDelay
    BY <1>1 DEF Fresh, Gave
  <1>4. ASSUME n < Len(grants[u])
        PROVE  clock < grants[u][n + 1].since + TTL + 2 * MaxDelay
    <2>1. u \in Users /\ n + 1 \in 1..Len(grants[u])
      BY <1>3, <1>4, TypedParts
    <2>2. PICK since \in Nat : since = grants[u][n + 1].since
      BY <2>1, RecordTyped
    <2>3. e.expires <= since + TTL + MaxDelay
      BY <1>3, <1>4, <2>2
    <2>4. clock < since + TTL + 2 * MaxDelay
      BY <1>1, <1>2, <2>2, <2>3, Bounds
    <2> QED BY <2>2, <2>4
  <1> QED BY <1>3, <1>4 DEF Recent

\* So does an answer that fills the cache.
LEMMA FillsRecent ==
    ASSUME TypeOK, RecentInv, TTL + MaxDelay > 0,
           NEW h \in Handlers, At(h, "store"), handler[h].user \in Users
    PROVE  Recent(handler[h].user, handler[h].requested, handler[h].value, clock)
  <1> DEFINE u == handler[h].user
             n == handler[h].asOf
  <1>1. handler[h].stamp \in Nat /\ clock \in Nat /\ clock <= handler[h].stamp + MaxDelay
    BY TypedParts DEF RecentInv, Prompt, At
  <1>2. /\ n \in 1..Len(grants[u])
        /\ handler[h].value = Filtered(grants[u][n].projects, handler[h].requested)
        /\ n < Len(grants[u]) => handler[h].stamp <= grants[u][n + 1].since
    BY DEF RecentInv, Fetched, Gave, HeldUntil, At
  <1>3. ASSUME n < Len(grants[u])
        PROVE  clock < grants[u][n + 1].since + TTL + 2 * MaxDelay
    <2>1. u \in Users /\ n + 1 \in 1..Len(grants[u])
      BY <1>2, <1>3, TypedParts
    <2>2. PICK since \in Nat : since = grants[u][n + 1].since
      BY <2>1, RecordTyped
    <2>3. handler[h].stamp <= since
      BY <1>2, <1>3, <2>2
    <2>4. clock < since + TTL + 2 * MaxDelay
      BY <1>1, <2>2, <2>3, Bounds
    <2> QED BY <2>2, <2>4
  <1> QED BY <1>2, <1>3 DEF Recent

\* A step in no time keeps the invariant if what it puts into a request's state and into a
\* cache satisfies it.
LEMMA RecentKept ==
    ASSUME TypeOK, TypeOK', RecentInv, Grown, clock' = clock,
           \A g \in Handlers : handler'[g] = handler[g] \/ (Fetched(g)' /\ Prompt(g)'),
           \A s \in Servers : \A e \in cache'[s] : e \in cache[s] \/ Fresh(e)'
    PROVE  RecentInv'
  <1>1. ASSUME NEW g \in Handlers PROVE Fetched(g)' /\ Prompt(g)'
    <2>1. CASE handler'[g] = handler[g]
      BY <2>1, FetchedKept DEF RecentInv, Prompt
    <2> QED BY <2>1
  <1>2. ASSUME NEW s \in Servers, NEW e \in cache'[s] PROVE Fresh(e)'
    <2>1. CASE e \in cache[s]
      BY <2>1, FreshKept, TypedParts DEF RecentInv
    <2> QED BY <2>1
  <1> QED BY <1>1, <1>2 DEF RecentInv

\* What a request stores expires one lifetime from now, and its record was current at most
\* one fill ago.
LEMMA StoredFresh ==
    ASSUME TypeOK, RecentInv, NEW h \in Handlers, At(h, "store"),
           UNCHANGED <<clock, grants>>, NEW e, e = EntryOf(h)
    PROVE  Fresh(e)'
  <1>1. /\ e.expires = clock + TTL /\ e.user = handler[h].user /\ e.asOf = handler[h].asOf
        /\ e.requested = handler[h].requested /\ e.value = handler[h].value
    BY DEF EntryOf
  <1>2. handler[h].stamp \in Nat /\ clock \in Nat /\ clock <= handler[h].stamp + MaxDelay
    BY TypedParts DEF RecentInv, Prompt, At
  <1>3. ASSUME e.user \in Users
        PROVE  /\ Gave(e.user, e.asOf, e.requested, e.value)
               /\ e.asOf < Len(grants[e.user]) =>
                     e.expires <= grants[e.user][e.asOf + 1].since + TTL + MaxDelay
    <2>1. /\ Gave(e.user, e.asOf, e.requested, e.value)
          /\ HeldUntil(e.user, e.asOf, handler[h].stamp)
      BY <1>1, <1>3 DEF RecentInv, Fetched, At
    <2>2. ASSUME e.asOf < Len(grants[e.user])
          PROVE  e.expires <= grants[e.user][e.asOf + 1].since + TTL + MaxDelay
      <3>1. e.asOf + 1 \in 1..Len(grants[e.user])
        BY <1>3, <2>1, <2>2, TypedParts DEF Gave
      <3>2. PICK since \in Nat : since = grants[e.user][e.asOf + 1].since
        BY <1>3, <3>1, RecordTyped
      <3>3. handler[h].stamp <= since
        BY <2>1, <2>2, <3>2 DEF HeldUntil
      <3>4. clock + TTL <= since + TTL + MaxDelay
        BY <1>2, <3>2, <3>3, Bounds
      <3> QED BY <1>1, <3>2, <3>4
    <2> QED BY <2>1, <2>2
  <1>4. e.expires <= clock + TTL
    BY <1>1, <1>2, Bounds
  <1> QED BY <1>3, <1>4 DEF Fresh, Gave

\* The invariant holds initially and every step keeps it.
THEOREM RecentInvariance == Spec => []RecentInv
<1> USE PermissionAssumption DEF counters
<1>1. Init => RecentInv
  BY DEF Init, RecentInv, Fetched, Prompt, Idle
<1>2. TypeOK /\ TypeOK' /\ RecentInv /\ [Next]_vars => RecentInv'
  <2> SUFFICES ASSUME TypeOK, TypeOK', RecentInv, [Next]_vars PROVE RecentInv'
    OBVIOUS
  <2>0. /\ handler \in [Handlers -> Handler] /\ cache \in [Servers -> SUBSET Entry]
        /\ clock \in Nat
    BY DEF TypeOK
  <2>1. ASSUME NEW h \in Handlers, Resolve(h) PROVE RecentInv'
    <3>1. UNCHANGED <<clock, grants, cache>>
      BY <2>1 DEF Resolve
    <3>2. /\ handler'[h].pc = "lookup" /\ handler'[h].stamp = clock
          /\ \A g \in Handlers \ {h} : handler'[g] = handler[g]
      BY <2>0, <2>1 DEF Resolve, Update, Idle
    <3>3. Fetched(h)' /\ Prompt(h)'
      BY <2>0, <3>1, <3>2, Bounds DEF Fetched, Prompt
    <3> QED BY <3>1, <3>2, <3>3, NothingWritten, RecentKept
  <2>2. ASSUME NEW h \in Handlers, Lookup(h) PROVE RecentInv'
    <3>1. UNCHANGED <<clock, grants, cache>>
      BY <2>2 DEF Lookup
    <3>2. /\ handler'[h].pc \in {"get", "done"}
          /\ \A g \in Handlers \ {h} : handler'[g] = handler[g]
      <4>1. /\ [handler[h] EXCEPT !.pc = "get", !.stamp = 0].pc = "get"
            /\ \A v : [Idle EXCEPT !.pc = "done", !.value = v].pc = "done"
        BY <2>0 DEF Handler, Idle
      <4>2. PICK r : Update(h, r) /\ r.pc \in {"get", "done"}
        BY <2>2, LookupSteps, <4>1 DEF Answer
      <4> QED BY <2>0, <4>2 DEF Update
    <3>3. Fetched(h)' /\ Prompt(h)'
      BY <3>2 DEF Fetched, Prompt
    <3> QED BY <3>1, <3>2, <3>3, NothingWritten, RecentKept
  <2>3. ASSUME NEW h \in Handlers, Get(h) PROVE RecentInv'
    <3>1. UNCHANGED <<clock, grants, cache>>
      BY <2>3 DEF Get
    <3>2. \A g \in Handlers \ {h} : handler'[g] = handler[g]
      BY <2>0, <2>3 DEF Get, Resolved, Update
    <3>3. CASE Update(h, Idle)
      <4>1. handler'[h].pc = "idle"
        BY <2>0, <3>3 DEF Update, Idle
      <4>2. Fetched(h)' /\ Prompt(h)'
        BY <4>1 DEF Fetched, Prompt
      <4> QED BY <3>1, <3>2, <4>2, NothingWritten, RecentKept
    <3>4. ASSUME NEW v, Resolved(h, v),
                 handler[h].user \in Users =>
                    /\ Latest(handler[h].user) > 0
                    /\ v = Filtered(grants[handler[h].user][Latest(handler[h].user)].projects,
                                    handler[h].requested)
          PROVE  RecentInv'
      <4>1. /\ handler'[h].stamp = clock /\ handler'[h].value = v
            /\ handler'[h].asOf = Latest(handler[h].user)
            /\ handler'[h].user = handler[h].user
            /\ handler'[h].requested = handler[h].requested
        BY <2>0, <3>4 DEF Resolved, Update, Handler
      <4>2. ASSUME handler[h].user \in Users
            PROVE  /\ handler'[h].asOf = Len(grants'[handler[h].user])
                   /\ handler'[h].asOf \in 1..Len(grants'[handler[h].user])
        BY <3>1, <3>4, <4>1, <4>2, TypedParts DEF Latest
      <4>3. Fetched(h)'
        BY <3>1, <3>4, <4>1, <4>2 DEF Fetched, Gave, HeldUntil
      <4>4. Prompt(h)'
        BY <2>0, <3>1, <4>1, Bounds DEF Prompt
      <4> QED BY <3>1, <3>2, <4>3, <4>4, NothingWritten, RecentKept
    <3>5. CASE Latest(handler[h].user) > 0
      BY <2>3, <3>4, <3>5 DEF Get
    <3>6. CASE ~(Latest(handler[h].user) > 0) /\ handler[h].user = NoUser
      BY <2>3, <3>3, <3>4, <3>6 DEF Get
    <3>7. CASE ~(Latest(handler[h].user) > 0) /\ handler[h].user # NoUser
      BY <2>3, <3>3, <3>7 DEF Get
    <3> QED BY <3>5, <3>6, <3>7
  <2>4. ASSUME NEW h \in Handlers, Store(h) PROVE RecentInv'
    <3>1. UNCHANGED <<clock, grants>> /\ At(h, "store")
      BY <2>4 DEF Store
    <3>2. /\ handler'[h].pc = "done"
          /\ \A g \in Handlers \ {h} : handler'[g] = handler[g]
      BY <2>0, <2>4 DEF Store, Answer, Update, Idle
    <3>3. Fetched(h)' /\ Prompt(h)'
      BY <3>2 DEF Fetched, Prompt
    <3>4. \A s \in Servers : \A e \in cache'[s] : e \in cache[s] \/ e = EntryOf(h)
      BY <2>0, <2>4 DEF Store
    <3>5. \A e : e = EntryOf(h) => Fresh(e)'
      BY <3>1, StoredFresh
    <3> QED BY <3>1, <3>2, <3>3, <3>4, <3>5, NothingWritten, RecentKept
  <2>5. ASSUME NEW x \in Editors, WriteRecord(x) PROVE RecentInv'
    <3>1. UNCHANGED <<clock, cache, handler>>
      BY <2>5 DEF WriteRecord
    <3> QED BY <2>5, <3>1, RecordsGrow, RecentKept
  <2>6. ASSUME NEW x \in Editors, DropEntries(x) PROVE RecentInv'
    <3>1. UNCHANGED <<clock, grants, handler>>
      BY <2>6 DEF DropEntries
    <3>2. \A s \in Servers : \A e \in cache'[s] : e \in cache[s]
      BY <2>0, <2>6 DEF DropEntries
    <3> QED BY <3>1, <3>2, NothingWritten, RecentKept
  <2>7. CASE Tick
    <3>1. clock' = clock + 1 /\ UNCHANGED <<grants, cache, handler>>
      BY <2>7 DEF Tick
    <3>2. ASSUME NEW h \in Handlers PROVE Fetched(h)'
      BY <3>1, NothingWritten, FetchedKept DEF RecentInv
    <3>3. ASSUME NEW h \in Handlers PROVE Prompt(h)'
      <4>1. handler[h].pc \in {"lookup", "store"} =>
               handler[h].stamp <= clock /\ clock < handler[h].stamp + MaxDelay
        BY <2>7 DEF RecentInv, Prompt, Tick, At
      <4> QED BY <2>0, <3>1, <4>1, TypedParts, Bounds DEF Prompt
    <3>4. \A s \in Servers : \A e \in cache'[s] : Fresh(e)'
      BY <2>0, <3>1, NothingWritten, FreshKept DEF RecentInv
    <3> QED BY <3>2, <3>3, <3>4 DEF RecentInv
  <2>8. CASE UNCHANGED vars
    BY <2>8 DEF vars, RecentInv, Fetched, Prompt, Fresh, Gave, HeldUntil
  <2> QED BY <2>1, <2>2, <2>3, <2>4, <2>5, <2>6, <2>7, <2>8 DEF Next
<1> QED BY <1>1, <1>2, PermissionTyping, PTL DEF Spec

\* Whatever races between requests and updates on any number of servers, an answer is what
\* the store would have given within the last lifetime and the delays of one lookup and one
\* fill.  The strict bound needs a moment to pass: without lifetime and delays an answer may
\* be given in the very tick in which its record is replaced.
THEOREM AnswersAreRecent ==
    ASSUME TTL + MaxDelay > 0
    PROVE  Spec => AnswersRecent
<1> DEFINE Answered(h) ==
      handler'[h].pc = "done" /\ ~At(h, "done") /\ handler[h].user \in Users =>
        Recent(handler[h].user, handler[h].requested, handler'[h].value, clock)
<1>1. TypeOK /\ RecentInv /\ [Next]_vars => \A h \in Handlers : Answered(h)
  <2> SUFFICES ASSUME TypeOK, RecentInv, [Next]_vars, NEW h \in Handlers,
                      handler'[h].pc = "done", ~At(h, "done"), handler[h].user \in Users
               PROVE  Recent(handler[h].user, handler[h].requested, handler'[h].value, clock)
    OBVIOUS
  <2>0. handler \in [Handlers -> Handler]
    BY DEF TypeOK
  <2>1. \/ Lookup(h) \/ Store(h)
    <3>1. handler'[h] # handler[h]
      BY DEF At
    <3>2. \E g \in Handlers : Resolve(g) \/ Lookup(g) \/ Get(g) \/ Store(g)
      BY <3>1 DEF Next, vars, WriteRecord, DropEntries, Tick
    <3>3. PICK g \in Handlers : Resolve(g) \/ Lookup(g) \/ Get(g) \/ Store(g)
      BY <3>2
    <3>4. \E r : Update(g, r)
      BY <3>3, LookupSteps DEF Resolve, Get, Resolved, Store, Answer
    <3>5. g = h
      BY <2>0, <3>1, <3>4 DEF Update
    <3>6. ~Resolve(h)
      BY <2>0 DEF Resolve, Update, Idle
    <3>7. ~Get(h)
      <4>1. handler[h] \in Handler
        BY <2>0
      <4>2. /\ Idle.pc = "idle"
            /\ \A v : [handler[h] EXCEPT !.pc = "store", !.stamp = clock, !.value = v,
                                         !.asOf = Latest(handler[h].user)].pc = "store"
        BY <4>1 DEF Handler, Idle
      <4>3. Get(h) => \E r : Update(h, r) /\ r.pc \in {"idle", "store"}
        BY <4>2 DEF Get, Resolved
      <4> QED BY <2>0, <4>3 DEF Update
    <3> QED BY <3>3, <3>5, <3>6, <3>7
  <2>2. CASE Lookup(h)
    <3>1. ~Update(h, [handler[h] EXCEPT !.pc = "get", !.stamp = 0])
      BY <2>0 DEF Update, Handler
    <3>2. PICK e \in cache[ServerOf[h]] :
             /\ e.user = handler[h].user /\ e.requested = handler[h].requested
             /\ e.expires > handler[h].stamp /\ Answer(h, e.value)
      BY <2>2, <3>1, LookupSteps
    <3>3. handler'[h].value = e.value
      BY <2>0, <3>2 DEF Answer, Update, Idle
    <3> QED BY <2>2, <3>2, <3>3, HitsRecent DEF Lookup
  <2>3. CASE Store(h)
    <3>1. handler'[h].value = handler[h].value
      BY <2>0, <2>3 DEF Store, Answer, Update, Idle
    <3> QED BY <2>3, <3>1, FillsRecent DEF Store
  <2> QED BY <2>1, <2>2, <2>3
<1>2. TypeOK /\ RecentInv /\ [Next]_vars =>
        [\A h \in Handlers :
           handler'[h].pc = "done" /\ ~At(h, "done") /\ handler[h].user \in Users =>
             LET records == grants[handler[h].user] IN
             \E n \in DOMAIN records :
               /\ handler'[h].value = Filtered(records[n].projects, handler[h].requested)
               /\ n < Len(records) => clock < records[n + 1].since + TTL + 2 * MaxDelay]_vars
  <2>1. TypeOK => \A u \in Users : DOMAIN grants[u] = 1..Len(grants[u])
    BY DEF TypeOK
  <2> QED BY <1>1, <2>1 DEF Recent
<1> QED BY <1>2, PermissionTyping, RecentInvariance, PTL DEF Spec, AnswersRecent
=============================================================================
