-------------------------- MODULE PermissionService --------------------------
(***************************************************************************)
(* Who may search what: the permission store shared by all API servers,    *)
(* the cache each server keeps in front of it, the search and answer       *)
(* requests that resolve permissions, and the updates that race with them. *)
(* The store keeps the last record of a user; the earlier ones are history.*)
(***************************************************************************)
EXTENDS Integers, Sequences, FiniteSets

CONSTANTS
    Servers,       \* API worker processes
    Handlers,      \* threads that serve search and answer requests
    Editors,       \* handlers of POST /permissions, and runs of sync-permissions
    ServerOf,      \* the process each of them runs in
    Users,
    NoUser,        \* a request without user id
    Projects,
    Requests,      \* what requests carry: a user id or none, and projects or none
    TTL,           \* permission_cache_ttl_seconds, in ticks; 0 disables the cache
    AllowRequestSupplied,   \* allow_request_supplied_permissions
    MaxDelay,      \* environment: ticks a thread may lie between two of its steps
    MaxArrivals,   \* bound: requests
    MaxUpserts,    \* bound: permission updates
    MaxClock       \* bound: ticks of the clock

ASSUME PermissionAssumption ==
    /\ NoUser \notin Users
    /\ ServerOf \in [Handlers \cup Editors -> Servers]
    /\ Requests \subseteq (Users \cup {NoUser}) \X SUBSET Projects
    /\ AllowRequestSupplied \in BOOLEAN
    /\ {TTL, MaxDelay, MaxArrivals, MaxUpserts, MaxClock} \subseteq Nat

VARIABLES
    clock,         \* time.monotonic()
    grants,        \* for each user the records written
    cache,         \* for each server the entries of its cache
    handler,       \* where each request is
    editor,        \* where each update is
    arrivals,
    upserts,
    completed      \* history: the last record of a user whose upsert a server completed

counters == <<arrivals, upserts>>
vars == <<clock, grants, cache, handler, editor, counters, completed>>

Record == [projects : SUBSET Projects, since : Nat]

\* `asOf' and `storedOver' are history: the number of the user's record an entry
\* was computed from, and of the one in force when the entry was stored.
Entry == [user : Users \cup {NoUser}, requested : SUBSET Projects, expires : Nat,
          value : SUBSET Projects, asOf : Nat, storedOver : Nat]

\* A request is idle before it arrives and after a 403; "done" holds the answer
\* to the last one.
Handler == [pc : {"idle", "lookup", "get", "store", "done"}, user : Users \cup {NoUser},
            requested : SUBSET Projects, stamp : Nat, value : SUBSET Projects, asOf : Nat]
Editor  == [pc : {"idle", "drop"}, user : Users \cup {NoUser}, written : Nat]

Idle   == [pc |-> "idle", user |-> NoUser, requested |-> {}, stamp |-> 0, value |-> {}, asOf |-> 0]
NoEdit == [pc |-> "idle", user |-> NoUser, written |-> 0]

\* Type correctness.
TypeOK ==
    /\ clock \in Nat
    /\ grants \in [Users -> Seq(Record)]
    /\ cache \in [Servers -> SUBSET Entry]
    /\ \A s \in Servers : \A e, f \in cache[s] :
          e.user = f.user /\ e.requested = f.requested => e = f
    /\ handler \in [Handlers -> Handler]
    /\ editor \in [Editors -> Editor]
    /\ {arrivals, upserts} \subseteq Nat
    /\ completed \in [Servers -> [Users -> Nat]]

Init ==
    /\ clock = 0
    /\ grants = [u \in Users |-> <<>>]
    /\ cache = [s \in Servers |-> {}]
    /\ handler = [h \in Handlers |-> Idle]
    /\ editor = [x \in Editors |-> NoEdit]
    /\ arrivals = 0
    /\ upserts = 0
    /\ completed = [s \in Servers |-> [u \in Users |-> 0]]

-----------------------------------------------------------------------------
(* resolve_allowed_projects.                                               *)

At(h, step) == handler[h].pc = step
Update(h, r) == handler' = [handler EXCEPT ![h] = r]

\* The request reaches the service, which reads the clock ...
Resolve(h) ==
    /\ At(h, "idle") \/ At(h, "done")
    /\ arrivals < MaxArrivals
    /\ arrivals' = arrivals + 1
    /\ \E r \in Requests :
         Update(h, [Idle EXCEPT !.pc = "lookup", !.user = r[1], !.requested = r[2],
                                !.stamp = clock])
    /\ UNCHANGED <<clock, grants, cache, editor, upserts, completed>>

SameKey(e, u, requested) == e.user = u /\ e.requested = requested

NeverExpires(e, now) == TRUE
Valid(e, now) == e.expires > now

Answer(h, value) == Update(h, [Idle EXCEPT !.pc = "done", !.value = value])

\* ... looks into the cache, unless it is disabled ...
Lookup(h) ==
    /\ At(h, "lookup")
    /\ LET found == {e \in cache[ServerOf[h]] :
                       /\ SameKey(e, handler[h].user, handler[h].requested)
                       /\ TTL > 0 /\ Valid(e, handler[h].stamp)}
       IN IF found = {} THEN Update(h, [handler[h] EXCEPT !.pc = "get", !.stamp = 0])
                        ELSE \E e \in found : Answer(h, e.value)
    /\ UNCHANGED <<clock, grants, cache, editor, counters, completed>>

Latest(u) == IF u = NoUser THEN 0 ELSE Len(grants[u])

\* Without requested projects a user gets all of theirs.
Filtered(projects, requested) ==
    IF requested = {} THEN projects ELSE projects \cap requested

Resolved(h, value) ==
    Update(h, [handler[h] EXCEPT !.pc = "store", !.stamp = clock, !.value = value,
                                 !.asOf = Latest(handler[h].user)])

\* ... reads the user's record, or without a user takes what was requested,
\* and else refuses ...
Get(h) ==
    /\ At(h, "get")
    /\ LET u == handler[h].user
           requested == handler[h].requested IN
       IF Latest(u) > 0
         THEN Resolved(h, Filtered(grants[u][Latest(u)].projects, requested))
       ELSE IF u = NoUser /\ AllowRequestSupplied /\ requested # {}
         THEN Resolved(h, requested)
       ELSE Update(h, Idle)
    /\ UNCHANGED <<clock, grants, cache, editor, counters, completed>>

EntryOf(h) == [user |-> handler[h].user, requested |-> handler[h].requested,
               expires |-> clock + TTL, value |-> handler[h].value,
               asOf |-> handler[h].asOf, storedOver |-> Latest(handler[h].user)]

Keeps(e, h) == ~SameKey(e, handler[h].user, handler[h].requested)

\* ... and replaces the entry of its key.  The lifetime starts now.
Store(h) ==
    /\ At(h, "store")
    /\ cache' = IF TTL = 0 THEN cache ELSE
         [cache EXCEPT ![ServerOf[h]] =
            {e \in @ : Keeps(e, h)} \cup {EntryOf(h)}]
    /\ Answer(h, handler[h].value)
    /\ UNCHANGED <<clock, grants, editor, counters, completed>>

-----------------------------------------------------------------------------
(* upsert, and time.                                                       *)

WriteRecord(x) ==
    /\ editor[x].pc = "idle" /\ upserts < MaxUpserts
    /\ upserts' = upserts + 1
    /\ \E u \in Users, P \in SUBSET Projects :
         /\ grants' = [grants EXCEPT ![u] = Append(@, [projects |-> P, since |-> clock])]
         /\ editor' = [editor EXCEPT ![x] = [pc |-> "drop", user |-> u,
                                             written |-> Latest(u) + 1]]
    /\ UNCHANGED <<clock, cache, handler, arrivals, completed>>

DropsExactKey(e, u) == SameKey(e, u, {})
Drops(e, u) == e.user = u

\* All entries of the user, whatever was requested.
DropEntries(x) ==
    /\ editor[x].pc = "drop"
    /\ LET u == editor[x].user
           s == ServerOf[x] IN
         /\ cache' = [cache EXCEPT ![s] = {e \in @ : ~Drops(e, u)}]
         /\ completed' = [completed EXCEPT ![s][u] =
              IF @ < editor[x].written THEN editor[x].written ELSE @]
    /\ editor' = [editor EXCEPT ![x] = NoEdit]
    /\ UNCHANGED <<clock, grants, handler, counters>>

\* Between a clock reading and the step that uses it, and between reading the
\* record and storing what follows from it, at most MaxDelay ticks pass.
Tick ==
    /\ clock < MaxClock
    /\ \A h \in Handlers : At(h, "lookup") \/ At(h, "store") => clock < handler[h].stamp + MaxDelay
    /\ clock' = clock + 1
    /\ UNCHANGED <<grants, cache, handler, editor, counters, completed>>

Next ==
    \/ \E h \in Handlers : Resolve(h) \/ Lookup(h) \/ Get(h) \/ Store(h)
    \/ \E x \in Editors : WriteRecord(x) \/ DropEntries(x)
    \/ Tick

Spec == Init /\ [][Next]_vars

-----------------------------------------------------------------------------
(* Properties.                                                             *)

\* Whatever races between requests and updates on any server, an answer is what
\* the store would have answered to the same request at some moment of the last
\* cache lifetime, give or take the delays of one lookup and one fill.
AnswersRecent ==
    [][\A h \in Handlers :
         handler'[h].pc = "done" /\ ~At(h, "done") /\ handler[h].user \in Users =>
           LET records == grants[handler[h].user] IN
           \E n \in DOMAIN records :
             /\ handler'[h].value = Filtered(records[n].projects, handler[h].requested)
             /\ n < Len(records) => clock < records[n + 1].since + TTL + 2 * MaxDelay]_vars

\* A server that completed an update of a user keeps no older permissions of
\* that user in its cache, under whatever filter, except those a request read
\* before the update and stored after it.
OwnUpdatesSeen ==
    \A s \in Servers : \A e \in cache[s] :
        e.user \in Users /\ e.asOf = e.storedOver => e.asOf >= completed[s][e.user]
=============================================================================
