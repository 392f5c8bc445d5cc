----------------------------- MODULE Communities -----------------------------
(***************************************************************************)
(* Communities of the symbols of one project and branch: the rebuild that  *)
(* ends a full index job, from the graph it reads over label propagation   *)
(* to the documents it deletes and writes.  Other jobs change the graph    *)
(* between two rebuilds.  Labels and summaries of communities are data.    *)
(***************************************************************************)
EXTENDS Integers, Sequences, FiniteSets, FiniteSetsExt, SequencesExt

CONSTANTS
    Symbols,         \* defined symbols, numbered in the order of their names (FQNs)
    Unknown,         \* names in edges that are no symbol's FQN
    LastName,        \* the last component of a name
    MinSize,         \* community_min_size
    MaxMembers,      \* community_max_members
    MaxRounds,       \* max_iterations
    EdgeChoices,     \* bound: the edges the jobs write
    RefreshBetween,  \* environment: a refresh interval passes between two rebuilds
    MaxRebuilds,     \* bound: rebuilds
    MaxErrors        \* bound: requests that raise

Targets == Symbols \cup Unknown

ASSUME CommunitiesAssumption ==
    /\ Symbols \subseteq Nat /\ IsFiniteSet(Symbols) /\ Symbols \cap Unknown = {}
    /\ EdgeChoices \subseteq [source : Targets, target : Targets]
    /\ {MinSize, MaxMembers, MaxRounds} \subseteq Nat \ {0}
    /\ {MaxRebuilds, MaxErrors} \subseteq Nat
    /\ RefreshBetween \in BOOLEAN

VARIABLES
    edges,      \* the edges in the index
    links,      \* the graph a rebuild works on: sets of two symbols
    labels,     \* the label of each symbol
    todo,       \* the symbols this round has still to visit
    changed,    \* a label changed in this round
    round,      \* rounds begun
    phase,      \* idle, propagate, embed, delete, write
    detected,   \* the communities of this rebuild
    stored,     \* the community documents
    seen,       \* ... as of the last refresh
    written,    \* the ids written since then
    rebuilds, errors,
    broken      \* history: the last rebuild raised

graph  == <<edges, links>>
spread == <<labels, todo, changed, round>>
index  == <<stored, seen, written>>
bounds == <<rebuilds, errors>>
vars   == <<graph, spread, phase, detected, index, bounds, broken>>

Community == [id : Symbols, members : Seq(Symbols), size : Nat]

\* Type correctness; no two documents have one id.
TypeOK ==
    /\ edges \subseteq EdgeChoices
    /\ links \subseteq SUBSET Symbols
    /\ labels \in [Symbols -> Symbols]
    /\ todo \subseteq Symbols /\ changed \in BOOLEAN /\ round \in 0..MaxRounds
    /\ phase \in {"idle", "propagate", "embed", "delete", "write"}
    /\ \A D \in {detected, stored, seen} :
          D \subseteq Community /\ \A c, d \in D : c.id = d.id => c = d
    /\ written \subseteq Symbols
    /\ rebuilds \in 0..MaxRebuilds /\ errors \in 0..MaxErrors /\ broken \in BOOLEAN

Init ==
    /\ edges \in SUBSET EdgeChoices
    /\ links = {}
    /\ labels = [n \in Symbols |-> n]
    /\ todo = {} /\ changed = FALSE /\ round = 0
    /\ phase = "idle"
    /\ detected = {}
    /\ stored = {} /\ seen = {} /\ written = {}
    /\ rebuilds = 0 /\ errors = 0
    /\ broken = FALSE

-----------------------------------------------------------------------------
(* The graph.                                                              *)

\* A name is a symbol's, or the one symbol with its last component stands for it.
Named(t) == {n \in Symbols : LastName[n] = LastName[t]}

ResolveAny(t) == IF t \in Symbols THEN {t} ELSE Named(t)
Resolve(t) ==
    IF t \in Symbols THEN {t}
    ELSE IF Cardinality(Named(t)) = 1 THEN Named(t) ELSE {}

\* Edges of unknown sources, unresolved targets and self references link nothing.
Adjacency(E) ==
    UNION {{{e.source, n} : n \in Resolve(e.target) \ {e.source}} :
             e \in {f \in E : f.source \in Symbols}}

Near(n) == {m \in Symbols : m # n /\ {m, n} \in links}

-----------------------------------------------------------------------------
(* Label propagation.                                                      *)

\* The graph is read after a refresh of the symbol and edge indices.
Read ==
    /\ phase = "idle"
    /\ rebuilds < MaxRebuilds
    /\ RefreshBetween => stored = seen /\ written = {}
    /\ rebuilds' = rebuilds + 1
    /\ links' = Adjacency(edges)
    /\ labels' = [n \in Symbols |-> n]
    /\ todo' = Symbols /\ changed' = FALSE /\ round' = 1
    /\ phase' = "propagate"
    /\ broken' = FALSE
    /\ UNCHANGED <<edges, detected, index, errors>>

Votes(n, l) == Cardinality({m \in Near(n) : labels[m] = l})

WinsLargest(n, l) ==
    \A k \in {labels[m] : m \in Near(n)} :
        Votes(n, k) < Votes(n, l) \/ (Votes(n, k) = Votes(n, l) /\ l >= k)

\* The most frequent label of the neighbours, the smallest of several.
Wins(n, l) ==
    \A k \in {labels[m] : m \in Near(n)} :
        Votes(n, k) < Votes(n, l) \/ (Votes(n, k) = Votes(n, l) /\ l <= k)

\* Symbols are visited in order and labels replaced in place: a later visit of the
\* same round sees them. A symbol without neighbours keeps its own.
Visit(n) ==
    /\ phase = "propagate"
    /\ n \in todo /\ \A m \in todo : n <= m
    /\ todo' = todo \ {n}
    /\ IF Near(n) = {} THEN UNCHANGED <<labels, changed>>
       ELSE \E l \in {labels[m] : m \in Near(n)} :
              /\ Wins(n, l)
              /\ labels' = [labels EXCEPT ![n] = l]
              /\ changed' = (changed \/ labels[n] # l)
    /\ UNCHANGED <<graph, round, phase, detected, index, bounds, broken>>

MoreRounds == changed /\ round < MaxRounds

NextRound ==
    /\ phase = "propagate" /\ todo = {} /\ MoreRounds
    /\ todo' = Symbols /\ changed' = FALSE /\ round' = round + 1
    /\ UNCHANGED <<graph, labels, phase, detected, index, bounds, broken>>

-----------------------------------------------------------------------------
(* Communities and their documents.                                        *)

Group(l) == {n \in Symbols : labels[n] = l}

\* The best connected members, by name where they have as many links.
Ahead(m, n) ==
    \/ Cardinality(Near(m)) > Cardinality(Near(n))
    \/ Cardinality(Near(m)) = Cardinality(Near(n)) /\ m < n

Ranked(G) == SetToSortSeq(G, Ahead)
Kept(q) == SubSeq(q, 1, Min({Len(q), MaxMembers}))

\* The id of a community hashes its best connected member.
CommunityOf(G) ==
    [id |-> Ranked(G)[1], members |-> Kept(Ranked(G)), size |-> Cardinality(G)]

Detect ==
    /\ phase = "propagate" /\ todo = {} /\ ~MoreRounds
    /\ detected' = {CommunityOf(Group(l)) :
                      l \in {k \in Symbols : Cardinality(Group(k)) >= MinSize}}
    /\ phase' = "embed"
    /\ UNCHANGED <<graph, spread, index, bounds, broken>>

\* Summaries are embedded before anything is deleted.
Embed ==
    /\ phase = "embed"
    /\ phase' = "delete"
    /\ UNCHANGED <<graph, spread, detected, index, bounds, broken>>

Ids(D) == {c.id : c \in D}

DeletedNone == stored

\* delete_by_query: what searches see, unless it has been written since.
Deleted == {c \in stored : c.id \in written \/ c.id \notin Ids(seen)}

Delete ==
    /\ phase = "delete"
    /\ stored' = Deleted
    /\ phase' = "write"
    /\ UNCHANGED <<graph, spread, detected, seen, written, bounds, broken>>

\* What a rebuild worked on is gone with its stack frame.
EndRebuild ==
    /\ phase' = "idle"
    /\ links' = {}
    /\ labels' = [n \in Symbols |-> n]
    /\ todo' = {} /\ changed' = FALSE /\ round' = 0

Write ==
    /\ phase = "write"
    /\ stored' = {c \in stored : c.id \notin Ids(detected)} \cup detected
    /\ written' = written \cup Ids(detected)
    /\ EndRebuild
    /\ UNCHANGED <<edges, detected, seen, bounds, broken>>

\* "never fail indexing over it": whatever raises ends the rebuild silently.
Fail ==
    /\ phase \in {"embed", "delete", "write"}
    /\ errors < MaxErrors
    /\ errors' = errors + 1
    /\ EndRebuild
    /\ broken' = TRUE
    /\ UNCHANGED <<edges, detected, index, rebuilds>>

Refresh ==
    /\ seen # stored \/ written # {}
    /\ seen' = stored /\ written' = {}
    /\ UNCHANGED <<graph, spread, phase, detected, stored, bounds, broken>>

\* Another job of the branch writes or deletes an edge.
Reindex ==
    /\ phase = "idle" /\ rebuilds < MaxRebuilds
    /\ \E e \in EdgeChoices : edges' \in {edges \cup {e}, edges \ {e}}
    /\ UNCHANGED <<links, spread, phase, detected, index, bounds, broken>>

Next ==
    \/ Read \/ (\E n \in Symbols : Visit(n)) \/ NextRound
    \/ Detect \/ Embed \/ Delete \/ Write \/ Fail \/ Refresh \/ Reindex

Spec == Init /\ [][Next]_vars

-----------------------------------------------------------------------------
(* Properties.                                                             *)

\* Symbol n is what the name t means: its own name, or the only one it can end.
Means(t, n) ==
    n = t \/ (LastName[n] = LastName[t]
              /\ \A m \in Symbols : LastName[m] = LastName[t] => m = n)

\* No edge leads into the symbols S or out of them.
Closed(S) ==
    \A e \in edges, n \in Symbols :
        e.source \in Symbols /\ Means(e.target, n) => (e.source \in S <=> n \in S)

\* Symbols of one label are joined by a chain of edges: labels that are replaced in
\* place while others are still to be visited never cross between parts of the code
\* that no edge joins, and an ambiguous name joins nothing.
OneLabelOneComponent ==
    \A S \in SUBSET Symbols : Closed(S) =>
        \A m, n \in Symbols : labels[m] = labels[n] => (m \in S <=> n \in S)

Agreeing(l) == Cardinality({p \in links : \A m, n \in p : l[m] = l[n]})

\* Updating in place makes progress with every label it changes: more links join
\* equal labels, or as many do and no label is larger than it was. So rounds that change
\* labels cannot go on for ever, which synchronous rounds on two linked symbols do.
UpdatesConverge ==
    [][phase = "propagate" /\ labels' # labels =>
        \/ Agreeing(labels') > Agreeing(labels)
        \/ /\ Agreeing(labels') = Agreeing(labels)
           /\ \A n \in Symbols : labels'[n] <= labels[n]]_vars

\* Between rebuilds the index holds the communities of the last one and no other,
\* also when an earlier rebuild raised half way: the graph changed, communities
\* have other ids, and deletion goes by what searches see.
StoredAreLast == phase = "idle" /\ rebuilds > 0 /\ ~broken => stored = detected
=============================================================================
