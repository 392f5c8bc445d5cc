----------------------------- MODULE SearchProofs -----------------------------
(* Proofs about a search: the communities and what a search finds over them *)
(* (Communities, HybridSearch), and the pool and the cache it runs on       *)
(* (Retrieval), for every graph and for any number of searches and workers. *)
EXTENDS HybridSearch, Retrieval, FiniteSetTheorems, SequenceTheorems, TLAPS

-----------------------------------------------------------------------------
(* Numbers, sequences, filters and sorts.                                   *)

\* A function of an initial segment is a sequence.
LEMMA TableIsSeq ==
    ASSUME NEW n \in Nat, NEW S, NEW f \in [1..n -> S]
    PROVE  f \in Seq(S) /\ Len(f) = n /\ DOMAIN f = 1..n
  <1>1. f \in Seq(S)
    BY SeqDef
  <1> QED BY <1>1

\* The places of two sequences in their concatenation.
LEMMA Joined ==
    ASSUME NEW S, NEW a \in Seq(S), NEW b \in Seq(S)
    PROVE  /\ a \o b \in Seq(S) /\ Len(a \o b) = Len(a) + Len(b)
           /\ Len(a) \in Nat /\ Len(b) \in Nat
           /\ \A i \in 1..Len(a) : (a \o b)[i] = a[i]
           /\ \A i \in (Len(a) + 1)..(Len(a) + Len(b)) : (a \o b)[i] = b[i - Len(a)]
  <1>1. Len(a) \in Nat /\ Len(b) \in Nat
    OBVIOUS
  <1>2. a \o b \in Seq(S) /\ Len(a \o b) = Len(a) + Len(b)
    OBVIOUS
  <1>3. \A i \in 1..(Len(a) + Len(b)) : (a \o b)[i] = IF i <= Len(a) THEN a[i] ELSE b[i - Len(a)]
    OBVIOUS
  <1> QED BY <1>1, <1>2, <1>3

\* The smallest of some natural numbers.
LEMMA LeastOf ==
    ASSUME NEW S \in SUBSET Nat, S # {}
    PROVE  \E n \in S : \A m \in S : n <= m
  <1> DEFINE R == {ss \in Nat \X Nat : ss[1] < ss[2]}
  <1>1. IsWellFoundedOn(R, Nat)
    BY NatLessThanWellFounded DEF OpToRel
  <1>2. \A x, y \in Nat : x < y => <<x, y>> \in R
    OBVIOUS
  <1> HIDE DEF R
  <1>3. \E x \in S : \A y \in S : ~ (<<y, x>> \in R)
    BY <1>1, WFMin
  <1>4. PICK n \in S : \A m \in S : ~ (<<m, n>> \in R)
    BY <1>3
  <1>5. ASSUME NEW m \in S PROVE n <= m
    <2>1. n \in Nat /\ m \in Nat /\ ~(m < n)
      BY <1>2, <1>4
    <2> QED BY <2>1
  <1> QED BY <1>5

\* The largest of bounded natural numbers is one of them.
LEMMA LargestOf ==
    ASSUME NEW S \in SUBSET Nat, S # {}, NEW b \in Nat, \A n \in S : n <= b
    PROVE  Max(S) \in S /\ \A n \in S : n <= Max(S)
  <1> DEFINE B == {c \in Nat : \A n \in S : n <= c}
  <1>1. PICK c \in B : \A d \in B : c <= d
    <2>1. B \in SUBSET Nat /\ B # {}
      OBVIOUS
    <2> HIDE DEF B
    <2> QED BY <2>1, LeastOf
  <1>2. c \in Nat /\ \A n \in S : n <= c
    OBVIOUS
  <1>3. c \in S
    <2> SUFFICES ASSUME c \notin S PROVE FALSE
      OBVIOUS
    <2>1. \A n \in S : n \in Nat /\ n < c
      BY <1>2
    <2>2. PICK x \in S : x \in Nat /\ x < c
      BY <2>1
    <2>3. c - 1 \in Nat /\ \A n \in S : n <= c - 1
      BY <1>2, <2>1, <2>2
    <2>4. c <= c - 1
      BY <1>1, <2>3
    <2> QED BY <1>2, <2>4
  <1>4. \E x \in S : \A y \in S : x >= y
    BY <1>2, <1>3
  <1>5. Max(S) \in S /\ \A y \in S : Max(S) >= y
    BY <1>4 DEF Max
  <1> QED BY <1>5

\* The place of rank k has it, and is one of the places ranked.
LEMMA PlacedHasRank ==
    ASSUME NEW P, IsFiniteSet(P), NEW rank \in Injection(P, 1..Cardinality(P))
    PROVE  \A k \in 1..Cardinality(P) : Placed(rank)[k] \in P /\ rank[Placed(rank)[k]] = k
  <1>1. Cardinality(P) \in Nat
    BY FS_CardinalityType
  <1>2. IsFiniteSet(1..Cardinality(P)) /\ Cardinality(1..Cardinality(P)) = Cardinality(P)
    BY <1>1, FS_Interval
  <1>3. rank \in Surjection(P, 1..Cardinality(P))
    BY <1>2, FS_Injection
  <1>4. DOMAIN rank = P
    BY DEF Injection
  <1>5. ASSUME NEW k \in 1..Cardinality(P)
        PROVE  Placed(rank)[k] \in P /\ rank[Placed(rank)[k]] = k
    <2>1. PICK i \in P : rank[i] = k
      BY <1>3 DEF Surjection
    <2>2. k \in Range(rank)
      BY <1>4, <2>1 DEF Range
    <2>3. Placed(rank)[k] = CHOOSE s \in P : k \in Range(rank) => rank[s] = k
      BY <1>4 DEF Placed, Inverse
    <2> QED BY <2>1, <2>2, <2>3
  <1> QED BY <1>5

\* Whatever the ranks, only what is ranked is placed.
LEMMA PlacedIsRanked ==
    ASSUME NEW rank, NEW k \in 1..Cardinality(DOMAIN rank), DOMAIN rank # {}
    PROVE  Placed(rank)[k] \in DOMAIN rank
  <1>1. Placed(rank)[k] = CHOOSE s \in DOMAIN rank : k \in Range(rank) => rank[s] = k
    BY DEF Placed, Inverse
  <1>2. \E s \in DOMAIN rank : k \in Range(rank) => rank[s] = k
    BY DEF Range
  <1> QED BY <1>1, <1>2

\* Numbers are counted from 1 without gaps.
LEMMA CountsInject ==
    ASSUME NEW P \in SUBSET Nat, IsFiniteSet(P)
    PROVE  Counts(P) \in Injection(P, 1..Cardinality(P))
  <1> DEFINE Upto(i) == {j \in P : j <= i}
  <1>1. \A i \in P : /\ Upto(i) \in SUBSET P /\ IsFiniteSet(Upto(i))
                     /\ Cardinality(Upto(i)) \in Nat /\ Cardinality(Upto(i)) <= Cardinality(P)
    <2>1. \A i \in P : Upto(i) \in SUBSET P
      OBVIOUS
    <2> HIDE DEF Upto
    <2> QED BY <2>1, FS_Subset, FS_CardinalityType
  <1>2. Cardinality(P) \in Nat
    BY FS_CardinalityType
  <1>3. ASSUME NEW i \in P PROVE Cardinality(Upto(i)) # 0
    <2>1. i \in Upto(i)
      OBVIOUS
    <2> HIDE DEF Upto
    <2> QED BY <1>1, <2>1, FS_EmptySet
  <1>4. ASSUME NEW i \in P, NEW j \in P, i < j PROVE Cardinality(Upto(i)) # Cardinality(Upto(j))
    <2>1. /\ \A x \in P : x <= i => x <= j
          /\ j <= j /\ ~(j <= i)
      <3>1. i \in Nat /\ j \in Nat /\ \A x \in P : x \in Nat
        OBVIOUS
      <3> HIDE DEF Upto
      <3> QED BY <1>4, <3>1
    <2>3. Upto(i) \in SUBSET Upto(j) /\ j \in Upto(j) /\ j \notin Upto(i)
      <3>1. \A x : x \in Upto(i) => x \in Upto(j)
        BY <2>1
      <3> QED BY <2>1, <3>1
    <2> HIDE DEF Upto
    <2>2. IsFiniteSet(Upto(j))
      BY <1>1
    <2> QED BY <2>3, <2>2, FS_Subset
  <1>5. \A i \in P : Counts(P)[i] = Cardinality(Upto(i))
    BY DEF Counts
  <1>6. DOMAIN Counts(P) = P /\ Counts(P) = [i \in P |-> Cardinality(Upto(i))]
    BY DEF Counts
  <1> HIDE DEF Upto
  <1>7. Counts(P) \in [P -> 1..Cardinality(P)]
    <2>1. \A i \in P : Cardinality(Upto(i)) \in 1..Cardinality(P)
      BY <1>1, <1>2, <1>3
    <2> QED BY <1>6, <2>1
  <1>8. IsInjective(Counts(P))
    <2> SUFFICES ASSUME NEW i \in P, NEW j \in P, Counts(P)[i] = Counts(P)[j], i # j PROVE FALSE
      BY <1>6 DEF IsInjective
    <2>1. i < j \/ j < i
      OBVIOUS
    <2>2. Cardinality(Upto(i)) = Cardinality(Upto(j))
      BY <1>5
    <2> QED BY <2>1, <2>2, <1>4
  <1> QED BY <1>7, <1>8 DEF Injection

\* A filter keeps the elements at the places it picks, each once, and no others.
LEMMA PickedIsFilter ==
    ASSUME NEW S, NEW q \in Seq(S), NEW P \in SUBSET DOMAIN q
    PROVE  /\ Picked(q, P) \in Seq(S)
           /\ Len(Picked(q, P)) = Cardinality(P)
           /\ Cardinality(P) \in Nat /\ Cardinality(P) <= Len(q)
           /\ Range(Picked(q, P)) = {q[i] : i \in P}
           /\ IsInjective(q) => IsInjective(Picked(q, P))
  <1>1. DOMAIN q = 1..Len(q) /\ Len(q) \in Nat /\ \A i \in DOMAIN q : q[i] \in S
    BY ElementOfSeq
  <1>2. IsFiniteSet(1..Len(q)) /\ Cardinality(1..Len(q)) = Len(q)
    <2>1. 1 \in Int /\ Len(q) \in Int /\ (1 > Len(q) => Len(q) = 0) /\ Len(q) - 1 + 1 = Len(q)
      BY <1>1
    <2> QED BY <2>1, FS_Interval
  <1>3. P \in SUBSET (1..Len(q)) /\ P \in SUBSET Nat
    BY <1>1
  <1>4. IsFiniteSet(P) /\ Cardinality(P) <= Len(q) /\ Cardinality(P) \in Nat
    BY <1>2, <1>3, FS_Subset, FS_CardinalityType
  <1> DEFINE rank == Counts(P)
             n == Cardinality(P)
             place == Placed(rank)
             p == Picked(q, P)
  <1>5. rank \in Injection(P, 1..n)
    BY <1>3, <1>4, CountsInject
  <1>6. \A k \in 1..n : place[k] \in P /\ rank[place[k]] = k
    BY <1>4, <1>5, PlacedHasRank
  <1>7. p = [k \in 1..n |-> q[place[k]]]
    BY DEF Picked
  <1>8. \A i \in P : rank[i] \in 1..n /\ place[rank[i]] = i
    <2>1. rank \in [P -> 1..n] /\ \A a, b \in P : rank[a] = rank[b] => a = b
      BY <1>5 DEF Injection, IsInjective
    <2> HIDE DEF rank, place, n
    <2> QED BY <2>1, <1>6
  <1> HIDE DEF rank, place, n, p
  <1>9. p \in [1..n -> S] /\ DOMAIN p = 1..n /\ \A k \in 1..n : p[k] = q[place[k]]
    BY <1>1, <1>3, <1>6, <1>7
  <1>10. p \in Seq(S) /\ Len(p) = n
    BY <1>4, <1>9, TableIsSeq DEF n
  <1>11. Range(p) = {q[i] : i \in P}
    BY <1>6, <1>8, <1>9 DEF Range
  <1>12. ASSUME IsInjective(q) PROVE IsInjective(p)
    <2> SUFFICES ASSUME NEW a \in 1..n, NEW b \in 1..n, p[a] = p[b] PROVE a = b
      BY <1>9 DEF IsInjective
    <2>1. place[a] = place[b]
      BY <1>12, <1>3, <1>6, <1>9 DEF IsInjective
    <2> QED BY <2>1, <1>6
  <1> QED BY <1>4, <1>10, <1>11, <1>12 DEF p, n

\* Sorting by score finds no element that was not there.
LEMMA DescendingKeeps ==
    ASSUME NEW S, NEW q \in Seq(S), NEW sc
    PROVE  Descending(q, sc) \in Seq(S) /\ Range(Descending(q, sc)) \subseteq Range(q)
  <1> DEFINE rank == [i \in DOMAIN q |->
                        Cardinality({j \in DOMAIN q :
                          sc[q[j]] > sc[q[i]] \/ (sc[q[j]] = sc[q[i]] /\ j <= i)})]
             d == Descending(q, sc)
  <1>1. DOMAIN q = 1..Len(q) /\ Len(q) \in Nat /\ \A i \in DOMAIN q : q[i] \in S
    BY ElementOfSeq
  <1>2. Cardinality(DOMAIN q) = Len(q)
    BY <1>1, FS_Interval
  <1>3. d = [k \in DOMAIN q |-> q[Placed(rank)[k]]]
    BY DEF Descending
  <1>4. DOMAIN rank = DOMAIN q
    OBVIOUS
  <1> HIDE DEF rank, d
  <1>5. \A k \in DOMAIN q : Placed(rank)[k] \in DOMAIN q
    BY <1>1, <1>2, <1>4, PlacedIsRanked
  <1>6. d \in [1..Len(q) -> S]
    BY <1>1, <1>3, <1>5
  <1>7. d \in Seq(S)
    BY <1>1, <1>6, TableIsSeq
  <1>8. Range(d) \subseteq Range(q)
    BY <1>3, <1>5 DEF Range
  <1> QED BY <1>7, <1>8 DEF d

\* The smaller of two numbers.
LEMMA MinOfTwo ==
    ASSUME NEW a \in Nat, NEW b \in Nat
    PROVE  Min({a, b}) = IF a <= b THEN a ELSE b
  BY DEF Min

\* The beginning of a sequence.
LEMMA FirstKeeps ==
    ASSUME NEW S, NEW q \in Seq(S), NEW n \in Nat
    PROVE  First(q, n) \in Seq(S) /\ Range(First(q, n)) \subseteq Range(q)
  <1>1. Len(q) \in Nat
    OBVIOUS
  <1> DEFINE m == Min({n, Len(q)})
  <1>2. m \in 0..Len(q)
    BY <1>1, MinOfTwo
  <1>3. First(q, n) = SubSeq(q, 1, m)
    BY DEF First
  <1> HIDE DEF m
  <1>4. SubSeq(q, 1, m) \in Seq(S) /\ Len(SubSeq(q, 1, m)) = m
        /\ \A i \in 1..m : SubSeq(q, 1, m)[i] = q[i]
    BY <1>2
  <1>5. Range(SubSeq(q, 1, m)) \subseteq Range(q)
    BY <1>1, <1>2, <1>4 DEF Range
  <1> QED BY <1>3, <1>4, <1>5

-----------------------------------------------------------------------------
(* Labels stay within their part of the graph.                              *)

\* What a name resolves to, the name means.
LEMMA ResolveMeans ==
    ASSUME CommunitiesAssumption, NEW t \in Targets, NEW n \in Resolve(t)
    PROVE  n \in Symbols /\ Means(t, n)
  <1>1. CASE t \in Symbols
    BY <1>1 DEF Resolve, Means
  <1>2. CASE t \notin Symbols
    <2>1. n \in Named(t) /\ Cardinality(Named(t)) = 1
      BY <1>2 DEF Resolve
    <2>2. IsFiniteSet(Named(t))
      BY FS_Subset DEF CommunitiesAssumption, Named
    <2>3. PICK x : Named(t) = {x}
      BY <2>1, <2>2, FS_Singleton
    <2> QED BY <2>1, <2>3 DEF Named, Means
  <1> QED BY <1>1, <1>2

\* Symbols that the graph links are in the same closed sets of symbols.
LEMMA LinksStayClosed ==
    ASSUME CommunitiesAssumption, edges \subseteq EdgeChoices, NEW S, Closed(S),
           NEW m, NEW n, m # n, {m, n} \in Adjacency(edges)
    PROVE  m \in S <=> n \in S
  <1>1. PICK e \in edges : /\ e.source \in Symbols
                           /\ \E k \in Resolve(e.target) \ {e.source} : {m, n} = {e.source, k}
    BY DEF Adjacency
  <1>2. PICK k \in Resolve(e.target) : {m, n} = {e.source, k}
    BY <1>1
  <1>3. e.target \in Targets
    BY DEF CommunitiesAssumption
  <1>4. k \in Symbols /\ Means(e.target, k)
    BY <1>3, ResolveMeans
  <1>5. e.source \in S <=> k \in S
    BY <1>1, <1>4 DEF Closed
  <1> QED BY <1>2, <1>5

\* A rebuild works on the graph of the current edges, and a label belongs to the closed
\* sets its symbol belongs to.
LabelInv ==
    /\ edges \subseteq EdgeChoices
    /\ labels \in [Symbols -> Symbols]
    /\ phase \in {"idle", "propagate", "embed", "delete", "write"}
    /\ IF phase = "idle" THEN labels = [n \in Symbols |-> n] ELSE links = Adjacency(edges)
    /\ \A S \in SUBSET Symbols : Closed(S) => \A n \in Symbols : labels[n] \in S <=> n \in S

\* Visits replace labels in place, and edges change between rebuilds: whatever the order,
\* no label leaves the part of the graph it began in.
THEOREM LabelInvariance == Spec => []LabelInv
<1> USE CommunitiesAssumption
<1>1. Init => LabelInv
  BY DEF Init, LabelInv
<1>2. LabelInv /\ [Next]_vars => LabelInv'
  <2> SUFFICES ASSUME LabelInv, [Next]_vars PROVE LabelInv'
    OBVIOUS
  <2> USE DEF LabelInv, graph, spread, index, bounds
  \* Between rebuilds every symbol has its own label, whatever the edges are.
  <2>1. ASSUME phase' = "idle", labels' = [n \in Symbols |-> n], edges' \subseteq EdgeChoices
        PROVE  LabelInv'
    BY <2>1
  <2>2. CASE Read
    BY <2>2 DEF Read, Closed, Means
  <2>3. ASSUME NEW n \in Symbols, Visit(n) PROVE LabelInv'
    <3>1. UNCHANGED <<edges, links, phase>> /\ phase = "propagate" /\ links = Adjacency(edges)
      BY <2>3 DEF Visit
    <3>2. CASE UNCHANGED labels
      BY <3>1, <3>2 DEF Closed, Means
    <3>3. CASE \E m \in Near(n) : labels' = [labels EXCEPT ![n] = labels[m]]
      <4>1. PICK m \in Near(n) : labels' = [labels EXCEPT ![n] = labels[m]]
        BY <3>3
      <4>2. m \in Symbols /\ m # n /\ {m, n} \in Adjacency(edges)
        BY <3>1 DEF Near
      <4>3. ASSUME NEW S \in SUBSET Symbols, Closed(S), NEW k \in Symbols
            PROVE  labels'[k] \in S <=> k \in S
        BY <4>1, <4>2, <4>3, LinksStayClosed
      <4>4. \A S \in SUBSET Symbols : Closed(S)' <=> Closed(S)
        BY <3>1 DEF Closed, Means
      <4>5. labels' \in [Symbols -> Symbols]
        BY <4>1, <4>2
      <4> QED BY <3>1, <4>3, <4>4, <4>5
    <3> QED BY <2>3, <3>2, <3>3 DEF Visit
  <2>4. CASE Write \/ Fail
    BY <2>1, <2>4 DEF Write, Fail, EndRebuild
  <2>5. CASE Reindex
    BY <2>1, <2>5 DEF Reindex
  <2>6. CASE NextRound \/ Detect \/ Embed \/ Delete \/ Refresh \/ UNCHANGED vars
    <3>1. /\ UNCHANGED <<edges, links, labels>>
          /\ phase' = phase \/ (phase # "idle" /\ phase' \in {"embed", "delete", "write"})
      BY <2>6 DEF NextRound, Detect, Embed, Delete, Refresh, vars
    <3> QED BY <3>1 DEF Closed, Means
  <2> QED BY <2>2, <2>3, <2>4, <2>5, <2>6 DEF Next
<1> QED BY <1>1, <1>2, PTL DEF Spec

\* Symbols that label propagation gives one label are joined by a chain of edges, for
\* every graph and at every moment of a round.
THEOREM LabelsFollowEdges == Spec => []OneLabelOneComponent
<1>1. LabelInv => OneLabelOneComponent
  <2> SUFFICES ASSUME LabelInv, NEW S \in SUBSET Symbols, Closed(S),
                      NEW m \in Symbols, NEW n \in Symbols, labels[m] = labels[n]
               PROVE  m \in S <=> n \in S
    BY DEF OneLabelOneComponent
  <2> QED BY DEF LabelInv
<1> QED BY <1>1, LabelInvariance, PTL

-----------------------------------------------------------------------------
(* What a rebuild leaves in the index.                                      *)

\* Until it deletes, a rebuild finds the documents searches see; it deletes them all.
StoreInv ==
    /\ phase \in {"propagate", "embed", "delete"} => stored = seen /\ written = {}
    /\ phase = "write" => stored = {}
    /\ StoredAreLast

\* When a refresh interval passes between two rebuilds, each rebuild that does not raise
\* replaces all communities, also those of one that raised half way.
THEOREM RebuildsReplace ==
    ASSUME RefreshBetween
    PROVE  Spec => []StoredAreLast
<1>1. Init => StoreInv
  BY DEF Init, StoreInv, StoredAreLast
<1>2. StoreInv /\ [Next]_vars => StoreInv'
  <2> SUFFICES ASSUME StoreInv, [Next]_vars PROVE StoreInv'
    OBVIOUS
  <2> USE DEF StoreInv, StoredAreLast, graph, spread, index, bounds
  <2>1. CASE Read
    BY <2>1, RefreshBetween DEF Read
  <2>2. ASSUME NEW n \in Symbols, Visit(n) PROVE StoreInv'
    BY <2>2 DEF Visit
  <2>3. CASE NextRound \/ Detect \/ Embed
    BY <2>3 DEF NextRound, Detect, Embed
  <2>4. CASE Delete
    <3>1. Deleted = {}
      BY <2>4 DEF Delete, Deleted, Ids
    <3> QED BY <2>4, <3>1 DEF Delete
  <2>5. CASE Write
    <3>1. stored' = detected /\ detected' = detected
      BY <2>5 DEF Write
    <3> QED BY <2>5, <3>1 DEF Write, EndRebuild
  <2>6. CASE Fail
    BY <2>6 DEF Fail, EndRebuild
  <2>7. CASE Refresh
    BY <2>7 DEF Refresh
  <2>8. CASE Reindex
    BY <2>8 DEF Reindex
  <2>9. CASE UNCHANGED vars
    BY <2>9 DEF vars
  <2> QED BY <2>1, <2>2, <2>3, <2>4, <2>5, <2>6, <2>7, <2>8, <2>9 DEF Next
<1>3. StoreInv => StoredAreLast
  BY DEF StoreInv
<1> QED BY <1>1, <1>2, <1>3, PTL DEF Spec

-----------------------------------------------------------------------------
(* Label propagation makes progress.                                        *)

\* The links whose symbols have one label under L, and those of them at a symbol.
Agrees(L) == {p \in links : \A m, n \in p : L[m] = L[n]}
AgreesAt(L, n) == {p \in Agrees(L) : n \in p}

\* The graph a rebuild works on is finite and links two symbols at a time.
LEMMA GraphOfPairs ==
    ASSUME CommunitiesAssumption, edges \subseteq EdgeChoices, links = Adjacency(edges)
    PROVE  /\ IsFiniteSet(links)
           /\ \A p \in links : \E a, b \in Symbols : a # b /\ p = {a, b}
  <1>1. ASSUME NEW p \in links PROVE \E a, b \in Symbols : a # b /\ p = {a, b}
    <2>1. PICK e \in edges : /\ e.source \in Symbols
                             /\ \E k \in Resolve(e.target) \ {e.source} : p = {e.source, k}
      BY DEF Adjacency
    <2>2. PICK k \in Resolve(e.target) \ {e.source} : p = {e.source, k}
      BY <2>1
    <2>3. e.target \in Targets
      BY DEF CommunitiesAssumption
    <2>4. k \in Symbols
      BY <2>2, <2>3, ResolveMeans
    <2> QED BY <2>1, <2>2, <2>4
  <1>2. links \in SUBSET (SUBSET Symbols)
    BY <1>1
  <1>3. IsFiniteSet(SUBSET Symbols)
    BY FS_SUBSET DEF CommunitiesAssumption
  <1>4. IsFiniteSet(links)
    BY <1>2, <1>3, FS_Subset
  <1> QED BY <1>1, <1>4

\* A symbol has as many links to its own label as neighbours with it.
LEMMA VotesAreLinks ==
    ASSUME CommunitiesAssumption, edges \subseteq EdgeChoices, links = Adjacency(edges),
           NEW L \in [Symbols -> Symbols], NEW n \in Symbols
    PROVE  LET V == {m \in Near(n) : L[m] = L[n]} IN
           /\ IsFiniteSet(V) /\ IsFiniteSet(AgreesAt(L, n))
           /\ Cardinality(AgreesAt(L, n)) = Cardinality(V)
  <1> DEFINE V == {m \in Near(n) : L[m] = L[n]}
             T == AgreesAt(L, n)
             f == [m \in V |-> {m, n}]
  <1>1. /\ IsFiniteSet(links)
        /\ \A p \in links : \E a, b \in Symbols : a # b /\ p = {a, b}
    BY GraphOfPairs
  <1>2. IsFiniteSet(V)
    <2>1. V \in SUBSET Symbols
      BY DEF Near
    <2>2. IsFiniteSet(Symbols)
      BY DEF CommunitiesAssumption
    <2> HIDE DEF V
    <2> QED BY <2>1, <2>2, FS_Subset
  <1>3. IsFiniteSet(T)
    <2>1. T \in SUBSET links
      BY DEF AgreesAt, Agrees
    <2> HIDE DEF T
    <2> QED BY <1>1, <2>1, FS_Subset
  <1>4. ASSUME NEW m \in V PROVE f[m] \in T /\ m # n /\ f[m] = {m, n}
    <2>1. m # n /\ {m, n} \in links /\ L[m] = L[n]
      BY DEF Near
    <2>2. \A x, y \in {m, n} : L[x] = L[y]
      BY <2>1
    <2>3. {m, n} \in T
      BY <2>1, <2>2 DEF AgreesAt, Agrees
    <2> QED BY <2>1, <2>3
  <1>5. ASSUME NEW p \in T PROVE \E m \in V : f[m] = p
    <2>1. p \in links /\ n \in p /\ \A x, y \in p : L[x] = L[y]
      BY DEF AgreesAt, Agrees
    <2>2. PICK a, b \in Symbols : a # b /\ p = {a, b}
      BY <1>1, <2>1
    <2>3. PICK m \in Symbols : m # n /\ p = {m, n}
      BY <2>1, <2>2
    <2>4. m \in Near(n) /\ L[m] = L[n]
      BY <2>1, <2>3 DEF Near
    <2> QED BY <2>3, <2>4
  <1>6. DOMAIN f = V
    OBVIOUS
  <1> HIDE DEF f, V, T
  <1>7. f \in Surjection(V, T)
    BY <1>4, <1>5, <1>6 DEF Surjection, f
  <1>8. f \in Injection(V, T)
    <2>1. f \in [V -> T]
      BY <1>7 DEF Surjection
    <2>2. \A x, y \in V : f[x] = f[y] => x = y
      <3> SUFFICES ASSUME NEW x \in V, NEW y \in V, f[x] = f[y] PROVE x = y
        OBVIOUS
      <3>1. {x, n} = {y, n} /\ x # n /\ y # n
        BY <1>4
      <3> QED BY <3>1
    <2> QED BY <1>6, <2>1, <2>2 DEF Injection, IsInjective
  <1>9. Cardinality(T) = Cardinality(V)
    BY <1>2, <1>7, <1>8, FS_Surjection
  <1> QED BY <1>2, <1>3, <1>9 DEF V, T

\* A visit that changes a label joins more links to one label, or as many under a
\* smaller label.
LEMMA VisitMakesProgress ==
    ASSUME CommunitiesAssumption, LabelInv, NEW n \in Symbols, Visit(n), labels' # labels
    PROVE  \/ Agreeing(labels') > Agreeing(labels)
           \/ /\ Agreeing(labels') = Agreeing(labels)
              /\ \A m \in Symbols : labels'[m] <= labels[m]
  <1>1. /\ phase = "propagate" /\ links = Adjacency(edges) /\ edges \subseteq EdgeChoices
        /\ labels \in [Symbols -> Symbols] /\ UNCHANGED links
    BY DEF LabelInv, Visit, graph
  <1>2. PICK l \in {labels[m] : m \in Near(n)} : Wins(n, l) /\ labels' = [labels EXCEPT ![n] = l]
    BY DEF Visit
  <1>3. Near(n) \subseteq Symbols /\ l \in Symbols /\ n \notin Near(n)
    BY <1>1 DEF Near
  <1>4. PICK u \in [Symbols -> Symbols] : u = labels'
    BY <1>1, <1>2, <1>3
  <1>5. /\ u[n] = l /\ l # labels[n]
        /\ \A m \in Symbols : m # n => u[m] = labels[m]
    BY <1>1, <1>2, <1>3, <1>4
  <1> DEFINE on == AgreesAt(labels, n)
             onNow == AgreesAt(u, n)
             off == {p \in Agrees(labels) : n \notin p}
  <1>6. /\ IsFiniteSet(links)
        /\ \A p \in links : \E a, b \in Symbols : a # b /\ p = {a, b}
    BY <1>1, GraphOfPairs
  <1>7. IsFiniteSet(off) /\ Cardinality(off) \in Nat
    <2>1. off \in SUBSET links
      BY DEF Agrees
    <2> HIDE DEF off
    <2> QED BY <1>6, <2>1, FS_Subset, FS_CardinalityType
  <1>8. /\ Agrees(labels) = off \cup on /\ off \cap on = {}
        /\ Agrees(u) = off \cup onNow /\ off \cap onNow = {}
    <2>1. ASSUME NEW p \in links, n \notin p
          PROVE  p \in Agrees(u) <=> p \in Agrees(labels)
      <3>1. \A m \in p : m \in Symbols /\ m # n
        BY <1>6, <2>1
      <3> QED BY <1>5, <3>1 DEF Agrees
    <2>2. Agrees(u) \subseteq links /\ Agrees(labels) \subseteq links
      BY DEF Agrees
    <2> QED BY <2>1, <2>2 DEF AgreesAt
  <1>9. /\ IsFiniteSet(on) /\ Cardinality(on) = Votes(n, labels[n]) /\ Cardinality(on) \in Nat
    <2>1. IsFiniteSet(on) /\ Cardinality(on) = Cardinality({m \in Near(n) : labels[m] = labels[n]})
      BY <1>1, VotesAreLinks
    <2> HIDE DEF on
    <2> QED BY <2>1, FS_CardinalityType DEF Votes
  <1>10. /\ IsFiniteSet(onNow) /\ Cardinality(onNow) = Votes(n, l) /\ Cardinality(onNow) \in Nat
    <2>1. IsFiniteSet(onNow) /\ Cardinality(onNow) = Cardinality({m \in Near(n) : u[m] = u[n]})
      BY <1>1, VotesAreLinks
    <2>2. {m \in Near(n) : u[m] = u[n]} = {m \in Near(n) : labels[m] = l}
      BY <1>3, <1>5
    <2> HIDE DEF onNow
    <2> QED BY <2>1, <2>2, FS_CardinalityType DEF Votes
  <1> HIDE DEF off, on, onNow
  <1>11. /\ Cardinality(Agrees(labels)) = Cardinality(off) + Cardinality(on)
         /\ Cardinality(Agrees(u)) = Cardinality(off) + Cardinality(onNow)
    <2>1. Cardinality(off \cap on) = 0 /\ Cardinality(off \cap onNow) = 0
      BY <1>8, FS_EmptySet
    <2>2. Cardinality(off \cup on) = Cardinality(off) + Cardinality(on) - Cardinality(off \cap on)
      BY <1>7, <1>9, FS_Union
    <2>3. Cardinality(off \cup onNow)
            = Cardinality(off) + Cardinality(onNow) - Cardinality(off \cap onNow)
      BY <1>7, <1>10, FS_Union
    <2> QED BY <1>7, <1>8, <1>9, <1>10, <2>1, <2>2, <2>3
  <1>12. Agreeing(labels) = Cardinality(Agrees(labels)) /\ Agreeing(labels') = Cardinality(Agrees(u))
    <2>1. Agreeing(labels) = Cardinality(Agrees(labels))
      BY DEF Agreeing, Agrees
    <2>2. Agreeing(u) = Cardinality(Agrees(u))
      BY DEF Agreeing, Agrees
    <2> QED BY <1>4, <2>1, <2>2
  <1>13. \/ Votes(n, labels[n]) < Votes(n, l)
         \/ Votes(n, labels[n]) = Votes(n, l) /\ l <= labels[n]
    <2>1. CASE labels[n] \in {labels[m] : m \in Near(n)}
      BY <1>2, <2>1 DEF Wins
    <2>2. CASE labels[n] \notin {labels[m] : m \in Near(n)}
      <3>1. {m \in Near(n) : labels[m] = labels[n]} = {}
        BY <2>2
      <3>2. Votes(n, labels[n]) = 0
        BY <3>1, FS_EmptySet DEF Votes
      <3>3. {m \in Near(n) : labels[m] = l} # {} /\ IsFiniteSet({m \in Near(n) : labels[m] = l})
        <4>1. {m \in Near(n) : labels[m] = l} \in SUBSET Symbols /\ IsFiniteSet(Symbols)
          BY <1>3 DEF CommunitiesAssumption
        <4> QED BY <1>2, <4>1, FS_Subset
      <3>4. Votes(n, l) # 0 /\ Votes(n, l) \in Nat
        BY <3>3, FS_EmptySet, FS_CardinalityType DEF Votes
      <3> QED BY <3>2, <3>4
    <2> QED BY <2>1, <2>2
  <1>14. \/ Agreeing(labels') > Agreeing(labels)
         \/ Agreeing(labels') = Agreeing(labels) /\ l <= labels[n]
    BY <1>7, <1>9, <1>10, <1>11, <1>12, <1>13
  <1>15. ASSUME l <= labels[n] PROVE \A m \in Symbols : u[m] <= labels[m]
    <2>1. \A m \in Symbols : labels[m] \in Nat
      BY <1>1 DEF CommunitiesAssumption
    <2>2. ASSUME NEW m \in Symbols, m # n PROVE u[m] <= labels[m]
      <3>1. u[m] = labels[m] /\ labels[m] \in Nat
        BY <1>5, <2>1, <2>2
      <3> QED BY <3>1
    <2> QED BY <1>5, <1>15, <2>2
  <1> QED BY <1>4, <1>14, <1>15

\* Every label a round changes makes progress in one order, so no graph and no order of
\* visits keeps label propagation going round in circles.
THEOREM LabelsConverge == Spec => UpdatesConverge
<1>1. CommunitiesAssumption /\ LabelInv /\ [Next]_vars =>
        [phase = "propagate" /\ labels' # labels =>
           \/ Agreeing(labels') > Agreeing(labels)
           \/ /\ Agreeing(labels') = Agreeing(labels)
              /\ \A n \in Symbols : labels'[n] <= labels[n]]_vars
  <2> SUFFICES ASSUME CommunitiesAssumption, LabelInv, [Next]_vars,
                      phase = "propagate", labels' # labels
               PROVE  \/ Agreeing(labels') > Agreeing(labels)
                      \/ /\ Agreeing(labels') = Agreeing(labels)
                         /\ \A n \in Symbols : labels'[n] <= labels[n]
    OBVIOUS
  <2> USE DEF spread
  <2>1. CASE \E n \in Symbols : Visit(n)
    BY <2>1, VisitMakesProgress
  <2>2. CASE NextRound \/ Detect
    BY <2>2 DEF NextRound, Detect
  <2>3. CASE Read \/ Embed \/ Delete \/ Write \/ Fail \/ Reindex
    BY <2>3 DEF Read, Embed, Delete, Write, Fail, Reindex
  <2>4. CASE Refresh \/ UNCHANGED vars
    BY <2>4 DEF Refresh, vars
  <2> QED BY <2>1, <2>2, <2>3, <2>4 DEF Next
<1> QED BY <1>1, CommunitiesAssumption, LabelInvariance, PTL DEF Spec, UpdatesConverge

-----------------------------------------------------------------------------
(* What a search finds.                                                     *)

\* The chunks and the communities that may be shown to the user of the search.
Visible == {Chunk(n) : n \in {m \in Chunks : InScope(m)}}
           \cup (IF Home \in allowed THEN {Summary(c) : c \in seen} ELSE {})
VisibleNames == {n \in Chunks : InScope(n)}

\* The neighbours of the seeds, if one request can read the edges and return them all.
OneRequest ==
    Cardinality(Neighbors(seeds)) <= MaxNeighbors
    /\ ~(Cardinality(EdgesAt(seeds)) > EdgePage(MaxNeighbors))
NearFound(names) ==
    OneRequest => \A n \in Neighbors(seeds) : Chunk(n) \in Range(order) \/ n \in names

\* Function f numbers what lies within 0, 1, ... edges of the seeds.
ReachIs(f) ==
    /\ f[0] = seeds
    /\ \A k \in 1..LastHop : f[k] = f[k - 1] \cup Onward(f[k - 1])

\* After hop - 1 requests the expansion has found only what lies within hop - 1 edges,
\* and after the first all neighbours of the seeds, if they fit in one request.
Walked ==
    /\ hop \in 1..(LastHop + 1)
    /\ hop = 1 => frontier = seeds /\ expanded = <<>>
    /\ \A f : ReachIs(f) => frontier \subseteq f[hop - 1] /\ Range(expanded) \subseteq f[hop - 1]
    /\ Len(expanded) <= MaxNeighbors /\ IsInjective(expanded)
    /\ hop > 1 => NearFound(Range(expanded))

LegStages == {"symbol", "edge", "lexical", "knn"}

\* What is found at any stage may be shown; edges lead the expansion only as far as hops
\* and only to what a request may return.
SearchInv ==
    /\ stage \in LegStages \cup {"idle", "expand", "community", "rerank", "answered"}
    /\ edges \subseteq EdgeChoices
    /\ stage = "idle" => order = <<>> /\ answer = <<>> /\ expanded = <<>> /\ hop = 0
    /\ order \in Seq(Visible) /\ answer \in Seq(Visible) /\ expanded \in Seq(VisibleNames)
    /\ stage \in LegStages \cup {"expand"} /\ hop = 0 => expanded = <<>>
    /\ stage \in LegStages => hop = 0
    /\ stage = "expand" => hop = 0 \/ (hop > 0 /\ Walked)
    /\ stage = "community" => Walked /\ NearFound({})

\* The legs are merged in turn.
LEMMA LegNames ==
    ASSUME NEW i \in DOMAIN Legs
    PROVE  /\ Legs[i] \in LegStages
           /\ i # Len(Legs) => Legs[i + 1] \in LegStages
           /\ Legs[1] \in LegStages
  BY DEF Legs, LegStages

\* What two sequences hold, their concatenation holds.
LEMMA JoinedRange ==
    ASSUME NEW S, NEW a \in Seq(S), NEW b \in Seq(S)
    PROVE  /\ a \o b \in Seq(S) /\ Len(a \o b) = Len(a) + Len(b)
           /\ Range(a \o b) = Range(a) \cup Range(b)
           /\ IsInjective(a) /\ IsInjective(b) /\ Range(a) \cap Range(b) = {}
                => IsInjective(a \o b)
  <1>1. PICK o : o = a \o b
    OBVIOUS
  <1>2. /\ o \in Seq(S) /\ Len(o) = Len(a) + Len(b)
        /\ Len(a) \in Nat /\ Len(b) \in Nat
        /\ \A i \in 1..Len(a) : o[i] = a[i]
        /\ \A i \in (Len(a) + 1)..(Len(a) + Len(b)) : o[i] = b[i - Len(a)]
    BY <1>1, Joined
  <1>3. DOMAIN o = 1..(Len(a) + Len(b)) /\ DOMAIN a = 1..Len(a) /\ DOMAIN b = 1..Len(b)
    BY <1>2
  <1>4. ASSUME NEW i \in DOMAIN o
        PROVE  \/ i \in DOMAIN a /\ o[i] = a[i]
               \/ i > Len(a) /\ i - Len(a) \in DOMAIN b /\ o[i] = b[i - Len(a)]
    <2>1. i \in 1..Len(a) \/ (i \in (Len(a) + 1)..(Len(a) + Len(b)) /\ i - Len(a) \in 1..Len(b))
      BY <1>2, <1>3
    <2> QED BY <1>2, <1>3, <2>1
  <1>5. Range(o) \subseteq Range(a) \cup Range(b)
    BY <1>4 DEF Range
  <1>6. Range(a) \subseteq Range(o)
    <2> SUFFICES ASSUME NEW i \in 1..Len(a) PROVE a[i] \in Range(o)
      BY <1>3 DEF Range
    <2>1. i \in DOMAIN o /\ o[i] = a[i]
      BY <1>2, <1>3
    <2> QED BY <2>1 DEF Range
  <1>7. Range(b) \subseteq Range(o)
    <2> SUFFICES ASSUME NEW i \in 1..Len(b) PROVE b[i] \in Range(o)
      BY <1>3 DEF Range
    <2>1. /\ i + Len(a) \in DOMAIN o /\ i + Len(a) \in (Len(a) + 1)..(Len(a) + Len(b))
          /\ (i + Len(a)) - Len(a) = i
      BY <1>2, <1>3
    <2>2. o[i + Len(a)] = b[i]
      BY <1>2, <2>1
    <2> QED BY <2>1, <2>2 DEF Range
  <1>8. ASSUME IsInjective(a), IsInjective(b), Range(a) \cap Range(b) = {}
        PROVE  IsInjective(o)
    <2> SUFFICES ASSUME NEW i \in DOMAIN o, NEW j \in DOMAIN o, o[i] = o[j] PROVE i = j
      BY DEF IsInjective
    <2>1. CASE i \in DOMAIN a /\ o[i] = a[i] /\ j \in DOMAIN a /\ o[j] = a[j]
      BY <1>8, <2>1 DEF IsInjective
    <2>2. CASE /\ i - Len(a) \in DOMAIN b /\ o[i] = b[i - Len(a)]
               /\ j - Len(a) \in DOMAIN b /\ o[j] = b[j - Len(a)]
      <3>1. i - Len(a) = j - Len(a)
        BY <1>8, <2>2 DEF IsInjective
      <3> QED BY <1>2, <1>3, <3>1
    <2>3. \A x \in DOMAIN a, y \in DOMAIN b : a[x] # b[y]
      BY <1>8 DEF Range
    <2> QED BY <1>4, <2>1, <2>2, <2>3
  <1> QED BY <1>1, <1>2, <1>5, <1>6, <1>7, <1>8

\* What a list of hits adds to those found.
LEMMA FuseAdds ==
    ASSUME NEW S, order \in Seq(S), NEW list \in Seq(S), Fuse(list)
    PROVE  order' \in Seq(S) /\ Range(order') = Range(order) \cup Range(list)
  <1> DEFINE P == {i \in DOMAIN list : list[i] \notin Range(order)}
             new == Picked(list, P)
  <1>1. /\ new \in Seq(S) /\ Range(new) = {list[i] : i \in P}
    <2>1. P \in SUBSET DOMAIN list
      OBVIOUS
    <2> HIDE DEF P
    <2> QED BY <2>1, PickedIsFilter
  <1>2. order' = order \o new
    BY DEF Fuse
  <1>3. Range(order) \cup Range(new) = Range(order) \cup Range(list)
    BY <1>1 DEF Range
  <1> HIDE DEF new, P
  <1>4. PICK a \in Seq(S) : a = order
    OBVIOUS
  <1>5. a \o new \in Seq(S) /\ Range(a \o new) = Range(a) \cup Range(new)
    BY <1>1, JoinedRange
  <1> QED BY <1>2, <1>3, <1>4, <1>5

\* Lists of a request are sequences of what it may return.
LEMMA ListIsSeq ==
    ASSUME NEW D, NEW n \in Nat, NEW q \in Lists(D, n)
    PROVE  q \in Seq(D) /\ Len(q) = n /\ DOMAIN q = 1..n /\ IsInjective(q) /\ Range(q) \subseteq D
  <1>1. q \in [1..n -> D] /\ IsInjective(q)
    BY DEF Lists
  <1>2. Range(q) \subseteq D
    BY <1>1 DEF Range
  <1> QED BY <1>1, <1>2, TableIsSeq

\* The hits for the names of a sequence.
LEMMA ChunksOf ==
    ASSUME NEW q \in Seq(VisibleNames)
    PROVE  LET list == [k \in DOMAIN q |-> Chunk(q[k])] IN
           list \in Seq(Visible) /\ Range(list) = {Chunk(n) : n \in Range(q)}
  <1> DEFINE list == [k \in DOMAIN q |-> Chunk(q[k])]
  <1>1. Len(q) \in Nat /\ DOMAIN q = 1..Len(q) /\ \A k \in 1..Len(q) : q[k] \in VisibleNames
    BY ElementOfSeq
  <1>2. list \in [1..Len(q) -> Visible]
    BY <1>1 DEF VisibleNames, Visible
  <1>3. list \in Seq(Visible)
    BY <1>1, <1>2, TableIsSeq
  <1>4. Range(list) = {Chunk(n) : n \in Range(q)}
    BY DEF Range
  <1> QED BY <1>3, <1>4

\* A leg returns chunks of the projects the user may see.
LEMMA LegsFindVisible ==
    ASSUME HybridSearchAssumption, CommunitiesAssumption, edges \subseteq EdgeChoices,
           NEW l, NEW q \in Found(l)
    PROVE  q \in Seq(VisibleNames)
  <1>1. ASSUME NEW D, D \subseteq Chunks, NEW size \in Nat, q \in Matching(D, size)
        PROVE  q \in Seq(VisibleNames)
    <2>1. PICK n \in 0..size : q \in Lists({m \in D \cap Relevant : InScope(m)}, n)
      BY <1>1 DEF Matching
    <2>2. q \in Lists(VisibleNames, n)
      BY <1>1, <2>1 DEF Lists, VisibleNames
    <2> QED BY <2>2, ListIsSeq
  <1>2. TopK \in Nat /\ 2 * TopK \in Nat
    BY DEF HybridSearchAssumption
  <1>3. {e.source : e \in edges} \subseteq Chunks /\ Chunks \subseteq Chunks
    BY DEF Chunks, CommunitiesAssumption
  <1> QED BY <1>1, <1>2, <1>3 DEF Found

\* What some edges at a set of names lead to is a neighbour of one of them.
LEMMA NeighborsOfOne ==
    ASSUME NEW F, NEW E, E \subseteq EdgesAt(F), NEW n \in NamedBy(OtherEnds(F, E))
    PROVE  /\ n \in Neighbors(F) /\ n \in Chunks /\ InScope(n)
           /\ \E m \in F : n \in Neighbors({m})
  <1>1. PICK t \in OtherEnds(F, E) : n = t \/ LastName[n] = LastName[t]
    BY DEF NamedBy
  <1>2. n \in Chunks /\ InScope(n)
    BY DEF NamedBy
  <1>3. t \notin F /\ \E e \in E : t \in {e.source, e.target}
    BY DEF OtherEnds
  <1>4. PICK e \in E : t \in {e.source, e.target}
    BY <1>3
  <1>5. e \in EdgesAt(F) /\ t \in OtherEnds(F, EdgesAt(F))
    BY <1>3, <1>4 DEF OtherEnds
  <1>6. PICK m \in F : m \in {e.source, e.target}
    BY <1>5 DEF EdgesAt
  <1>7. e \in EdgesAt({m})
    BY <1>5, <1>6 DEF EdgesAt
  <1>8. t \in OtherEnds({m}, EdgesAt({m}))
    BY <1>3, <1>4, <1>6, <1>7 DEF OtherEnds
  <1> QED BY <1>1, <1>2, <1>5, <1>6, <1>8 DEF Neighbors, NamedBy

\* One more hop reaches the neighbours that a request may return.
LEMMA OneHopFurther ==
    ASSUME NEW f, ReachIs(f), NEW k \in 1..LastHop, NEW F, F \subseteq f[k - 1],
           NEW n \in Neighbors(F)
    PROVE  n \in f[k]
  <1>1. PICK m \in F : n \in Neighbors({m})
    BY NeighborsOfOne DEF Neighbors
  <1>2. m \in f[k - 1] /\ n \in Chunks
    BY <1>1, NeighborsOfOne DEF Neighbors
  <1> QED BY <1>1, <1>2 DEF ReachIs, Onward

\* The bound of the hops is a number.
LEMMA LastHopIs ==
    ASSUME HybridSearchAssumption
    PROVE  LastHop \in Nat /\ LastHop >= 1
  <1>1. Hops \in Nat
    BY DEF HybridSearchAssumption
  <1>2. {1, Hops} \in SUBSET Nat /\ {1, Hops} # {} /\ \A n \in {1, Hops} : n <= Hops + 1
    BY <1>1
  <1>3. Max({1, Hops}) \in {1, Hops} /\ \A n \in {1, Hops} : n <= Max({1, Hops})
    <2>1. Hops + 1 \in Nat
      BY <1>1
    <2> QED BY <1>2, <2>1, LargestOf
  <1> QED BY <1>1, <1>3 DEF LastHop

\* What lies within fewer edges lies within the last hop.
LEMMA ReachGrows ==
    ASSUME HybridSearchAssumption, NEW f, ReachIs(f), NEW i \in 0..LastHop
    PROVE  f[i] \subseteq f[LastHop]
  <1> DEFINE D == {k \in 0..LastHop : ~(f[k] \subseteq f[LastHop])}
  <1>1. LastHop \in Nat
    BY LastHopIs
  <1>2. ASSUME D # {} PROVE FALSE
    <2>1. D \in SUBSET Nat /\ \A k \in D : k <= LastHop
      BY <1>1
    <2>2. PICK m \in D : \A k \in D : k <= m
      <3> HIDE DEF D
      <3> QED BY <1>1, <1>2, <2>1, LargestOf
    <2>3. m \in 0..LastHop /\ ~(f[m] \subseteq f[LastHop])
      OBVIOUS
    <2>4. m # LastHop
      BY <2>3
    <2>5. m + 1 \in 1..LastHop /\ (m + 1) - 1 = m
      BY <1>1, <2>3, <2>4
    <2>6. m + 1 \notin D
      <3> HIDE DEF D
      <3>1. m \in Nat /\ ~(m + 1 <= m)
        BY <1>1, <2>3
      <3> QED BY <2>2, <3>1
    <2>7. f[m + 1] \subseteq f[LastHop]
      BY <1>1, <2>3, <2>4, <2>6
    <2>8. f[m] \subseteq f[m + 1]
      BY <2>5 DEF ReachIs
    <2> QED BY <2>3, <2>7, <2>8
  <1> QED BY <1>2

\* The recursive definition of what lies within the hops has a solution.
LEMMA ReachExists ==
    ASSUME HybridSearchAssumption
    PROVE  ReachIs(Reach)
  <1> DEFINE Solves(f, n) == f = [k \in 0..n |-> IF k = 0 THEN seeds
                                                 ELSE f[k - 1] \cup Onward(f[k - 1])]
             D == {n \in 0..LastHop : \A f : ~Solves(f, n)}
  <1>1. LastHop \in Nat /\ LastHop >= 1
    BY LastHopIs
  <1>2. ASSUME D # {} PROVE FALSE
    <2>1. D \in SUBSET Nat
      BY <1>1
    <2>2. PICK n \in D : \A k \in D : n <= k
      <3> HIDE DEF D
      <3> QED BY <1>2, <2>1, LeastOf
    <2>3. n \in 0..LastHop /\ \A f : ~Solves(f, n)
      OBVIOUS
    <2>4. CASE n = 0
      <3>1. PICK f : f = [k \in 0..0 |-> seeds]
        OBVIOUS
      <3>2. Solves(f, 0)
        BY <3>1
      <3> HIDE DEF Solves
      <3> QED BY <2>3, <2>4, <3>2
    <2>5. CASE n # 0
      <3>1. n - 1 \in 0..LastHop /\ n \in Nat /\ ~(n <= n - 1)
        BY <1>1, <2>3, <2>5
      <3>2. n - 1 \notin D
        <4> HIDE DEF D
        <4> QED BY <2>2, <3>1
      <3>3. PICK f : Solves(f, n - 1)
        BY <3>1, <3>2
      <3>4. PICK g : g = [k \in 0..n |-> IF k = n THEN f[n - 1] \cup Onward(f[n - 1]) ELSE f[k]]
        OBVIOUS
      <3>5. \A k \in 0..(n - 1) : f[k] = IF k = 0 THEN seeds ELSE f[k - 1] \cup Onward(f[k - 1])
        BY <3>3
      <3>6. ASSUME NEW k \in 0..n
            PROVE  g[k] = IF k = 0 THEN seeds ELSE g[k - 1] \cup Onward(g[k - 1])
        <4>1. CASE k = n
          <5>1. k # 0 /\ k - 1 \in 0..n /\ k - 1 # n
            BY <3>1, <2>5, <4>1
          <5>2. g[k - 1] = f[n - 1] /\ g[k] = f[n - 1] \cup Onward(f[n - 1])
            BY <3>4, <4>1, <5>1
          <5> QED BY <5>1, <5>2
        <4>2. CASE k # n
          <5>1. k \in 0..(n - 1) /\ g[k] = f[k]
            BY <3>1, <3>4, <4>2
          <5>2. CASE k = 0
            BY <3>5, <5>1, <5>2
          <5>3. CASE k # 0
            <6>1. k - 1 \in 0..n /\ k - 1 # n
              BY <3>1, <5>1, <5>3
            <6>2. g[k - 1] = f[k - 1]
              BY <3>4, <6>1
            <6> QED BY <3>5, <5>1, <5>3, <6>2
          <5> QED BY <5>2, <5>3
        <4> QED BY <4>1, <4>2
      <3>7. Solves(g, n)
        <4>1. DOMAIN g = 0..n /\ g = [k \in 0..n |-> g[k]]
          BY <3>4
        <4> QED BY <3>6, <4>1
      <3> HIDE DEF Solves
      <3> QED BY <2>3, <3>7
    <2> QED BY <2>4, <2>5
  <1>3. \E f : Solves(f, LastHop)
    <2>1. LastHop \in 0..LastHop /\ LastHop \notin D
      <3> HIDE DEF D
      <3> QED BY <1>1, <1>2
    <2> QED BY <2>1
  <1>4. Reach = CHOOSE f : Solves(f, LastHop)
    BY DEF Reach
  <1>5. Solves(Reach, LastHop)
    <2> HIDE DEF Solves
    <2> QED BY <1>3, <1>4
  <1>6. \A k \in 0..LastHop : Reach[k] = IF k = 0 THEN seeds ELSE Reach[k - 1] \cup Onward(Reach[k - 1])
    <2> DEFINE R == Reach
    <2>1. R = [k \in 0..LastHop |-> IF k = 0 THEN seeds ELSE R[k - 1] \cup Onward(R[k - 1])]
      BY <1>5
    <2> HIDE DEF R
    <2>2. \A k \in 0..LastHop : R[k] = IF k = 0 THEN seeds ELSE R[k - 1] \cup Onward(R[k - 1])
      BY <2>1
    <2> QED BY <2>2 DEF R
  <1>7. 0 \in 0..LastHop /\ \A k \in 1..LastHop : k \in 0..LastHop /\ k # 0
    BY <1>1
  <1> QED BY <1>6, <1>7 DEF ReachIs

\* Names, projects and graph stay as they are while a search runs.
LEMMA SearchContext ==
    ASSUME UNCHANGED <<vars, allowed>>
    PROVE  /\ Visible' = Visible /\ VisibleNames' = VisibleNames /\ edges' = edges
           /\ UNCHANGED seeds => Neighbors(seeds)' = Neighbors(seeds) /\ OneRequest' = OneRequest
           /\ \A f : UNCHANGED seeds => (ReachIs(f)' <=> ReachIs(f))
  <1> USE DEF vars, graph, index
  <1>1. Visible' = Visible /\ VisibleNames' = VisibleNames
    BY DEF Visible, VisibleNames, InScope
  <1>2. \A F : Neighbors(F)' = Neighbors(F) /\ EdgesAt(F)' = EdgesAt(F)
    BY DEF Neighbors, NamedBy, OtherEnds, EdgesAt, InScope
  <1>3. UNCHANGED seeds => Neighbors(seeds)' = Neighbors(seeds) /\ OneRequest' = OneRequest
    BY <1>2 DEF OneRequest, EdgePage
  <1>4. \A R : Onward(R)' = Onward(R)
    BY <1>2 DEF Onward
  <1>5. \A f : UNCHANGED seeds => (ReachIs(f)' <=> ReachIs(f))
    BY <1>4 DEF ReachIs
  <1> QED BY <1>1, <1>3, <1>5

\* Merging a leg adds what the user may see.
LEMMA MergeKeeps ==
    ASSUME HybridSearchAssumption, CommunitiesAssumption, SearchInv, UNCHANGED vars,
           NEW i \in DOMAIN Legs, Merge(i)
    PROVE  SearchInv'
  <1>1. /\ stage \in LegStages /\ stage' \in LegStages \cup {"expand"}
        /\ UNCHANGED <<allowed, walk, answer>>
    BY LegNames DEF Merge
  <1>2. Visible' = Visible /\ VisibleNames' = VisibleNames /\ edges' = edges
    BY <1>1, SearchContext
  <1>3. PICK q \in Found(Legs[i]) : Fuse([k \in DOMAIN q |-> Chunk(q[k])])
    BY DEF Merge
  <1>4. q \in Seq(VisibleNames)
    BY LegsFindVisible DEF SearchInv
  <1>5. order' \in Seq(Visible)
    BY <1>3, <1>4, ChunksOf, FuseAdds DEF SearchInv
  <1>6. stage' # "idle" /\ stage' # "community"
    BY <1>1 DEF LegStages
  <1> QED BY <1>1, <1>2, <1>5, <1>6 DEF SearchInv, walk, LegStages

\* The expansion starts at the seeds.
LEMMA SeedKeeps ==
    ASSUME HybridSearchAssumption, SearchInv, UNCHANGED vars, Seed
    PROVE  SearchInv'
  <1>1. /\ stage = "expand" /\ stage' = "expand" /\ hop = 0 /\ hop' = 1 /\ frontier' = seeds'
        /\ UNCHANGED <<allowed, hits, expanded, answer>> /\ expanded = <<>>
    BY DEF Seed, SearchInv
  <1>2. Visible' = Visible /\ VisibleNames' = VisibleNames /\ edges' = edges
    BY <1>1, SearchContext
  <1>3. Walked'
    <2>1. LastHop \in Nat /\ LastHop >= 1 /\ LastHop' = LastHop /\ MaxNeighbors \in Nat
      BY LastHopIs DEF LastHop, HybridSearchAssumption
    <2>2. hop' \in 1..(LastHop' + 1) /\ ~(hop' > 1) /\ hop' - 1 = 0
      BY <1>1, <2>1
    <2>3. Range(expanded') = {} /\ Len(expanded') = 0 /\ IsInjective(expanded')
      BY <1>1 DEF Range, IsInjective
    <2>4. \A f : ReachIs(f)' => frontier' \subseteq f[hop' - 1] /\ Range(expanded') \subseteq f[hop' - 1]
      BY <1>1, <2>2, <2>3 DEF ReachIs
    <2> QED BY <1>1, <2>1, <2>2, <2>3, <2>4 DEF Walked
  <1> QED BY <1>1, <1>2, <1>3 DEF SearchInv, hits, LegStages

\* A list as long as the set it is of leaves nothing out.
LEMMA ListIsAll ==
    ASSUME NEW D, IsFiniteSet(D), NEW q \in Lists(D, Cardinality(D))
    PROVE  Range(q) = D
  <1> DEFINE n == Cardinality(D)
  <1>1. n \in Nat
    BY FS_CardinalityType
  <1>2. IsFiniteSet(1..n) /\ Cardinality(1..n) = n
    <2>1. 1 \in Int /\ n \in Int /\ (1 > n => n = 0) /\ n - 1 + 1 = n
      BY <1>1
    <2> QED BY <2>1, FS_Interval
  <1>3. q \in Injection(1..n, D)
    BY DEF Lists, Injection
  <1> HIDE DEF n
  <1>4. q \in Surjection(1..n, D)
    BY <1>2, <1>3, FS_Injection DEF n
  <1> QED BY <1>3, <1>4 DEF Injection, Surjection, Range

\* The chunks and the edges at any names are finitely many.
LEMMA GraphIsFinite ==
    ASSUME CommunitiesAssumption, HybridSearchAssumption, edges \subseteq EdgeChoices
    PROVE  IsFiniteSet(Chunks) /\ \A F : IsFiniteSet(EdgesAt(F))
  <1>1. IsFiniteSet(Targets)
    BY FS_Union DEF Targets, CommunitiesAssumption, HybridSearchAssumption
  <1>2. IsFiniteSet(Targets \X Targets)
    BY <1>1, FS_Product
  <1> DEFINE All == [source : Targets, target : Targets]
             f == [p \in Targets \X Targets |-> [source |-> p[1], target |-> p[2]]]
  <1>3. f \in [Targets \X Targets -> All]
    OBVIOUS
  <1>4. \A e \in All : <<e.source, e.target>> \in Targets \X Targets /\ f[<<e.source, e.target>>] = e
    OBVIOUS
  <1> HIDE DEF f, All
  <1>5. f \in Surjection(Targets \X Targets, All)
    BY <1>3, <1>4 DEF Surjection
  <1>6. IsFiniteSet(All)
    BY <1>2, <1>5, FS_Surjection
  <1>7. ASSUME NEW F PROVE IsFiniteSet(EdgesAt(F))
    <2>1. EdgesAt(F) \in SUBSET All
      BY DEF EdgesAt, All, CommunitiesAssumption
    <2> QED BY <1>6, <2>1, FS_Subset
  <1> QED BY <1>1, <1>7 DEF Chunks

\* Of what fits in a request, nothing is cut off.
LEMMA CutKeeps ==
    ASSUME NEW S, IsFiniteSet(S), NEW n \in Nat, NEW D \in Cut(S, n)
    PROVE  D \in SUBSET S /\ IsFiniteSet(D) /\ (Cardinality(S) <= n => D = S)
  <1>1. Cardinality(S) \in Nat /\ D \in SUBSET S /\ Cardinality(D) = Min({n, Cardinality(S)})
    BY FS_CardinalityType DEF Cut
  <1>2. Cardinality(S) <= n => Cardinality(D) = Cardinality(S)
    BY <1>1, MinOfTwo
  <1> QED BY <1>1, <1>2, FS_Subset

\* The larger of two numbers.
LEMMA MaxOfTwo ==
    ASSUME NEW a \in Nat, NEW b \in Nat
    PROVE  Max({a, b}) \in Nat /\ a <= Max({a, b}) /\ b <= Max({a, b})
  <1>1. {a, b} \in SUBSET Nat /\ {a, b} # {} /\ \A n \in {a, b} : n <= a + b
    OBVIOUS
  <1>2. a + b \in Nat
    OBVIOUS
  <1>3. Max({a, b}) \in {a, b} /\ \A n \in {a, b} : n <= Max({a, b})
    BY <1>1, <1>2, LargestOf
  <1> QED BY <1>3

\* A request reads at least as many symbols as it may return chunks.
LEMMA PagesHold ==
    ASSUME HybridSearchAssumption, NEW size \in Nat
    PROVE  EdgePage(size) \in Nat /\ SymbolPage(size) \in Nat /\ size <= SymbolPage(size)
  <1>1. /\ EdgesPerHit \in Nat /\ MinEdges \in Nat /\ MinSymbols \in Nat
        /\ SymbolsPerHit \in Nat /\ SymbolsPerHit >= 1
    BY DEF HybridSearchAssumption
  <1>2. EdgesPerHit * size \in Nat /\ SymbolsPerHit * size \in Nat
    BY <1>1
  <1>3. size <= SymbolsPerHit * size
    <2>1. PICK k \in Nat : SymbolsPerHit = k + 1
      <3>1. SymbolsPerHit - 1 \in Nat /\ SymbolsPerHit = (SymbolsPerHit - 1) + 1
        BY <1>1
      <3> QED BY <3>1
    <2>2. (k + 1) * size = k * size + size /\ k * size \in Nat
      OBVIOUS
    <2> QED BY <2>1, <2>2
  <1>4. EdgePage(size) \in Nat
    BY <1>1, <1>2, MaxOfTwo DEF EdgePage
  <1>5. SymbolPage(size) \in Nat /\ SymbolsPerHit * size <= SymbolPage(size)
    BY <1>1, <1>2, MaxOfTwo DEF SymbolPage
  <1> QED BY <1>2, <1>3, <1>4, <1>5

\* The definitions a request resolves are neighbours: all of them, if it can read all
\* the edges and return all the chunks.
LEMMA ResolvedIs ==
    ASSUME CommunitiesAssumption, HybridSearchAssumption, edges \subseteq EdgeChoices,
           NEW F, NEW size \in Nat, NEW D \in Resolved(F, size)
    PROVE  /\ D \in SUBSET Neighbors(F) /\ IsFiniteSet(D)
           /\ Cardinality(Neighbors(F)) <= size /\ ~(Cardinality(EdgesAt(F)) > EdgePage(size))
                => D = Neighbors(F) /\ Cardinality(D) <= size
  <1>1. EdgePage(size) \in Nat /\ SymbolPage(size) \in Nat /\ size <= SymbolPage(size)
    BY PagesHold
  <1>2. IsFiniteSet(Chunks) /\ IsFiniteSet(EdgesAt(F)) /\ Cardinality(EdgesAt(F)) \in Nat
    BY GraphIsFinite, FS_CardinalityType
  <1>3. PICK E \in Cut(EdgesAt(F), EdgePage(size)) :
          D \in Cut(NamedBy(OtherEnds(F, E)), SymbolPage(size))
    BY DEF Resolved
  <1>4. E \in SUBSET EdgesAt(F) /\ (Cardinality(EdgesAt(F)) <= EdgePage(size) => E = EdgesAt(F))
    BY <1>1, <1>2, CutKeeps
  <1> DEFINE N == NamedBy(OtherEnds(F, E))
  <1>5. N \in SUBSET Chunks /\ N \in SUBSET Neighbors(F)
    BY <1>4, NeighborsOfOne
  <1>6. E = EdgesAt(F) => N = Neighbors(F)
    BY DEF Neighbors
  <1> HIDE DEF N
  <1>7. IsFiniteSet(N) /\ Cardinality(N) \in Nat
    BY <1>2, <1>5, FS_Subset, FS_CardinalityType
  <1>8. D \in SUBSET N /\ IsFiniteSet(D) /\ (Cardinality(N) <= SymbolPage(size) => D = N)
    BY <1>1, <1>3, <1>7, CutKeeps DEF N
  <1>9. ASSUME Cardinality(Neighbors(F)) <= size, ~(Cardinality(EdgesAt(F)) > EdgePage(size))
        PROVE  D = Neighbors(F) /\ Cardinality(D) <= size
    <2>1. E = EdgesAt(F)
      BY <1>1, <1>2, <1>4, <1>9
    <2>2. N = Neighbors(F) /\ Cardinality(N) <= size
      BY <1>6, <1>9, <2>1
    <2>3. Cardinality(N) <= SymbolPage(size)
      BY <1>1, <1>7, <2>2
    <2> QED BY <1>8, <2>2, <2>3
  <1> QED BY <1>5, <1>8, <1>9

\* What a request for some chunks returns.
LEMMA RankingIs ==
    ASSUME NEW D \in SUBSET VisibleNames, IsFiniteSet(D), NEW size \in Nat,
           NEW q \in Rankings(D, size)
    PROVE  /\ q \in Seq(VisibleNames) /\ Len(q) \in Nat /\ Len(q) <= size /\ IsInjective(q)
           /\ Range(q) \subseteq D
           /\ Cardinality(D) <= size => Range(q) = D
  <1> DEFINE m == Min({size, Cardinality(D)})
  <1>1. Cardinality(D) \in Nat /\ {n \in D : InScope(n)} = D
    BY FS_CardinalityType DEF VisibleNames
  <1>2. m \in Nat /\ m <= size /\ (Cardinality(D) <= size => m = Cardinality(D))
    BY <1>1, MinOfTwo
  <1>3. q \in Lists(D, m)
    BY <1>1 DEF Rankings
  <1> HIDE DEF m
  <1>4. q \in Seq(D) /\ Len(q) = m /\ IsInjective(q) /\ Range(q) \subseteq D
    BY <1>2, <1>3, ListIsSeq
  <1>5. q \in Lists(VisibleNames, m)
    BY <1>3 DEF Lists
  <1>6. q \in Seq(VisibleNames)
    BY <1>2, <1>5, ListIsSeq
  <1>7. Cardinality(D) <= size => Range(q) = D
    BY <1>2, <1>3, ListIsAll
  <1> QED BY <1>2, <1>4, <1>6, <1>7

\* What a request for the neighbours of some names returns.
LEMMA RequestIs ==
    ASSUME CommunitiesAssumption, HybridSearchAssumption, edges \subseteq EdgeChoices,
           NEW F, NEW size \in Nat, NEW D \in Resolved(F, size), NEW q \in Rankings(D, size)
    PROVE  /\ q \in Seq(VisibleNames) /\ Len(q) \in Nat /\ Len(q) <= size /\ IsInjective(q)
           /\ Range(q) \subseteq Neighbors(F)
           /\ Cardinality(Neighbors(F)) <= size /\ ~(Cardinality(EdgesAt(F)) > EdgePage(size))
                => Range(q) = Neighbors(F)
  <1>1. /\ D \in SUBSET Neighbors(F) /\ IsFiniteSet(D)
        /\ Cardinality(Neighbors(F)) <= size /\ ~(Cardinality(EdgesAt(F)) > EdgePage(size))
             => D = Neighbors(F) /\ Cardinality(D) <= size
    BY ResolvedIs
  <1>2. D \in SUBSET VisibleNames
    BY <1>1, NeighborsOfOne DEF Neighbors, VisibleNames
  <1>3. /\ q \in Seq(VisibleNames) /\ Len(q) \in Nat /\ Len(q) <= size /\ IsInjective(q)
        /\ Range(q) \subseteq D
        /\ Cardinality(D) <= size => Range(q) = D
    BY <1>1, <1>2, RankingIs
  <1> QED BY <1>1, <1>3

\* One request of the expansion adds neighbours of the frontier that are new.
LEMMA ExpandKeeps ==
    ASSUME CommunitiesAssumption, HybridSearchAssumption, SearchInv, UNCHANGED vars, Expand
    PROVE  SearchInv'
  <1>1. /\ stage = "expand" /\ stage' = "expand" /\ hop' = hop + 1
        /\ UNCHANGED <<allowed, hits, seeds, answer>>
        /\ hop \in 1..LastHop /\ Len(expanded) < MaxNeighbors
    BY DEF Expand, Expanding
  <1>2. Visible' = Visible /\ VisibleNames' = VisibleNames /\ edges' = edges /\ order' = order
    BY <1>1, SearchContext DEF hits
  <1>3. LastHop \in Nat /\ LastHop >= 1 /\ LastHop' = LastHop /\ MaxNeighbors \in Nat
    BY LastHopIs DEF LastHop, HybridSearchAssumption
  <1>4. PICK e \in Seq(VisibleNames) : e = expanded
    BY DEF SearchInv
  <1>5. Walked /\ Len(e) \in Nat /\ MaxNeighbors - Len(e) \in Nat
    <2>1. hop > 0
      BY <1>1, <1>3
    <2>2. Walked
      BY <1>1, <2>1 DEF SearchInv
    <2>3. Len(e) \in Nat
      OBVIOUS
    <2>4. MaxNeighbors - Len(e) \in Nat
      <3> HIDE DEF SearchInv
      <3>1. Len(e) < MaxNeighbors
        BY <1>1, <1>4
      <3> QED BY <1>3, <2>3, <3>1
    <2> QED BY <2>2, <2>3, <2>4
  <1>5a. PICK size \in Nat : size = MaxNeighbors - Len(e)
    BY <1>5
  <1>5b. PICK D \in Resolved(frontier, size) : \E q \in Rankings(D, size) :
           expanded' = e \o Unseen(q) /\ frontier' = Range(Unseen(q))
    BY <1>4, <1>5a DEF Expand
  <1>6. PICK q \in Rankings(D, size) : expanded' = e \o Unseen(q) /\ frontier' = Range(Unseen(q))
    BY <1>5b
  <1>7. /\ q \in Seq(VisibleNames) /\ Len(q) \in Nat /\ Len(q) <= size
        /\ IsInjective(q) /\ Range(q) \subseteq Neighbors(frontier)
        /\ Cardinality(Neighbors(frontier)) <= size /\ ~(Cardinality(EdgesAt(frontier)) > EdgePage(size))
             => Range(q) = Neighbors(frontier)
    <2>1. edges \subseteq EdgeChoices
      BY DEF SearchInv
    <2> QED BY <2>1, RequestIs
  <1> DEFINE P == {i \in DOMAIN q : Chunk(q[i]) \notin Range(order) /\ q[i] \notin Range(e)}
  <1>8. PICK u : u = Unseen(q)
    OBVIOUS
  <1>9. /\ u \in Seq(VisibleNames) /\ Len(u) \in Nat /\ Len(u) <= Len(q)
        /\ Range(u) = {q[i] : i \in P} /\ IsInjective(u)
    <2>1. P \in SUBSET DOMAIN q /\ u = Picked(q, P)
      BY <1>4, <1>8 DEF Unseen
    <2> HIDE DEF P
    <2>2. /\ Picked(q, P) \in Seq(VisibleNames) /\ Len(Picked(q, P)) = Cardinality(P)
          /\ Cardinality(P) \in Nat /\ Cardinality(P) <= Len(q)
          /\ Range(Picked(q, P)) = {q[i] : i \in P}
          /\ IsInjective(q) => IsInjective(Picked(q, P))
      <3> HIDE DEF SearchInv, Walked
      <3>1. q \in Seq(VisibleNames) /\ P \in SUBSET DOMAIN q
        BY <1>7, <2>1
      <3> QED BY ONLY <3>1, PickedIsFilter
    <2> QED BY <1>7, <2>1, <2>2
  <1>10. /\ \A n \in Range(u) : n \in Range(q) /\ n \notin Range(e)
         /\ \A n \in Range(q) : Chunk(n) \in Range(order) \/ n \in Range(e) \/ n \in Range(u)
    BY <1>9 DEF Range
  <1> HIDE DEF P
  <1>11. /\ expanded' \in Seq(VisibleNames) /\ Len(expanded') = Len(e) + Len(u)
         /\ Range(expanded') = Range(e) \cup Range(u) /\ IsInjective(expanded')
    <2>1. IsInjective(e) /\ Range(e) \cap Range(u) = {}
      BY <1>4, <1>5, <1>10 DEF Walked
    <2>2. expanded' = e \o u /\ u \in Seq(VisibleNames) /\ IsInjective(u)
      BY <1>6, <1>8, <1>9
    <2>3. e \in Seq(VisibleNames)
      BY <1>4
    <2> QED BY ONLY <2>1, <2>2, <2>3, JoinedRange
  <1>12. Walked'
    <2>1. hop' \in 1..(LastHop' + 1) /\ hop' > 1 /\ hop' # 1 /\ hop' - 1 = hop
      <3>1. PICK h \in 1..LastHop : h = hop
        BY <1>1
      <3>2. h + 1 \in 1..(LastHop + 1) /\ h + 1 > 1 /\ (h + 1) - 1 = h
        <4>1. PICK l \in Nat : l = LastHop
          BY <1>3
        <4>2. h \in Nat /\ h >= 1 /\ h <= l
          BY <4>1
        <4> QED BY <4>1, <4>2
      <3> QED BY <1>1, <1>3, <3>1, <3>2
    <2>2. Len(expanded') <= MaxNeighbors
      BY <1>3, <1>5, <1>7, <1>9, <1>11, <1>5a
    <2>3. ASSUME NEW f, ReachIs(f)'
          PROVE  frontier' \subseteq f[hop' - 1] /\ Range(expanded') \subseteq f[hop' - 1]
      <3>1. ReachIs(f)
        BY <1>1, <2>3, SearchContext
      <3>2. frontier \subseteq f[hop - 1] /\ Range(e) \subseteq f[hop - 1]
        BY <1>4, <1>5, <3>1 DEF Walked
      <3>3. f[hop - 1] \subseteq f[hop]
        BY <1>1, <3>1 DEF ReachIs
      <3>4. Range(u) \subseteq f[hop]
        BY <1>1, <1>7, <1>10, <3>1, <3>2, OneHopFurther
      <3> QED BY <1>6, <1>8, <1>11, <2>1, <3>2, <3>3, <3>4
    <2>4. NearFound(Range(expanded))'
      <3>1. Neighbors(seeds)' = Neighbors(seeds) /\ OneRequest' = OneRequest
        BY <1>1, SearchContext
      <3>2. NearFound(Range(expanded'))
        <4>1. CASE hop = 1
          <5>1. frontier = seeds /\ e = <<>> /\ Len(e) = 0
            BY <1>4, <1>5, <4>1 DEF Walked
          <5>2. OneRequest => Range(q) = Neighbors(seeds)
            <6>1. size = MaxNeighbors
              BY <1>3, <1>5a, <5>1
            <6> QED BY <1>7, <5>1, <6>1 DEF OneRequest
          <5>3. \A n \in Range(q) : Chunk(n) \in Range(order) \/ n \in Range(expanded')
            BY <1>10, <1>11
          <5> QED BY <5>2, <5>3 DEF NearFound
        <4>2. CASE hop > 1
          <5>1. NearFound(Range(e))
            BY <1>4, <1>5, <4>2 DEF Walked
          <5> QED BY <1>11, <5>1 DEF NearFound
        <4> QED BY <1>1, <1>3, <4>1, <4>2
      <3> QED BY <1>2, <3>1, <3>2 DEF NearFound
    <2> QED BY <1>11, <2>1, <2>2, <2>3, <2>4 DEF Walked
  <1>13. hop' > 0 /\ hop' # 0
    BY <1>1, <1>3, SMTT(30)
  <1> QED BY <1>1, <1>2, <1>11, <1>12, <1>13 DEF SearchInv, hits, LegStages

\* The expansion ends with no frontier, after its last hop or with enough neighbours:
\* what it found joins the hits.
LEMMA ExpandEndsKeeps ==
    ASSUME CommunitiesAssumption, HybridSearchAssumption, SearchInv, UNCHANGED vars, ExpandEnds
    PROVE  SearchInv'
  <1>1. /\ stage = "expand" /\ stage' = "community" /\ hop > 0 /\ ~Expanding
        /\ UNCHANGED <<allowed, walk, answer>> /\ Walked
    BY DEF ExpandEnds, SearchInv
  <1>2. Visible' = Visible /\ VisibleNames' = VisibleNames /\ edges' = edges
        /\ UNCHANGED <<seeds, frontier, hop, expanded>>
        /\ Neighbors(seeds)' = Neighbors(seeds) /\ OneRequest' = OneRequest
    BY <1>1, SearchContext DEF walk
  <1>3. LastHop \in Nat /\ LastHop >= 1 /\ LastHop' = LastHop /\ MaxNeighbors \in Nat
    BY LastHopIs DEF LastHop, HybridSearchAssumption
  <1>4. order' \in Seq(Visible) /\ Range(order') = Range(order) \cup {Chunk(n) : n \in Range(expanded)}
    <2> DEFINE list == [k \in DOMAIN expanded |-> Chunk(expanded[k])]
    <2>1. Fuse(list)
      BY DEF ExpandEnds
    <2>2. PICK e \in Seq(VisibleNames) : e = expanded
      BY DEF SearchInv
    <2>3. list \in Seq(Visible) /\ Range(list) = {Chunk(n) : n \in Range(expanded)}
      BY <2>2, ChunksOf
    <2>4. order \in Seq(Visible)
      BY DEF SearchInv
    <2> HIDE DEF list
    <2> QED BY <2>1, <2>3, <2>4, FuseAdds
  <1>5. NearFound(Range(expanded))
    <2>1. CASE hop = 1
      <3>1. frontier = seeds /\ Len(expanded) = 0
        BY <1>1, <2>1 DEF Walked
      <3>2. seeds = {} \/ MaxNeighbors = 0
        BY <1>1, <1>3, <2>1, <3>1 DEF Expanding
      <3>3. CASE seeds = {}
        BY <3>3, NeighborsOfOne DEF NearFound, Neighbors
      <3>4. CASE MaxNeighbors = 0
        <4>1. IsFiniteSet(Neighbors(seeds)) /\ Cardinality(Neighbors(seeds)) \in Nat
          <5>1. IsFiniteSet(Chunks)
            BY GraphIsFinite DEF SearchInv
          <5>2. Neighbors(seeds) \in SUBSET Chunks
            BY DEF NamedBy, Neighbors
          <5> QED BY <5>1, <5>2, FS_Subset, FS_CardinalityType
        <4>2. Cardinality(Neighbors(seeds)) <= MaxNeighbors => Neighbors(seeds) = {}
          BY <3>4, <4>1, FS_EmptySet
        <4> QED BY <4>2 DEF NearFound, OneRequest
      <3> QED BY <3>2, <3>3, <3>4
    <2>2. CASE hop > 1
      BY <1>1, <2>2 DEF Walked
    <2>3. hop \in 1..(LastHop + 1)
      BY <1>1 DEF Walked
    <2> QED BY <1>3, <2>1, <2>2, <2>3
  <1>6. NearFound({})' /\ NearFound(Range(expanded))'
    BY <1>2, <1>4, <1>5 DEF NearFound
  <1>7. Walked'
    <2>1. \A f : ReachIs(f)' => ReachIs(f)
      BY <1>1, <1>2, SearchContext
    <2> QED BY <1>1, <1>2, <1>3, <1>6, <2>1 DEF Walked
  <1>8. \A s \in LegStages \cup {"expand", "idle"} : s # "community"
    BY DEF LegStages
  <1> QED BY <1>1, <1>2, <1>4, <1>6, <1>7, <1>8 DEF SearchInv

\* Communities are found by those who may see their project.
LEMMA CommunitiesKeep ==
    ASSUME HybridSearchAssumption, SearchInv, UNCHANGED vars, MergeCommunities
    PROVE  SearchInv'
  <1>1. stage = "community" /\ stage' = "rerank" /\ UNCHANGED <<allowed, walk, answer>>
    BY DEF MergeCommunities
  <1>2. Visible' = Visible /\ VisibleNames' = VisibleNames /\ edges' = edges
    BY <1>1, SearchContext
  <1>3. PICK n \in 0..CommunityHits : \E q \in Lists({c \in seen : Home \in allowed}, n) :
          Fuse([k \in DOMAIN q |-> Summary(q[k])])
    BY DEF MergeCommunities
  <1>4. PICK q \in Lists({c \in seen : Home \in allowed}, n) :
          Fuse([k \in DOMAIN q |-> Summary(q[k])])
    BY <1>3
  <1>5. n \in Nat
    BY DEF HybridSearchAssumption
  <1> DEFINE list == [k \in DOMAIN q |-> Summary(q[k])]
  <1>6. list \in Seq(Visible)
    <2>1. DOMAIN q = 1..n /\ \A k \in 1..n : q[k] \in seen /\ Home \in allowed
      BY DEF Lists
    <2>2. list \in [1..n -> Visible]
      BY <2>1 DEF Visible
    <2> HIDE DEF list
    <2> QED BY <1>5, <2>2, TableIsSeq
  <1>7. order' \in Seq(Visible)
    <2>1. order \in Seq(Visible) /\ Fuse(list)
      BY <1>4 DEF SearchInv
    <2> HIDE DEF list
    <2> QED BY <1>6, <2>1, FuseAdds
  <1> QED BY <1>1, <1>2, <1>7 DEF SearchInv, walk, LegStages

\* Reranking orders and cuts what was found.
LEMMA RerankKeeps ==
    ASSUME HybridSearchAssumption, SearchInv, UNCHANGED vars, Rerank
    PROVE  SearchInv'
  <1>1. stage = "rerank" /\ stage' = "answered" /\ UNCHANGED <<allowed, hits, walk>>
    BY DEF Rerank
  <1>2. Visible' = Visible /\ VisibleNames' = VisibleNames /\ edges' = edges
    BY <1>1, SearchContext
  <1>3. PICK raw : answer' = Answer(raw)
    BY DEF Rerank
  <1>4. answer' \in Seq(Visible)
    <2>1. PICK o \in Seq(Visible) : o = order
      BY DEF SearchInv
    <2>2. PICK sc : sc = Blended(raw)
      OBVIOUS
    <2>3. answer' = First(Descending(Descending(o, score), sc), TopK)
      BY <1>3, <2>1, <2>2 DEF Answer, ByScore
    <2>4. Descending(Descending(o, score), sc) \in Seq(Visible)
      <3>1. Descending(o, score) \in Seq(Visible)
        BY DescendingKeeps
      <3> QED BY <3>1, DescendingKeeps
    <2>5. TopK \in Nat
      BY DEF HybridSearchAssumption
    <2> QED BY <2>3, <2>4, <2>5, FirstKeeps
  <1> QED BY <1>1, <1>2, <1>4 DEF SearchInv, hits, walk, LegStages

\* Between rebuilds and searches edges are those the jobs may write.
LEMMA EdgesStayChoices ==
    ASSUME edges \subseteq EdgeChoices, Next
    PROVE  edges' \subseteq EdgeChoices
  <1> USE DEF graph
  <1>1. CASE Reindex
    BY <1>1 DEF Reindex
  <1>2. CASE Read
    BY <1>2 DEF Read
  <1>3. CASE \E n \in Symbols : Visit(n)
    BY <1>3 DEF Visit
  <1>4. CASE NextRound \/ Detect \/ Embed \/ Delete \/ Write \/ Fail \/ Refresh
    BY <1>4 DEF NextRound, Detect, Embed, Delete, Write, Fail, Refresh
  <1> QED BY <1>1, <1>2, <1>3, <1>4 DEF Next

\* What a search holds at any moment may be shown to its user, whatever rebuilds and jobs
\* left in the index and whatever the legs, edges and communities lead to.
THEOREM SearchInvariance == GraphSpec => []SearchInv
<1>1. GraphInit => SearchInv
  <2> SUFFICES ASSUME GraphInit PROVE SearchInv
    OBVIOUS
  <2>1. /\ stage = "idle" /\ order = <<>> /\ answer = <<>> /\ expanded = <<>> /\ hop = 0
        /\ edges \subseteq EdgeChoices
    BY DEF GraphInit, SearchInit, Init
  <2> QED BY <2>1 DEF SearchInv, LegStages
<1>2. SearchInv /\ [GraphNext]_allVars => SearchInv'
  <2> SUFFICES ASSUME SearchInv, [GraphNext]_allVars PROVE SearchInv'
    OBVIOUS
  <2> USE CommunitiesAssumption, HybridSearchAssumption
  <2>1. CASE SearchNext
    <3>1. UNCHANGED vars
      BY <2>1 DEF SearchNext
    <3>2. CASE Begin
      <4>1. /\ stage = "idle" /\ stage' = Legs[1] /\ UNCHANGED <<hits, walk, answer>>
            /\ edges' = edges
        BY <3>1, <3>2 DEF Begin, vars, graph
      <4>2. stage' \in LegStages /\ order' = <<>> /\ answer' = <<>> /\ expanded' = <<>> /\ hop' = 0
        <5>1. 1 \in DOMAIN Legs
          BY DEF Legs
        <5> QED BY <4>1, <5>1, LegNames DEF SearchInv, hits, walk
      <4>3. LegStages' = LegStages /\ stage' \notin {"idle", "expand", "community"}
        BY <4>2, LegNames DEF LegStages
      <4>4. edges' \subseteq EdgeChoices /\ EdgeChoices' = EdgeChoices
        BY <4>1 DEF SearchInv
      <4>5. order' \in Seq(Visible') /\ answer' \in Seq(Visible') /\ expanded' \in Seq(VisibleNames')
        BY <4>2, EmptySeq
      <4> QED BY <4>2, <4>3, <4>4, <4>5 DEF SearchInv
    <3>3. ASSUME NEW i \in DOMAIN Legs, Merge(i) PROVE SearchInv'
      BY <3>1, <3>3, MergeKeeps
    <3>4. CASE Seed
      BY <3>1, <3>4, SeedKeeps
    <3>5. CASE Expand
      BY <3>1, <3>5, ExpandKeeps
    <3>6. CASE ExpandEnds
      BY <3>1, <3>6, ExpandEndsKeeps
    <3>7. CASE MergeCommunities
      BY <3>1, <3>7, CommunitiesKeep
    <3>8. CASE Rerank
      BY <3>1, <3>8, RerankKeeps
    <3> QED BY <2>1, <3>2, <3>3, <3>4, <3>5, <3>6, <3>7, <3>8 DEF SearchNext
  <2>2. CASE stage = "idle" /\ Next /\ UNCHANGED searchVars
    <3>1. /\ stage' = "idle" /\ order' = <<>> /\ answer' = <<>> /\ expanded' = <<>> /\ hop' = 0
          /\ edges' \subseteq EdgeChoices
      BY <2>2, EdgesStayChoices DEF SearchInv, searchVars, hits, walk
    <3> QED BY <3>1 DEF SearchInv, LegStages
  <2>3. CASE UNCHANGED allVars
    <3>1. UNCHANGED <<vars, allowed, stage, hits, walk, answer>>
      BY <2>3 DEF allVars, searchVars
    <3>2. Visible' = Visible /\ VisibleNames' = VisibleNames /\ edges' = edges
      BY <3>1, SearchContext
    <3>3. UNCHANGED <<order, seeds, frontier, hop, expanded>>
      BY <3>1 DEF hits, walk
    <3>4. \A names : NearFound(names) => NearFound(names)'
      BY <3>1, <3>3, SearchContext DEF NearFound
    <3>5. Walked => Walked'
      <4>1. \A f : ReachIs(f)' => ReachIs(f)
        BY <3>1, <3>3, SearchContext
      <4> QED BY <3>3, <3>4, <4>1 DEF Walked, LastHop
    <3> QED BY <3>1, <3>2, <3>3, <3>4, <3>5 DEF SearchInv
  <2> QED BY <2>1, <2>2, <2>3 DEF GraphNext
<1> QED BY <1>1, <1>2, PTL DEF GraphSpec

\* Whatever leads to it, what is answered is of a project the user may see.
THEOREM AnswersInScope == GraphSpec => []AnswerInScope
<1>1. SearchInv => AnswerInScope
  <2> SUFFICES ASSUME SearchInv, NEW i \in DOMAIN answer
               PROVE  IF answer[i].kind = "chunk" THEN ProjectOf[answer[i].of] \in allowed
                      ELSE Home \in allowed
    BY DEF AnswerInScope
  <2>1. answer[i] \in Visible
    BY ElementOfSeq DEF SearchInv
  <2>2. CASE \E n \in Chunks : InScope(n) /\ answer[i] = Chunk(n)
    BY <2>2 DEF Chunk, InScope
  <2>3. CASE Home \in allowed
    <3>1. answer[i].kind = "chunk" => \E n \in Chunks : InScope(n) /\ answer[i] = Chunk(n)
      BY <2>1 DEF Visible, Chunk, Summary
    <3> QED BY <2>2, <2>3, <3>1
  <2> QED BY <2>1, <2>2, <2>3 DEF Visible
<1> QED BY <1>1, SearchInvariance, PTL

\* The expansion adds only what lies within its hops, each name once and not more than
\* asked for, and no neighbour of the seeds is missing when one request can read all edges at them
\* and return all of them.
THEOREM ExpansionBounded == GraphSpec => []ExpansionIsNeighbourhood
<1>1. HybridSearchAssumption /\ SearchInv => ExpansionIsNeighbourhood
  <2> SUFFICES ASSUME HybridSearchAssumption, SearchInv, stage = "community"
               PROVE  /\ Range(expanded) \subseteq Reach[LastHop]
                      /\ Len(expanded) <= MaxNeighbors /\ IsInjective(expanded)
                      /\ \/ Cardinality(Neighbors(seeds)) > MaxNeighbors
                         \/ Cardinality(EdgesAt(seeds)) > EdgePage(MaxNeighbors)
                         \/ \A n \in Neighbors(seeds) : Chunk(n) \in Range(order)
    BY DEF ExpansionIsNeighbourhood
  <2>1. Walked /\ NearFound({})
    BY DEF SearchInv
  <2>2. ReachIs(Reach)
    BY ReachExists
  <2>3. Range(expanded) \subseteq Reach[hop - 1] /\ hop - 1 \in 0..LastHop
    <3>1. LastHop \in Nat
      BY LastHopIs
    <3>2. hop \in 1..(LastHop + 1) => hop - 1 \in 0..LastHop
      BY <3>1
    <3> QED BY <2>1, <2>2, <3>2 DEF Walked
  <2>4. Reach[hop - 1] \subseteq Reach[LastHop]
    BY <2>2, <2>3, ReachGrows
  <2>5. \/ Cardinality(Neighbors(seeds)) > MaxNeighbors
        \/ Cardinality(EdgesAt(seeds)) > EdgePage(MaxNeighbors)
        \/ \A n \in Neighbors(seeds) : Chunk(n) \in Range(order)
    <3>1. Cardinality(Neighbors(seeds)) \in Nat /\ MaxNeighbors \in Nat
      <4>1. IsFiniteSet(Chunks) /\ Neighbors(seeds) \in SUBSET Chunks
        BY CommunitiesAssumption, GraphIsFinite DEF SearchInv, NamedBy, Neighbors
      <4> QED BY <4>1, FS_Subset, FS_CardinalityType DEF HybridSearchAssumption
    <3>2. ~(Cardinality(Neighbors(seeds)) > MaxNeighbors) => Cardinality(Neighbors(seeds)) <= MaxNeighbors
      BY <3>1
    <3> QED BY <2>1, <3>2 DEF NearFound, OneRequest
  <2> QED BY <2>1, <2>3, <2>4, <2>5 DEF Walked
<1> QED BY <1>1, HybridSearchAssumption, SearchInvariance, PTL

-----------------------------------------------------------------------------
(* The pool: what a search submits runs once, and what raises fails it.     *)

\* Sequences of one and of two.
LEMMA ShortSeqs ==
    ASSUME NEW S, NEW a \in S, NEW b \in S
    PROVE  /\ <<a>> \in Seq(S) /\ Len(<<a>>) = 1 /\ <<a>>[1] = a
           /\ <<a, b>> \in Seq(S) /\ Len(<<a, b>>) = 2 /\ <<a, b>>[1] = a /\ <<a, b>>[2] = b
  OBVIOUS

\* Each leg of a search is submitted once.
LEMMA LegsOfSearch ==
    ASSUME RetrievalAssumption
    PROVE  /\ FirstLegs \in Seq(PoolLegs) /\ SecondLegs \in Seq(PoolLegs)
           /\ IsInjective(FirstLegs) /\ IsInjective(SecondLegs)
           /\ Range(FirstLegs) \cap Range(SecondLegs) = {}
           /\ "embedding" \in Range(FirstLegs) /\ "community" \notin Range(FirstLegs)
           /\ PoolLegs = Range(JoinOrder) \cup {"embedding"}
  <1> DEFINE n == Len(IndexLegs)
             U == Range(IndexLegs) \cup {"embedding", "knn", "community"}
  <1>1. n \in Nat /\ DOMAIN IndexLegs = 1..n /\ IndexLegs \in Seq(U)
    <2>1. IndexLegs \in Seq(STRING)
      BY DEF RetrievalAssumption
    <2>2. IndexLegs \in Seq(Range(IndexLegs))
      BY <2>1, SeqOfRange
    <2>3. Range(IndexLegs) \subseteq U
      OBVIOUS
    <2> HIDE DEF U
    <2>4. IndexLegs \in Seq(U)
      BY <2>2, <2>3, SeqMonotonic
    <2> QED BY <2>4
  <1>2. /\ \A i \in 1..n : IndexLegs[i] \notin {"embedding", "knn", "community"}
        /\ \A i, j \in 1..n : IndexLegs[i] = IndexLegs[j] => i = j
    <2>1. /\ \A i \in DOMAIN IndexLegs : IndexLegs[i] \notin {"embedding", "knn", "community"}
          /\ \A i, j \in DOMAIN IndexLegs : IndexLegs[i] = IndexLegs[j] => i = j
      BY DEF RetrievalAssumption
    <2> QED BY <1>1, <2>1
  <1>3. Range(IndexLegs) = {IndexLegs[i] : i \in 1..n}
    BY <1>1 DEF Range
  <1>4. /\ SecondLegs \in Seq(U) /\ Range(SecondLegs) \subseteq {"knn", "community"}
        /\ IsInjective(SecondLegs)
    <2>1. "knn" \in U /\ "community" \in U /\ "knn" # "community"
      OBVIOUS
    <2> HIDE DEF U
    <2>2. /\ <<"knn">> \in Seq(U) /\ Len(<<"knn">>) = 1 /\ <<"knn">>[1] = "knn"
          /\ <<"knn", "community">> \in Seq(U) /\ Len(<<"knn", "community">>) = 2
          /\ <<"knn", "community">>[1] = "knn" /\ <<"knn", "community">>[2] = "community"
      BY <2>1, ShortSeqs, Zenon
    <2>3. CASE CommunityEnabled
      <3>1. /\ SecondLegs \in Seq(U) /\ Len(SecondLegs) = 2
            /\ SecondLegs[1] = "knn" /\ SecondLegs[2] = "community"
        BY <2>2, <2>3, Zenon DEF SecondLegs
      <3>2. DOMAIN SecondLegs = {1, 2}
        BY <3>1
      <3>3. Range(SecondLegs) = {"knn", "community"} /\ IsInjective(SecondLegs)
        BY <2>1, <3>1, <3>2 DEF Range, IsInjective
      <3> QED BY <3>1, <3>3
    <2>4. CASE ~CommunityEnabled
      <3>1. SecondLegs \in Seq(U) /\ Len(SecondLegs) = 1 /\ SecondLegs[1] = "knn"
        BY <2>2, <2>4, Zenon DEF SecondLegs
      <3>2. DOMAIN SecondLegs = {1}
        BY <3>1
      <3>3. Range(SecondLegs) = {"knn"} /\ IsInjective(SecondLegs)
        BY <3>1, <3>2 DEF Range, IsInjective
      <3> QED BY <3>1, <3>3
    <2> QED BY <2>3, <2>4
  <1>5. /\ FirstLegs \in Seq(U) /\ Len(FirstLegs) = n + 1
        /\ \A i \in 1..n : FirstLegs[i] = IndexLegs[i]
        /\ FirstLegs[n + 1] = "embedding"
    <2>1. "embedding" \in U
      OBVIOUS
    <2> HIDE DEF U
    <2>2. <<"embedding">> \in Seq(U) /\ Len(<<"embedding">>) = 1 /\ <<"embedding">>[1] = "embedding"
      BY <2>1, ShortSeqs, Zenon
    <2>3. FirstLegs = IndexLegs \o <<"embedding">>
      BY Zenon DEF FirstLegs
    <2> DEFINE e == <<"embedding">>
    <2> HIDE DEF e
    <2>4. e \in Seq(U) /\ Len(e) = 1 /\ e[1] = "embedding" /\ FirstLegs = IndexLegs \o e
      BY <2>2, <2>3, Zenon DEF e
    <2> DEFINE c == IndexLegs \o e
    <2>5. /\ c \in Seq(U) /\ Len(c) = Len(IndexLegs) + Len(e)
          /\ \A i \in 1..Len(IndexLegs) : c[i] = IndexLegs[i]
          /\ \A i \in (Len(IndexLegs) + 1)..(Len(IndexLegs) + Len(e)) :
               c[i] = e[i - Len(IndexLegs)]
      <3>1. IndexLegs \in Seq(U) /\ e \in Seq(U)
        BY <1>1, <2>4
      <3> QED BY <3>1, Joined
    <2>6. FirstLegs = c
      BY <2>4
    <2> HIDE DEF c
    <2> QED BY <1>1, <2>4, <2>5, <2>6
  <1>6. DOMAIN FirstLegs = 1..(n + 1)
    BY <1>1, <1>5
  <1> HIDE DEF n
  <1>7. Range(FirstLegs) = Range(IndexLegs) \cup {"embedding"}
    <2>1. Range(FirstLegs) = {FirstLegs[i] : i \in 1..(n + 1)}
      BY <1>6, Zenon DEF Range
    <2>2. \A i \in 1..(n + 1) : i \in 1..n \/ i = n + 1
      BY <1>1
    <2>3. n + 1 \in 1..(n + 1) /\ \A i \in 1..n : i \in 1..(n + 1)
      BY <1>1
    <2> QED BY <1>3, <1>5, <2>1, <2>2, <2>3
  <1>8. IsInjective(FirstLegs)
    <2> SUFFICES ASSUME NEW i \in 1..(n + 1), NEW j \in 1..(n + 1), FirstLegs[i] = FirstLegs[j]
                 PROVE  i = j
      BY <1>6 DEF IsInjective
    <2>1. (i \in 1..n \/ i = n + 1) /\ (j \in 1..n \/ j = n + 1)
      BY <1>1
    <2> QED BY <1>2, <1>5, <2>1
  <1>9. Range(JoinOrder) = Range(IndexLegs) \cup Range(SecondLegs)
    <2> HIDE DEF U
    <2> QED BY <1>1, <1>4, RangeConcatenation DEF JoinOrder
  <1>10. FirstLegs \in Seq(PoolLegs) /\ SecondLegs \in Seq(PoolLegs)
    <2> HIDE DEF U
    <2>1. FirstLegs \in Seq(Range(FirstLegs)) /\ SecondLegs \in Seq(Range(SecondLegs))
      BY <1>4, <1>5, SeqOfRange
    <2>2. Range(FirstLegs) \subseteq PoolLegs /\ Range(SecondLegs) \subseteq PoolLegs
      BY DEF PoolLegs
    <2> QED BY <2>1, <2>2, SeqMonotonic
  <1>11. Range(IndexLegs) \cap {"embedding", "knn", "community"} = {}
    BY <1>2, <1>3
  <1> QED BY <1>4, <1>7, <1>8, <1>9, <1>10, <1>11 DEF PoolLegs

\* Each leg in the work queue is there once, and has not begun.
Queued ==
    /\ queue \in Seq([search : Searches, leg : PoolLegs])
    /\ \A i \in 1..Len(queue) : leg[queue[i].search][queue[i].leg] = "queued"
    /\ \A i, j \in 1..Len(queue) : queue[i] = queue[j] => i = j

\* What the place of a search says about its legs, and what raised about its place.
Progress(s) ==
    /\ pc[s] = "idle" => \A l \in PoolLegs : leg[s][l] = "none"
    /\ pc[s] # "idle" => query[s] \in Queries
    /\ pc[s] \in {"first", "embedding"} => \A l \in Range(SecondLegs) : leg[s][l] = "none"
    /\ pc[s] \in {"second", "join", "rank", "answered"} => leg[s]["embedding"] = "done"
    /\ pc[s] \in {"rank", "answered"} => \A l \in PoolLegs : leg[s][l] = "done"
    /\ \A l \in PoolLegs : leg[s][l] = "failed" => l \in raised[s] /\ l # "community"
    /\ \A l \in raised[s] : \/ l = "community" \/ pc[s] = "failed"
                            \/ l \in PoolLegs /\ leg[s][l] = "failed"
    /\ pc[s] = "failed" => ~open \/ raised[s] \ {"community"} # {}

PoolTyped ==
    /\ pc \in [Searches -> Steps]
    /\ query \in [Searches -> Queries \cup {NoQuery}]
    /\ leg \in [Searches -> [PoolLegs -> LegStates]]
    /\ open \in BOOLEAN
    /\ raised \in [Searches -> SUBSET (PoolLegs \cup {"hyde", "rank"})]

PoolInv == PoolTyped /\ Queued /\ \A s \in Searches : Progress(s)

\* What happens to one search leaves the others where they are.
LEMMA OthersProgress ==
    ASSUME NEW x, Progress(x), open' => open,
           pc'[x] = pc[x], query'[x] = query[x], leg'[x] = leg[x], raised'[x] = raised[x]
    PROVE  Progress(x)'
  BY DEF Progress

\* A leg that enters the queue is new to it.
LEMMA SubmitQueues ==
    ASSUME PoolTyped, Queued, NEW s \in Searches, NEW l \in PoolLegs, leg[s][l] = "none",
           leg' = [leg EXCEPT ![s][l] = "queued"],
           queue' = Append(queue, [search |-> s, leg |-> l])
    PROVE  /\ Queued' /\ leg' \in [Searches -> [PoolLegs -> LegStates]]
           /\ \A x \in Searches \ {s} : leg'[x] = leg[x]
           /\ \A k \in PoolLegs : leg'[s][k] = IF k = l THEN "queued" ELSE leg[s][k]
  <1> DEFINE Item == [search : Searches, leg : PoolLegs]
             m == Len(queue)
  <1>1. /\ leg' \in [Searches -> [PoolLegs -> LegStates]]
        /\ \A x \in Searches \ {s} : leg'[x] = leg[x]
        /\ \A k \in PoolLegs : leg'[s][k] = IF k = l THEN "queued" ELSE leg[s][k]
    BY DEF PoolTyped, LegStates
  <1>2. PICK new \in Item : new = [search |-> s, leg |-> l]
    OBVIOUS
  <1>3. new.search = s /\ new.leg = l /\ queue \in Seq(Item)
    BY <1>2 DEF Queued
  <1> HIDE DEF Item
  <1>4. /\ m \in Nat /\ queue' \in Seq(Item) /\ Len(queue') = m + 1 /\ queue'[m + 1] = new
        /\ \A i \in 1..m : queue'[i] = queue[i] /\ queue[i] \in Item
    BY <1>2, <1>3, ElementOfSeq
  <1>5. \A i \in 1..m : /\ leg[queue[i].search][queue[i].leg] = "queued" /\ queue[i] # new
                        /\ queue[i].search \in Searches /\ queue[i].leg \in PoolLegs
    <2>1. \A i \in 1..m : leg[queue[i].search][queue[i].leg] = "queued"
      BY DEF Queued
    <2> QED BY <1>3, <1>4, <2>1 DEF Item
  <1>6. \A i \in 1..m : leg'[queue[i].search][queue[i].leg] = "queued"
    BY <1>1, <1>5
  <1>7. \A i \in 1..(m + 1) : i \in 1..m \/ i = m + 1
    BY <1>4
  <1>8. \A i \in 1..(m + 1) : leg'[queue'[i].search][queue'[i].leg] = "queued"
    BY <1>1, <1>3, <1>4, <1>6, <1>7
  <1>9. \A i, j \in 1..(m + 1) : queue'[i] = queue'[j] => i = j
    <2>1. \A i, j \in 1..m : queue[i] = queue[j] => i = j
      BY DEF Queued
    <2> HIDE DEF m
    <2> QED BY <1>4, <1>5, <1>7, <2>1
  <1> QED BY <1>1, <1>4, <1>8, <1>9 DEF Queued, Item

\* One leg of one search changes its state.
LEMMA LegMoves ==
    ASSUME PoolTyped, NEW s \in Searches, NEW l \in PoolLegs, NEW v \in LegStates,
           leg' = [leg EXCEPT ![s][l] = v]
    PROVE  /\ leg' \in [Searches -> [PoolLegs -> LegStates]]
           /\ \A x \in Searches \ {s} : leg'[x] = leg[x]
           /\ \A k \in PoolLegs : leg'[s][k] = IF k = l THEN v ELSE leg[s][k]
  BY DEF PoolTyped

\* What is in the queue stays there if no queued leg changes.
LEMMA QueueKeeps ==
    ASSUME Queued, queue' = queue,
           \A x \in Searches, k \in PoolLegs : leg[x][k] = "queued" => leg'[x][k] = "queued"
    PROVE  Queued'
  <1> DEFINE Item == [search : Searches, leg : PoolLegs]
  <1>1. queue \in Seq(Item)
    BY DEF Queued
  <1> HIDE DEF Item
  <1>2. \A i \in 1..Len(queue) : queue[i] \in Item
    BY <1>1, ElementOfSeq
  <1>3. \A i \in 1..Len(queue) : queue[i].search \in Searches /\ queue[i].leg \in PoolLegs
    BY <1>2 DEF Item
  <1> QED BY <1>3 DEF Queued

\* A step of one search keeps the invariant if it keeps what is said of that search.
LEMMA OneSearchMoves ==
    ASSUME PoolInv, PoolTyped', Queued', open' => open, NEW s \in Searches, Progress(s)',
           \A x \in Searches \ {s} : /\ pc'[x] = pc[x] /\ query'[x] = query[x]
                                     /\ leg'[x] = leg[x] /\ raised'[x] = raised[x]
    PROVE  PoolInv'
  <1>1. ASSUME NEW x \in Searches \ {s} PROVE Progress(x)'
    BY <1>1, OthersProgress DEF PoolInv
  <1> QED BY <1>1 DEF PoolInv

\* An empty pool satisfies the invariant.
LEMMA PoolBegins == RetrievalAssumption /\ PoolInit => PoolInv
  <1> SUFFICES ASSUME RetrievalAssumption, PoolInit PROVE PoolInv
    OBVIOUS
  <1>1. PoolTyped
    BY DEF PoolInit, PoolTyped, Steps, LegStates
  <1>2. Queued
    <2> DEFINE Item == [search : Searches, leg : PoolLegs]
    <2>1. queue = <<>>
      BY DEF PoolInit
    <2> HIDE DEF Item
    <2>2. queue \in Seq(Item) /\ Len(queue) = 0
      BY <2>1
    <2>3. 1..Len(queue) = {}
      BY <2>2
    <2> QED BY <2>2, <2>3, Zenon DEF Queued, Item
  <1>3. ASSUME NEW s \in Searches PROVE Progress(s)
    BY DEF PoolInit, Progress
  <1> QED BY <1>1, <1>2, <1>3 DEF PoolInv

\* Where a search stands changes nothing but its own progress.
LEMMA PlaceMoves ==
    ASSUME PoolInv, NEW s \in Searches, NEW step \in Steps, Goto(s, step),
           UNCHANGED <<query, leg, queue, open>>,
           raised' \in [Searches -> SUBSET (PoolLegs \cup {"hyde", "rank"})],
           \A x \in Searches \ {s} : raised'[x] = raised[x],
           Progress(s)'
    PROVE  PoolInv'
  <1>1. PoolTyped' /\ Queued'
    BY DEF PoolInv, PoolTyped, Queued, Goto
  <1>2. \A x \in Searches \ {s} : pc'[x] = pc[x]
    BY DEF Goto, PoolInv, PoolTyped
  <1> QED BY <1>1, <1>2, OneSearchMoves

\* A search begins with its query.
LEMMA SearchKeeps ==
    ASSUME RetrievalAssumption, PoolInv, NEW s \in Searches, Search(s)
    PROVE  PoolInv'
  <1>1. /\ pc[s] = "idle" /\ UNCHANGED <<leg, queue, open, raised>>
        /\ \A l \in PoolLegs : leg[s][l] = "none"
    BY DEF Search, history, PoolInv, Progress
  <1>2. PICK q \in Queries : query' = [query EXCEPT ![s] = q]
    BY DEF Search
  <1>3. /\ query' \in [Searches -> Queries \cup {NoQuery}] /\ query'[s] \in Queries
        /\ \A x \in Searches \ {s} : query'[x] = query[x]
    BY <1>2 DEF PoolInv, PoolTyped
  <1>4. /\ pc' \in [Searches -> Steps] /\ pc'[s] = "first"
        /\ \A x \in Searches \ {s} : pc'[x] = pc[x]
    BY DEF Search, Goto, PoolInv, PoolTyped, Steps
  <1>5. PoolTyped' /\ Queued'
    <2>1. PoolTyped'
      BY <1>1, <1>3, <1>4 DEF PoolTyped, PoolInv
    <2>2. Queued'
      BY <1>1 DEF PoolInv, Queued
    <2> QED BY <2>1, <2>2
  <1>6. \A l \in Range(SecondLegs) : l \in PoolLegs
    BY DEF PoolLegs
  <1>7. Progress(s)'
    BY <1>1, <1>3, <1>4, <1>6 DEF Progress, PoolInv
  <1> QED BY <1>1, <1>3, <1>4, <1>5, <1>7, OneSearchMoves

\* A leg is submitted after those before it, and refused by a closed pool.
LEMMA SubmitNextKeeps ==
    ASSUME RetrievalAssumption, PoolInv, NEW s \in Searches, SubmitNext(s)
    PROVE  PoolInv'
  <1>1. /\ pc[s] \in {"first", "second"} /\ query' = query /\ open' = open /\ raised' = raised
        /\ Progress(s)
    BY DEF SubmitNext, history, PoolInv
  <1>2. ASSUME NEW legs \in {FirstLegs, SecondLegs}, NEW then \in Steps, Submit(s, legs, then),
               \/ pc[s] = "first" /\ legs = FirstLegs /\ then = "embedding"
               \/ pc[s] = "second" /\ legs = SecondLegs /\ then = "join"
        PROVE  PoolInv'
    <2>1. PICK i \in DOMAIN legs :
            /\ leg[s][legs[i]] = "none" /\ leg' = [leg EXCEPT ![s][legs[i]] = "queued"]
            /\ queue' = Append(queue, [search |-> s, leg |-> legs[i]])
            /\ IF i = Len(legs) THEN Goto(s, then) ELSE UNCHANGED pc
      BY <1>2 DEF Submit
    <2>2. PICK l \in PoolLegs : l = legs[i] /\ l \in Range(legs)
      BY LegsOfSearch DEF Range, PoolLegs
    <2>3. /\ Queued' /\ leg' \in [Searches -> [PoolLegs -> LegStates]]
          /\ \A x \in Searches \ {s} : leg'[x] = leg[x]
          /\ \A k \in PoolLegs : leg'[s][k] = IF k = l THEN "queued" ELSE leg[s][k]
      BY <2>1, <2>2, SubmitQueues DEF PoolInv
    <2>4. /\ pc' \in [Searches -> Steps] /\ pc'[s] \in {pc[s], then}
          /\ \A x \in Searches \ {s} : pc'[x] = pc[x]
      BY <2>1 DEF Goto, PoolInv, PoolTyped
    <2>5. PoolTyped'
      BY <1>1, <2>3, <2>4 DEF PoolTyped, PoolInv
    <2>6. /\ pc[s] = "first" => /\ pc'[s] \in {"first", "embedding"}
                               /\ \A k \in Range(SecondLegs) : k \in PoolLegs /\ leg'[s][k] = "none"
          /\ pc[s] = "second" => pc'[s] \in {"second", "join"} /\ leg'[s]["embedding"] = "done"
      <3>1. "embedding" \in PoolLegs /\ Range(SecondLegs) \subseteq PoolLegs
            /\ Range(FirstLegs) \cap Range(SecondLegs) = {} /\ "embedding" \notin Range(SecondLegs)
        BY LegsOfSearch DEF PoolLegs
      <3>2. ASSUME pc[s] = "first"
            PROVE  /\ pc'[s] \in {"first", "embedding"} /\ l \notin Range(SecondLegs)
                   /\ \A k \in Range(SecondLegs) : leg[s][k] = "none"
        BY <1>1, <1>2, <2>2, <2>4, <3>1, <3>2 DEF Progress
      <3>3. ASSUME pc[s] = "second"
            PROVE  pc'[s] \in {"second", "join"} /\ l # "embedding" /\ leg[s]["embedding"] = "done"
        BY <1>1, <1>2, <2>2, <2>4, <3>1, <3>3 DEF Progress
      <3> QED BY <2>3, <3>1, <3>2, <3>3
    <2>7. \A k \in PoolLegs : (leg[s][k] = "failed") = (leg'[s][k] = "failed")
      BY <2>1, <2>2, <2>3
    <2>8. Progress(s)'
      BY <1>1, <2>6, <2>7 DEF Progress
    <2> QED BY <1>1, <2>3, <2>4, <2>5, <2>8, OneSearchMoves
  <1>3. CASE ~open
    <2>1. pc' = [pc EXCEPT ![s] = "failed"] /\ leg' = leg /\ queue' = queue /\ ~open
      BY <1>3 DEF SubmitNext, Refused, Goto
    <2>2. pc'[s] = "failed" /\ "failed" \in Steps
      BY <2>1 DEF PoolInv, PoolTyped, Steps
    <2>3. Progress(s)'
      BY <1>1, <2>1, <2>2 DEF Progress, PoolInv
    <2> QED BY <1>1, <2>1, <2>2, <2>3, PlaceMoves DEF Goto, PoolInv, PoolTyped
  <1>4. CASE open
    <2>1. "embedding" \in Steps /\ "join" \in Steps
      BY DEF Steps
    <2>2. \/ pc[s] = "first" /\ Submit(s, FirstLegs, "embedding")
          \/ pc[s] = "second" /\ Submit(s, SecondLegs, "join")
      BY <1>1, <1>4 DEF SubmitNext
    <2> QED BY <1>2, <2>1, <2>2
  <1> QED BY <1>3, <1>4

\* The work at the head of the queue is a leg that waits, once.
LEMMA HeadIsQueued ==
    ASSUME PoolInv, queue # <<>>
    PROVE  /\ Head(queue).search \in Searches /\ Head(queue).leg \in PoolLegs
           /\ leg[Head(queue).search][Head(queue).leg] = "queued"
  <1> DEFINE Item == [search : Searches, leg : PoolLegs]
  <1>1. queue \in Seq(Item)
    BY DEF PoolInv, Queued
  <1>2. Len(queue) \in Nat /\ Len(queue) > 0 /\ Head(queue) = queue[1] /\ queue[1] \in Item
    <2> HIDE DEF Item
    <2>1. Len(queue) \in Nat /\ Len(queue) > 0 /\ Head(queue) = queue[1]
      BY <1>1
    <2> QED BY <1>1, <2>1, ElementOfSeq
  <1>3. Head(queue).search \in Searches /\ Head(queue).leg \in PoolLegs
    BY <1>2
  <1>4. leg[Head(queue).search][Head(queue).leg] = "queued"
    BY <1>2 DEF PoolInv, Queued
  <1> QED BY <1>3, <1>4

\* A worker takes the head of the queue.
LEMMA StartKeeps ==
    ASSUME RetrievalAssumption, PoolInv, Start
    PROVE  PoolInv'
  <1> DEFINE Item == [search : Searches, leg : PoolLegs]
  <1>1. queue \in Seq(Item) /\ queue # <<>>
    BY DEF Start, PoolInv, Queued
  <1>2. /\ leg' = [leg EXCEPT ![Head(queue).search][Head(queue).leg] = "running"]
        /\ queue' = Tail(queue)
        /\ UNCHANGED <<pc, query, open, raised>>
    BY DEF Start, history
  <1>3. /\ Len(queue) \in Nat /\ Len(queue) > 0 /\ Head(queue) = queue[1]
        /\ \A i \in 1..Len(queue) : queue[i] \in Item
        /\ queue' \in Seq(Item) /\ Len(queue') = Len(queue) - 1
        /\ \A i \in 1..Len(queue') : queue'[i] = queue[i + 1]
    <2> HIDE DEF Item
    <2> QED BY <1>1, <1>2, HeadTailProperties, ElementOfSeq
  <1>4. PICK s \in Searches, l \in PoolLegs :
             /\ s = Head(queue).search /\ l = Head(queue).leg /\ leg[s][l] = "queued"
             /\ leg' = [leg EXCEPT ![s][l] = "running"]
    BY <1>1, <1>2, HeadIsQueued, Zenon
  <1>5. /\ leg' \in [Searches -> [PoolLegs -> LegStates]]
        /\ \A x \in Searches \ {s} : leg'[x] = leg[x]
        /\ \A k \in PoolLegs : leg'[s][k] = IF k = l THEN "running" ELSE leg[s][k]
    <2>1. "running" \in LegStates /\ PoolTyped /\ leg' = [leg EXCEPT ![s][l] = "running"]
      BY <1>4 DEF LegStates, PoolInv
    <2> QED BY <2>1, LegMoves
  <1>6. PoolTyped'
    BY <1>2, <1>5 DEF PoolInv, PoolTyped
  <1>7. Queued'
    <2>1. \A i \in 1..Len(queue) : /\ leg[queue[i].search][queue[i].leg] = "queued"
                                  /\ \A j \in 1..Len(queue) : queue[i] = queue[j] => i = j
      BY DEF PoolInv, Queued
    <2> SUFFICES /\ \A i \in 1..Len(queue') : leg'[queue'[i].search][queue'[i].leg] = "queued"
                 /\ \A i, j \in 1..Len(queue') : queue'[i] = queue'[j] => i = j
      BY <1>3 DEF Queued
    <2>2. ASSUME NEW i \in 1..Len(queue')
          PROVE  leg'[queue'[i].search][queue'[i].leg] = "queued"
      <3>1. i + 1 \in 1..Len(queue) /\ 1 \in 1..Len(queue) /\ i + 1 # 1
        BY <1>3
      <3>2. queue[i + 1] # queue[1] /\ queue[i + 1] \in Item /\ queue[1] \in Item
        BY <1>3, <2>1, <3>1
      <3>3. queue[i + 1].search # s \/ queue[i + 1].leg # l
        <4>1. \A a, b \in Item : a.search = b.search /\ a.leg = b.leg => a = b
          OBVIOUS
        <4>2. s = queue[1].search /\ l = queue[1].leg
          BY <1>3, <1>4
        <4> QED BY <3>2, <4>1, <4>2
      <3>4. leg[queue[i + 1].search][queue[i + 1].leg] = "queued"
        BY <2>1, <3>1
      <3>5. queue[i + 1].search \in Searches /\ queue[i + 1].leg \in PoolLegs
        BY <3>2
      <3>6. leg'[queue[i + 1].search][queue[i + 1].leg] = "queued"
        BY <1>4, <1>5, <3>3, <3>4, <3>5
      <3> QED BY <1>3, <3>6
    <2>3. ASSUME NEW i \in 1..Len(queue'), NEW j \in 1..Len(queue'), queue'[i] = queue'[j]
          PROVE  i = j
      <3>1. i + 1 \in 1..Len(queue) /\ j + 1 \in 1..Len(queue)
        BY <1>3
      <3>3. queue'[i] = queue[i + 1] /\ queue'[j] = queue[j + 1]
        BY <1>3
      <3>2. i + 1 = j + 1
        BY <2>1, <2>3, <3>1, <3>3
      <3> QED BY <3>2
    <2> QED BY <2>2, <2>3
  <1>8. Progress(s)'
    <2>1. Progress(s) /\ UNCHANGED <<pc, query, open, raised>>
      BY <1>2, <1>4 DEF PoolInv
    <2>2. \A k \in Range(SecondLegs) \cup {"embedding"} : k \in PoolLegs
      BY LegsOfSearch DEF PoolLegs
    <2>3. /\ \A k \in PoolLegs : leg[s][k] \in {"none", "done"} => leg'[s][k] = leg[s][k]
          /\ \A k \in PoolLegs : leg'[s][k] = "failed" <=> leg[s][k] = "failed"
      BY <1>4, <1>5
    <2>4. pc[s] # "idle" /\ pc[s] \notin {"rank", "answered"}
      BY <1>4, <2>1 DEF Progress
    <2>5. /\ pc'[s] = pc[s] /\ query'[s] = query[s] /\ raised'[s] = raised[s] /\ open' = open
      BY <2>1
    <2>6. /\ pc[s] \in {"first", "embedding"} => \A k \in Range(SecondLegs) : leg'[s][k] = "none"
          /\ pc[s] \in {"second", "join", "rank", "answered"} => leg'[s]["embedding"] = "done"
      BY <2>1, <2>2, <2>3 DEF Progress
    <2>7. /\ \A k \in PoolLegs : leg'[s][k] = "failed" => k \in raised[s] /\ k # "community"
          /\ \A k \in raised[s] : \/ k = "community" \/ pc[s] = "failed"
                                  \/ k \in PoolLegs /\ leg'[s][k] = "failed"
      BY <2>1, <2>3 DEF Progress
    <2> QED BY <2>1, <2>4, <2>5, <2>6, <2>7 DEF Progress
  <1> QED BY <1>2, <1>4, <1>5, <1>6, <1>7, <1>8, OneSearchMoves

\* A leg at work goes on: what it adds to the exceptions of its search is its own.
LEMMA WorkingLegKeeps ==
    ASSUME RetrievalAssumption, PoolInv, NEW s \in Searches, NEW l \in PoolLegs,
           NEW v \in {"calling", "done", "failed"}, leg[s][l] \in {"running", "calling"},
           leg' = [leg EXCEPT ![s][l] = v], UNCHANGED <<pc, query, queue, open>>,
           NEW R \in SUBSET {l},
           raised' \in [Searches -> SUBSET (PoolLegs \cup {"hyde", "rank"})],
           raised'[s] = raised[s] \cup R, \A x \in Searches \ {s} : raised'[x] = raised[x],
           v = "failed" => l \in R /\ l # "community",
           l \in R => l = "community" \/ v = "failed"
    PROVE  PoolInv'
  <1>1. /\ leg' \in [Searches -> [PoolLegs -> LegStates]]
        /\ \A x \in Searches \ {s} : leg'[x] = leg[x]
        /\ \A k \in PoolLegs : leg'[s][k] = IF k = l THEN v ELSE leg[s][k]
    <2>1. v \in LegStates /\ PoolTyped
      BY DEF LegStates, PoolInv
    <2> QED BY <2>1, LegMoves
  <1>2. PoolTyped'
    BY <1>1 DEF PoolInv, PoolTyped
  <1>3. Queued'
    <2>1. ASSUME NEW x \in Searches, NEW k \in PoolLegs, leg[x][k] = "queued"
          PROVE  leg'[x][k] = "queued"
      BY <1>1, <2>1
    <2>2. queue' = queue /\ Queued
      BY DEF PoolInv
    <2> QED BY <2>1, <2>2, QueueKeeps
  <1>4. Progress(s)'
    <2>1. /\ Progress(s) /\ pc'[s] = pc[s] /\ query'[s] = query[s] /\ open' = open
          /\ raised'[s] = raised[s] \cup R
      BY DEF PoolInv
    <2>2. \A k \in Range(SecondLegs) \cup {"embedding"} : k \in PoolLegs
      BY LegsOfSearch DEF PoolLegs
    <2>3. /\ \A k \in PoolLegs : leg[s][k] \in {"none", "done"} => leg'[s][k] = leg[s][k]
          /\ \A k \in PoolLegs : leg[s][k] = "failed" => leg'[s][k] = "failed"
          /\ \A k \in PoolLegs : leg'[s][k] = "failed" => leg[s][k] = "failed" \/ (k = l /\ v = "failed")
          /\ leg'[s][l] = v
      BY <1>1
    <2>4. pc[s] # "idle" /\ pc[s] \notin {"rank", "answered"}
      BY <2>1 DEF Progress
    <2>5. /\ pc[s] \in {"first", "embedding"} => \A k \in Range(SecondLegs) : leg'[s][k] = "none"
          /\ pc[s] \in {"second", "join", "rank", "answered"} => leg'[s]["embedding"] = "done"
      BY <2>1, <2>2, <2>3 DEF Progress
    <2>6. \A k \in PoolLegs : leg'[s][k] = "failed" => k \in raised'[s] /\ k # "community"
      BY <2>1, <2>3 DEF Progress
    <2>7. ASSUME NEW k \in raised'[s], k # "community", pc[s] # "failed"
          PROVE  k \in PoolLegs /\ leg'[s][k] = "failed"
      <3>1. CASE k \in raised[s]
        BY <2>1, <2>3, <2>7, <3>1 DEF Progress
      <3>2. CASE k \in R
        BY <2>3, <2>7, <3>2
      <3> QED BY <2>1, <3>1, <3>2
    <2>8. pc[s] = "failed" => ~open \/ raised'[s] \ {"community"} # {}
      BY <2>1 DEF Progress
    <2> QED BY <2>1, <2>4, <2>5, <2>6, <2>7, <2>8 DEF Progress
  <1> QED BY <1>1, <1>2, <1>3, <1>4, OneSearchMoves

\* A leg that runs ends, or raises and leaves what raised.
LEMMA LegsKeep ==
    ASSUME RetrievalAssumption, PoolInv, NEW s \in Searches, NEW l \in PoolLegs, Finish(s, l)
    PROVE  PoolInv'
  <1>1. CASE LegReturns(s, l)
    <2>1. /\ leg[s][l] \in {"running", "calling"} /\ leg' = [leg EXCEPT ![s][l] = "done"]
          /\ UNCHANGED <<pc, query, queue, open>> /\ raised' = raised
      BY <1>1 DEF LegReturns, history
    <2>2. /\ raised' \in [Searches -> SUBSET (PoolLegs \cup {"hyde", "rank"})]
          /\ raised'[s] = raised[s] \cup {} /\ \A x \in Searches \ {s} : raised'[x] = raised[x]
      BY <2>1 DEF PoolInv, PoolTyped
    <2>3. /\ "done" \in {"calling", "done", "failed"} /\ {} \in SUBSET {l}
          /\ "done" # "failed" /\ l \notin {}
      OBVIOUS
    <2> QED BY <2>1, <2>2, <2>3, WorkingLegKeeps
  <1>2. CASE LegRaises(s, l)
    <2> DEFINE v == IF Swallows(l) THEN "done" ELSE "failed"
    <2>1. /\ leg[s][l] \in {"running", "calling"} /\ leg' = [leg EXCEPT ![s][l] = v]
          /\ UNCHANGED <<pc, query, queue, open>> /\ raised' = [raised EXCEPT ![s] = @ \cup {l}]
      BY <1>2 DEF LegRaises, Raise
    <2>2. /\ raised' \in [Searches -> SUBSET (PoolLegs \cup {"hyde", "rank"})]
          /\ raised'[s] = raised[s] \cup {l} /\ \A x \in Searches \ {s} : raised'[x] = raised[x]
      BY <2>1 DEF PoolInv, PoolTyped
    <2>3. /\ v \in {"calling", "done", "failed"} /\ {l} \in SUBSET {l} /\ l \in {l}
          /\ v = "failed" <=> l # "community"
      BY DEF Swallows
    <2> HIDE DEF v
    <2> QED BY <2>1, <2>2, <2>3, WorkingLegKeeps
  <1> QED BY <1>1, <1>2 DEF Finish

\* The embedding leg answers from the cache or calls the provider.
LEMMA EmbeddingKeeps ==
    ASSUME RetrievalAssumption, PoolInv, NEW s \in Searches, EmbedQuery(s)
    PROVE  PoolInv'
  <1>1. PICK v \in {"calling", "done"} : leg' = [leg EXCEPT ![s]["embedding"] = v]
    BY DEF EmbedQuery, Hit, Miss, Store
  <1>2. /\ leg[s]["embedding"] \in {"running", "calling"}
        /\ UNCHANGED <<pc, query, queue, open>> /\ raised' = raised
    BY DEF EmbedQuery, Hit, Miss, Store, history
  <1>3. /\ raised' \in [Searches -> SUBSET (PoolLegs \cup {"hyde", "rank"})]
        /\ raised'[s] = raised[s] \cup {} /\ \A x \in Searches \ {s} : raised'[x] = raised[x]
    BY <1>2 DEF PoolInv, PoolTyped
  <1>4. /\ "embedding" \in PoolLegs /\ v # "failed" /\ v \in {"calling", "done", "failed"}
        /\ {} \in SUBSET {"embedding"}
    BY LegsOfSearch DEF PoolLegs
  <1> QED BY <1>1, <1>2, <1>3, <1>4, WorkingLegKeeps

\* A search goes on once its legs are done, or fails with one of them.
LEMMA ContinueKeeps ==
    ASSUME RetrievalAssumption, PoolInv, NEW s \in Searches, Continue(s)
    PROVE  PoolInv'
  <1> USE DEF Steps
  <1>1. Progress(s) /\ pc \in [Searches -> Steps] /\ "embedding" \in PoolLegs
        /\ raised \in [Searches -> SUBSET (PoolLegs \cup {"hyde", "rank"})]
    BY LegsOfSearch DEF PoolInv, PoolTyped, PoolLegs
  <1>2. CASE TakeEmbedding(s)
    <2>1. /\ pc[s] = "embedding" /\ UNCHANGED <<query, leg, queue, open, raised>>
      BY <1>2 DEF TakeEmbedding, history
    <2>2. PICK step \in {"second", "failed"} :
               /\ Goto(s, step)
               /\ step = "second" => leg[s]["embedding"] = "done"
               /\ step = "failed" => leg[s]["embedding"] = "failed"
      BY <1>2, Zenon DEF TakeEmbedding
    <2>3. pc'[s] = step
      BY <1>1, <2>2 DEF Goto
    <2>4. step = "failed" => raised[s] \ {"community"} # {}
      BY <1>1, <2>2 DEF Progress
    <2>5. Progress(s)'
      BY <1>1, <2>1, <2>2, <2>3, <2>4 DEF Progress
    <2> QED BY <1>1, <2>1, <2>2, <2>5, PlaceMoves
  <1>3. CASE HydeRaises(s)
    <2>1. /\ UNCHANGED <<query, leg, queue, open>> /\ pc[s] = "embedding"
          /\ raised' = [raised EXCEPT ![s] = @ \cup {"hyde"}] /\ Goto(s, "failed")
      BY <1>3 DEF HydeRaises, Raise
    <2>2. pc'[s] = "failed" /\ raised'[s] = raised[s] \cup {"hyde"}
      BY <1>1, <2>1 DEF Goto
    <2>3. Progress(s)'
      BY <1>1, <2>1, <2>2 DEF Progress
    <2> QED BY <1>1, <2>1, <2>3, PlaceMoves
  <1>4. CASE SubmitNext(s)
    BY <1>4, SubmitNextKeeps
  <1>5. CASE Join(s)
    <2>1. pc[s] = "join" /\ UNCHANGED <<query, leg, queue, open, raised>>
      BY <1>5 DEF Join, history
    <2>2. PICK step \in {"rank", "failed"} :
               /\ Goto(s, step)
               /\ step = "rank" => \A i \in DOMAIN JoinOrder : leg[s][JoinOrder[i]] = "done"
               /\ step = "failed" => \E i \in DOMAIN JoinOrder : leg[s][JoinOrder[i]] = "failed"
      BY <1>5, Zenon DEF Join
    <2>3. pc'[s] = step
      BY <1>1, <2>2 DEF Goto
    <2>4. ASSUME step = "rank" PROVE \A l \in PoolLegs : leg[s][l] = "done"
      BY <1>1, <2>1, <2>2, <2>4, LegsOfSearch DEF Progress, Range
    <2>5. ASSUME step = "failed" PROVE raised[s] \ {"community"} # {}
      <3>1. PICK i \in DOMAIN JoinOrder : leg[s][JoinOrder[i]] = "failed"
        BY <2>2, <2>5
      <3>2. JoinOrder[i] \in PoolLegs
        BY LegsOfSearch DEF Range
      <3> QED BY <1>1, <3>1, <3>2 DEF Progress
    <2>6. Progress(s)'
      BY <1>1, <2>1, <2>2, <2>3, <2>4, <2>5 DEF Progress
    <2> QED BY <1>1, <2>1, <2>2, <2>6, PlaceMoves
  <1>6. CASE Rank(s)
    <2>1. pc[s] = "rank" /\ UNCHANGED <<query, leg, queue, open, raised>> /\ Goto(s, "answered")
      BY <1>6 DEF Rank, history
    <2>2. pc'[s] = "answered"
      BY <1>1, <2>1 DEF Goto
    <2>3. Progress(s)'
      BY <1>1, <2>1, <2>2 DEF Progress
    <2> QED BY <1>1, <2>1, <2>3, PlaceMoves
  <1>7. CASE RankRaises(s)
    <2>1. /\ UNCHANGED <<query, leg, queue, open>> /\ pc[s] = "rank"
          /\ raised' = [raised EXCEPT ![s] = @ \cup {"rank"}] /\ Goto(s, "failed")
      BY <1>7 DEF RankRaises, Raise
    <2>2. pc'[s] = "failed" /\ raised'[s] = raised[s] \cup {"rank"}
      BY <1>1, <2>1 DEF Goto
    <2>3. Progress(s)'
      BY <1>1, <2>1, <2>2 DEF Progress
    <2> QED BY <1>1, <2>1, <2>3, PlaceMoves
  <1> QED BY <1>2, <1>3, <1>4, <1>5, <1>6, <1>7 DEF Continue

\* Every step of the pool keeps the invariant.
LEMMA PoolKeeps == RetrievalAssumption /\ PoolInv /\ [PoolNext]_poolVars => PoolInv'
  <1> SUFFICES ASSUME RetrievalAssumption, PoolInv, [PoolNext]_poolVars PROVE PoolInv'
    OBVIOUS
  <1>1. CASE Close \/ Tick \/ UNCHANGED poolVars
    <2>1. UNCHANGED <<pc, query, leg, queue, raised>> /\ open' \in BOOLEAN /\ (open' => open)
      <3>1. open \in BOOLEAN
        BY DEF PoolInv, PoolTyped
      <3>2. CASE Close
        BY <3>2 DEF Close, history
      <3>3. CASE Tick
        BY <3>1, <3>3 DEF Tick, history
      <3>4. CASE UNCHANGED poolVars
        BY <3>1, <3>4 DEF poolVars, history
      <3> QED BY <1>1, <3>2, <3>3, <3>4
    <2>2. PoolTyped' /\ Queued'
      BY <2>1 DEF PoolInv, PoolTyped, Queued
    <2>3. ASSUME NEW x \in Searches PROVE Progress(x)'
      BY <2>1, OthersProgress DEF PoolInv
    <2> QED BY <2>2, <2>3 DEF PoolInv
  <1>2. CASE Start
    BY <1>2, StartKeeps
  <1>3. CASE \E s \in Searches : Search(s) \/ Continue(s) \/ EmbedQuery(s) \/ \E l \in PoolLegs : Finish(s, l)
    BY <1>3, SearchKeeps, ContinueKeeps, EmbeddingKeeps, LegsKeep
  <1> QED BY <1>1, <1>2, <1>3 DEF PoolNext, Proceed

\* The pool keeps its invariant: no leg is queued twice, and the place of a search
\* agrees with the state of its legs and with what raised in it.
THEOREM PoolInvariance == PoolSpec => []PoolInv
  <1>1. PoolInit => PoolInv
    BY RetrievalAssumption, PoolBegins
  <1>2. PoolInv /\ [PoolNext]_poolVars => PoolInv'
    BY RetrievalAssumption, PoolKeeps
  <1> QED BY <1>1, <1>2, PTL DEF PoolSpec

\* For every number of searches, workers and legs: a search that answers has the
\* results of all its legs, and one that fails has a cause outside of the community
\* leg.
THEOREM OutcomesHaveCauses == PoolSpec => []OutcomeHasCause
  <1>1. PoolInv => OutcomeHasCause
    <2> SUFFICES ASSUME PoolInv, NEW s \in Searches
                 PROVE  /\ pc[s] = "answered" =>
                              /\ raised[s] \subseteq {"community"}
                              /\ \A i \in DOMAIN JoinOrder : leg[s][JoinOrder[i]] = "done"
                        /\ pc[s] = "failed" => ~open \/ raised[s] \ {"community"} # {}
      BY DEF OutcomeHasCause
    <2>1. Progress(s)
      BY DEF PoolInv
    <2>2. \A i \in DOMAIN JoinOrder : JoinOrder[i] \in PoolLegs
      BY RetrievalAssumption, LegsOfSearch DEF Range
    <2> QED BY <2>1, <2>2 DEF Progress
  <1> QED BY <1>1, PoolInvariance, PTL

-----------------------------------------------------------------------------
(* The cache of embeddings: how long an entry lives, and which one goes.    *)

\* Nothing is read that was not written: a search looks up its own query, entries
\* live a lifetime from when they were made at the longest, and the entry used last
\* stands last.
CacheTyped ==
    /\ cache \in Seq(Entry)
    /\ clock \in Nat
    /\ stamp \in [Searches -> Nat]
    /\ served \in [Searches -> Int]
    /\ used \in [Queries -> Nat]

Lasting(entries) == \A i \in 1..Len(entries) : entries[i].expires <= entries[i].made + TTL

Ordered(entries, u) ==
    \A i, j \in 1..Len(entries) : i < j => u[entries[i].query] < u[entries[j].query]

Lifetimes ==
    /\ Lasting(cache)
    /\ \A s \in Searches : stamp[s] <= clock
    /\ \A s \in Searches :
          served[s] # NotServed =>
            /\ stamp[s] - served[s] < TTL
            /\ leg[s]["embedding"] \in {"done", "failed"}

Recency ==
    /\ Len(cache) <= MaxEntries
    /\ ~Caching => Len(cache) = 0
    /\ \E b \in Nat : \A q \in Queries : used[q] <= b
    /\ Ordered(cache, used)

CacheInv == CacheTyped /\ Lifetimes /\ Recency

\* What is left of a sequence without one of its places.
LEMMA OneRemoved ==
    ASSUME NEW S, NEW sq \in Seq(S), NEW p \in 1..Len(sq)
    PROVE  /\ RemoveAt(sq, p) \in Seq(S) /\ Len(RemoveAt(sq, p)) = Len(sq) - 1
           /\ \A i \in 1..(Len(sq) - 1) :
                RemoveAt(sq, p)[i] = IF i < p THEN sq[i] ELSE sq[i + 1]
  <1> DEFINE a == SubSeq(sq, 1, p - 1)
             z == SubSeq(sq, p + 1, Len(sq))
  <1>1. Len(sq) \in Nat /\ p \in Int /\ 1 <= p /\ p <= Len(sq) /\ \A i \in 1..Len(sq) : sq[i] \in S
    OBVIOUS
  <1>2. /\ a \in Seq(S) /\ Len(a) = p - 1
        /\ \A i \in 1..(p - 1) : a[i] = sq[i]
    <2>1. 1 \in Int /\ p - 1 \in Int /\ \A i \in 1..(p - 1) : sq[i] \in S
      BY <1>1
    <2>2. /\ a \in Seq(S) /\ Len(a) = (IF 1 <= p - 1 THEN p - 1 - 1 + 1 ELSE 0)
          /\ \A i \in 1..(p - 1 - 1 + 1) : a[i] = sq[1 + i - 1]
      BY <2>1, SubSeqProperties
    <2> HIDE DEF a
    <2> QED BY <1>1, <2>2
  <1>3. /\ z \in Seq(S) /\ Len(z) = Len(sq) - p
        /\ \A i \in 1..(Len(sq) - p) : z[i] = sq[p + i]
    <2>1. p + 1 \in Int /\ Len(sq) \in Int /\ \A i \in (p + 1)..Len(sq) : sq[i] \in S
      BY <1>1
    <2>2. /\ z \in Seq(S) /\ Len(z) = (IF p + 1 <= Len(sq) THEN Len(sq) - (p + 1) + 1 ELSE 0)
          /\ \A i \in 1..(Len(sq) - (p + 1) + 1) : z[i] = sq[(p + 1) + i - 1]
      BY <2>1, SubSeqProperties
    <2> HIDE DEF z
    <2> QED BY <1>1, <2>2
  <1>4. RemoveAt(sq, p) = a \o z
    BY DEF RemoveAt
  <1> HIDE DEF a, z
  <1> DEFINE c == a \o z
  <1>5. /\ c \in Seq(S) /\ Len(c) = Len(a) + Len(z)
        /\ \A i \in 1..Len(a) : c[i] = a[i]
        /\ \A i \in (Len(a) + 1)..(Len(a) + Len(z)) : c[i] = z[i - Len(a)]
    BY <1>2, <1>3, Joined, ZenonT(30)
  <1>6. RemoveAt(sq, p) = c
    BY <1>4
  <1> HIDE DEF c
  <1>7. Len(c) = Len(sq) - 1
    BY <1>1, <1>2, <1>3, <1>5
  <1>8. ASSUME NEW i \in 1..(Len(sq) - 1) PROVE c[i] = IF i < p THEN sq[i] ELSE sq[i + 1]
    <2>1. CASE i < p
      BY <1>1, <1>2, <1>5, <2>1
    <2>2. CASE ~(i < p)
      <3>1. i - (p - 1) \in 1..(Len(sq) - p) /\ i \in p..(Len(sq) - 1) /\ p + (i - (p - 1)) = i + 1
        BY <1>1, <2>2
      <3>2. c[i] = z[i - (p - 1)]
        BY <1>1, <1>2, <1>3, <1>5, <3>1
      <3> QED BY <1>3, <2>2, <3>1, <3>2
    <2> QED BY <2>1, <2>2
  <1> QED BY <1>5, <1>6, <1>7, <1>8

\* The latest use comes after all others.
Latest(u, v, q) == \A x \in Queries : x # q => v[x] = u[x] /\ v[x] < v[q]

\* A use is later than all before it.
LEMMA UseIsLast ==
    ASSUME NEW u \in [Queries -> Nat], NEW b \in Nat, \A x \in Queries : u[x] <= b,
           NEW q \in Queries, NEW v, v = [u EXCEPT ![q] = 1 + Max({u[x] : x \in Queries})]
    PROVE  /\ v \in [Queries -> Nat] /\ \E c \in Nat : \A x \in Queries : v[x] <= c
           /\ Latest(u, v, q)
  <1> DEFINE S == {u[x] : x \in Queries}
  <1>1. S \in SUBSET Nat /\ S # {} /\ \A n \in S : n <= b
    OBVIOUS
  <1>2. \A x \in Queries : u[x] \in S
    OBVIOUS
  <1> HIDE DEF S
  <1>3. Max(S) \in Nat /\ \A n \in S : n <= Max(S)
    BY <1>1, LargestOf
  <1>4. v = [u EXCEPT ![q] = 1 + Max(S)]
    BY DEF S
  <1>5. /\ v \in [Queries -> Nat] /\ v[q] = 1 + Max(S)
        /\ \A x \in Queries : x # q => v[x] = u[x]
    BY <1>3, <1>4
  <1>6. \A x \in Queries : u[x] \in Nat /\ u[x] <= Max(S)
    BY <1>2, <1>3
  <1>7. \A x \in Queries : v[x] <= 1 + Max(S)
    BY <1>3, <1>5, <1>6
  <1>8. 1 + Max(S) \in Nat
    BY <1>3
  <1>9. \E c \in Nat : \A x \in Queries : v[x] <= c
    BY <1>7, <1>8
  <1>10. ASSUME NEW x \in Queries, x # q PROVE v[x] < v[q]
    BY <1>3, <1>5, <1>6, <1>10
  <1>11. Latest(u, v, q)
    BY <1>5, <1>10 DEF Latest
  <1> QED BY <1>5, <1>9, <1>11

\* No two entries of a cache in the order of use are of one query.
LEMMA OrderedIsUnique ==
    ASSUME NEW u \in [Queries -> Nat], NEW entries \in Seq(Entry), Ordered(entries, u),
           NEW i \in 1..Len(entries), NEW j \in 1..Len(entries), entries[i].query = entries[j].query
    PROVE  i = j
  <1>1. \A k \in 1..Len(entries) : entries[k].query \in Queries
    <2>1. \A k \in 1..Len(entries) : entries[k] \in Entry
      BY ElementOfSeq
    <2> QED BY <2>1 DEF Entry
  <1>2. u[entries[i].query] \in Nat /\ u[entries[j].query] = u[entries[i].query]
    BY <1>1
  <1>3. ~(i < j) /\ ~(j < i)
    BY <1>2 DEF Ordered
  <1> QED BY <1>3

\* What a sequence of entries without one query has in common with the cache.
HasOthers(w, q) ==
    /\ \A i \in 1..Len(w) : w[i].query # q /\ \E k \in 1..Len(cache) : w[i] = cache[k]
    /\ \A k \in 1..Len(cache) : cache[k].query # q => \E i \in 1..Len(w) : w[i] = cache[k]

\* Taking the entry of a query out leaves those of the others, in their order.
LEMMA WithoutOne ==
    ASSUME CacheTyped, Ordered(cache, used), Lasting(cache), NEW q \in Queries,
           NEW w, w = Without(q)
    PROVE  /\ w \in Seq(Entry) /\ Len(w) <= Len(cache)
           /\ Ordered(w, used) /\ Lasting(w) /\ HasOthers(w, q)
  <1> DEFINE n == Len(cache)
             p == PlaceOf(q)
  <1>1. n \in Nat /\ DOMAIN cache = 1..n /\ cache \in Seq(Entry) /\ used \in [Queries -> Nat]
    BY DEF CacheTyped
  <1>2. CASE q \notin Cached
    <2>1. w = cache
      BY <1>2 DEF Without
    <2>2. \A k \in 1..Len(cache) : cache[k].query # q
      BY <1>1, <1>2 DEF Cached
    <2> QED BY <1>1, <2>1, <2>2 DEF HasOthers
  <1>3. CASE q \in Cached
    <2>1. p \in 1..n /\ cache[p].query = q
      <3>1. \E i \in DOMAIN cache : cache[i].query = q
        BY <1>3 DEF Cached
      <3>2. PlaceOf(q) \in DOMAIN cache /\ cache[PlaceOf(q)].query = q
        BY <3>1 DEF PlaceOf
      <3> QED BY <1>1, <3>2
    <2>2. w = RemoveAt(cache, p)
      BY <1>3 DEF Without
    <2> HIDE DEF p
    <2>3. /\ w \in Seq(Entry) /\ Len(w) = n - 1
          /\ \A i \in 1..(n - 1) : w[i] = IF i < p THEN cache[i] ELSE cache[i + 1]
      BY <1>1, <2>1, <2>2, OneRemoved
    <2> HIDE DEF n
    <2>4. \A i \in 1..(n - 1) : \E k \in 1..n :
             k # p /\ w[i] = cache[k] /\ k = (IF i < p THEN i ELSE i + 1)
      BY <1>1, <2>1, <2>3
    <2>5. \A k \in 1..n : k # p => \E i \in 1..(n - 1) : w[i] = cache[k]
      <3> SUFFICES ASSUME NEW k \in 1..n, k # p PROVE \E i \in 1..(n - 1) : w[i] = cache[k]
        OBVIOUS
      <3>1. CASE k < p
        <4>1. k \in 1..(n - 1) /\ w[k] = cache[k]
          BY <1>1, <2>1, <2>3, <3>1
        <4> QED BY <4>1
      <3>2. CASE p < k
        <4>1. k - 1 \in 1..(n - 1) /\ ~(k - 1 < p) /\ (k - 1) + 1 = k
          BY <1>1, <2>1, <3>2
        <4>2. w[k - 1] = cache[k]
          BY <2>3, <4>1
        <4> QED BY <4>1, <4>2
      <3> QED BY <1>1, <2>1, <3>1, <3>2
    <2>6. \A k \in 1..n : cache[k].query = q => k = p
      BY <1>1, <2>1, OrderedIsUnique DEF n
    <2>7. Ordered(w, used)
      <3> SUFFICES ASSUME NEW i \in 1..(n - 1), NEW j \in 1..(n - 1), i < j
                   PROVE  used[w[i].query] < used[w[j].query]
        BY <1>1, <2>3 DEF Ordered
      <3>1. PICK k \in 1..n : w[i] = cache[k] /\ k = (IF i < p THEN i ELSE i + 1)
        BY <2>4
      <3>2. PICK m \in 1..n : w[j] = cache[m] /\ m = (IF j < p THEN j ELSE j + 1)
        BY <2>4
      <3>3. k < m
        BY <1>1, <2>1, <3>1, <3>2
      <3> QED BY <3>1, <3>2, <3>3 DEF Ordered, n
    <2>8. Lasting(w)
      BY <1>1, <2>3, <2>4 DEF Lasting, n
    <2>9. ASSUME NEW i \in 1..(n - 1)
          PROVE  w[i].query # q /\ \E k \in 1..n : w[i] = cache[k]
      BY <2>4, <2>6
    <2>10. ASSUME NEW k \in 1..n, cache[k].query # q PROVE \E i \in 1..(n - 1) : w[i] = cache[k]
      BY <2>1, <2>5, <2>10
    <2>11. Len(w) <= n /\ 1..Len(w) = 1..(n - 1)
      BY <1>1, <2>3
    <2>12. HasOthers(w, q)
      BY <2>9, <2>10, <2>11 DEF HasOthers, n
    <2> QED BY <2>3, <2>7, <2>8, <2>11, <2>12 DEF n
  <1> QED BY <1>2, <1>3

\* An entry appended as the latest used keeps the order of use.
LEMMA AppendedLast ==
    ASSUME NEW u \in [Queries -> Nat], NEW v \in [Queries -> Nat], NEW q \in Queries,
           Latest(u, v, q),
           NEW w \in Seq(Entry), Ordered(w, u), Lasting(w), HasOthers(w, q),
           NEW e \in Entry, e.query = q, e.expires <= e.made + TTL,
           NEW a, a = Append(w, e)
    PROVE  Ordered(a, v) /\ Lasting(a)
  <1> DEFINE n == Len(w)
  <1>1. /\ a \in Seq(Entry) /\ Len(a) = n + 1 /\ a[n + 1] = e /\ n \in Nat
        /\ \A i \in 1..n : a[i] = w[i]
    BY AppendProperties
  <1>2. \A i \in 1..n : w[i] \in Entry /\ w[i].query \in Queries /\ w[i].query # q
    <2>1. \A i \in 1..n : w[i] \in Entry
      BY ElementOfSeq
    <2> QED BY <2>1 DEF Entry, HasOthers
  <1>3. \A i \in 1..n : v[w[i].query] = u[w[i].query] /\ v[w[i].query] < v[q]
    BY <1>2 DEF Latest
  <1>4. \A i, j \in 1..n : i < j => u[w[i].query] < u[w[j].query]
    BY DEF Ordered
  <1>5. \A i \in 1..n : w[i].expires <= w[i].made + TTL
    BY DEF Lasting
  <1> HIDE DEF n
  <1>6. Ordered(a, v)
    <2> SUFFICES ASSUME NEW i \in 1..(n + 1), NEW j \in 1..(n + 1), i < j
                 PROVE  v[a[i].query] < v[a[j].query]
      BY <1>1 DEF Ordered
    <2>1. i \in 1..n /\ (j \in 1..n \/ j = n + 1)
      BY <1>1
    <2> QED BY <1>1, <1>3, <1>4, <2>1
  <1>7. Lasting(a)
    <2> SUFFICES ASSUME NEW i \in 1..(n + 1) PROVE a[i].expires <= a[i].made + TTL
      BY <1>1 DEF Lasting
    <2>1. i \in 1..n \/ i = n + 1
      BY <1>1
    <2> QED BY <1>1, <1>5, <2>1
  <1> QED BY <1>1, <1>6, <1>7 DEF n

\* Sequence t is the end of a.
EndOf(t, a) ==
    \E d \in 0..Len(a) : Len(t) = Len(a) - d /\ \A i \in 1..Len(t) : t[i] = a[i + d]

\* Trimming takes entries off the front only.
LEMMA TrimmedFront ==
    ASSUME MaxEntries \in Nat, NEW a \in Seq(Entry), NEW t, t = Trimmed(a)
    PROVE  t \in Seq(Entry) /\ Len(t) <= MaxEntries /\ EndOf(t, a)
  <1> DEFINE n == Len(a)
  <1>1. n \in Nat /\ \A i \in 1..n : a[i] \in Entry
    BY ElementOfSeq
  <1>2. CASE n > MaxEntries
    <2>1. t = SubSeq(a, n - MaxEntries + 1, n)
      BY <1>2 DEF Trimmed
    <2> HIDE DEF n
    <2>2. n - MaxEntries + 1 \in Int /\ n \in Int /\ \A i \in (n - MaxEntries + 1)..n : a[i] \in Entry
      BY <1>1, <1>2
    <2>3. /\ t \in Seq(Entry)
          /\ Len(t) = (IF n - MaxEntries + 1 <= n THEN n - (n - MaxEntries + 1) + 1 ELSE 0)
          /\ \A i \in 1..(n - (n - MaxEntries + 1) + 1) : t[i] = a[(n - MaxEntries + 1) + i - 1]
      <3> DEFINE m == n - MaxEntries + 1
      <3>1. m \in Int /\ n \in Int /\ \A i \in m..n : a[i] \in Entry
        BY <2>2
      <3> HIDE DEF m
      <3>2. /\ SubSeq(a, m, n) \in Seq(Entry)
            /\ Len(SubSeq(a, m, n)) = (IF m <= n THEN n - m + 1 ELSE 0)
            /\ \A i \in 1..(n - m + 1) : SubSeq(a, m, n)[i] = a[m + i - 1]
        BY <3>1, SubSeqProperties
      <3> QED BY <2>1, <3>2 DEF m
    <2> DEFINE d == n - MaxEntries
    <2>4. d \in 0..n /\ Len(t) = n - d /\ Len(t) = MaxEntries
      BY <1>1, <1>2, <2>3
    <2>5. \A i \in 1..Len(t) : t[i] = a[i + d]
      BY <1>1, <1>2, <2>3, <2>4
    <2>6. \E x \in 0..n : Len(t) = n - x /\ \A i \in 1..Len(t) : t[i] = a[i + x]
      <3> HIDE DEF d
      <3> QED BY <2>4, <2>5
    <2> HIDE DEF d
    <2>7. t \in Seq(Entry) /\ Len(t) <= MaxEntries
      BY <2>3, <2>4
    <2> QED BY <2>6, <2>7 DEF n, EndOf
  <1>3. CASE ~(n > MaxEntries)
    <2>1. t = a
      BY <1>3 DEF Trimmed
    <2>2. 0 \in 0..Len(a) /\ Len(a) = Len(a) - 0 /\ \A i \in 1..Len(t) : t[i] = a[i + 0]
      BY <1>1, <2>1
    <2>3. \E x \in 0..Len(a) : Len(t) = Len(a) - x /\ \A i \in 1..Len(t) : t[i] = a[i + x]
      BY <2>1, <2>2
    <2>4. t \in Seq(Entry) /\ Len(t) <= MaxEntries
      BY <1>1, <1>3, <2>1
    <2> QED BY <2>3, <2>4 DEF EndOf
  <1> QED BY <1>2, <1>3

\* The warm cache satisfies the invariant.
LEMMA CacheBegins ==
    ASSUME RetrievalAssumption, PoolInit
    PROVE  CacheInv
  <1> DEFINE n == Len(Warm)
  <1>1. /\ n \in Nat /\ DOMAIN Warm = 1..n /\ \A i \in 1..n : Warm[i] \in Queries
        /\ \A i, j \in 1..n : Warm[i] = Warm[j] => i = j
        /\ TTL \in Nat /\ MaxEntries \in Nat /\ n <= MaxEntries /\ (TTL = 0 => n = 0)
    BY DEF RetrievalAssumption, IsInjective
  <1>2. cache = [i \in 1..n |-> [query |-> Warm[i], expires |-> TTL, made |-> 0]]
    BY <1>1 DEF PoolInit
  <1> HIDE DEF n
  <1>3. cache \in [1..n -> Entry]
    BY <1>1, <1>2 DEF Entry
  <1>4. cache \in Seq(Entry) /\ Len(cache) = n
    BY <1>1, <1>3, TableIsSeq
  <1>5. \A i \in 1..n : /\ cache[i].query = Warm[i] /\ cache[i].expires = TTL /\ cache[i].made = 0
    BY <1>2
  <1>6. used = [q \in Queries |-> SelectInSeq(Warm, LAMBDA x : x = q)]
    BY DEF PoolInit
  <1>7. ASSUME NEW q \in Queries
        PROVE  /\ used[q] \in 0..n
               /\ \A i \in 1..n : Warm[i] = q => used[q] = i
    <2> DEFINE I == {i \in 1..Len(Warm) : Warm[i] = q}
    <2>1. used[q] = IF I # {} THEN Min(I) ELSE 0
      BY <1>6 DEF SelectInSeq
    <2>2. \A i \in I : i \in 1..n /\ I = {i}
      BY <1>1 DEF n
    <2>3. \A i \in 1..n : Warm[i] = q => i \in I
      BY DEF n
    <2> HIDE DEF I
    <2>4. \A i \in I : Min(I) = i
      <3> SUFFICES ASSUME NEW i \in I PROVE Min({i}) = i
        BY <2>2
      <3>1. i \in Nat
        BY <1>1, <2>2
      <3> QED BY <3>1 DEF Min
    <2>5. CASE I = {}
      BY <1>1, <2>1, <2>3, <2>5
    <2>6. CASE I # {}
      BY <1>1, <2>1, <2>2, <2>3, <2>4, <2>6
    <2> QED BY <2>5, <2>6
  <1>8. used \in [Queries -> Nat] /\ \A q \in Queries : used[q] <= n
    <2>1. used = [q \in Queries |-> used[q]]
      BY <1>6, Zenon
    <2>2. \A q \in Queries : used[q] \in Nat /\ used[q] <= n
      BY <1>1, <1>7
    <2> QED BY <2>1, <2>2
  <1>9. CacheTyped
    <2>1. /\ clock = 0 /\ stamp = [s \in Searches |-> 0]
          /\ served = [s \in Searches |-> NotServed]
      BY Zenon DEF PoolInit
    <2> QED BY <1>4, <1>8, <2>1 DEF CacheTyped, NotServed
  <1>10. Lifetimes
    <2>1. Lasting(cache)
      BY <1>1, <1>4, <1>5 DEF Lasting
    <2> QED BY <2>1 DEF Lifetimes, PoolInit
  <1>11. Recency
    <2>1. ~Caching => n = 0
      BY <1>1 DEF Caching
    <2>2. Ordered(cache, used)
      BY <1>1, <1>4, <1>5, <1>7 DEF Ordered
    <2> QED BY <1>1, <1>4, <1>8, <2>1, <2>2 DEF Recency
  <1> QED BY <1>9, <1>10, <1>11 DEF CacheInv

\* A step that leaves the cache alone, and dates a search only before it looks.
LEMMA CacheRests ==
    ASSUME CacheInv, UNCHANGED <<cache, served, used>>, clock' \in Nat, clock <= clock',
           stamp' \in [Searches -> Nat],
           \A s \in Searches : stamp'[s] = stamp[s] \/ (stamp'[s] = clock /\ served[s] = NotServed),
           \A s \in Searches : leg[s]["embedding"] \in {"done", "failed"} =>
                                leg'[s]["embedding"] \in {"done", "failed"}
    PROVE  CacheInv'
  <1>1. CacheTyped'
    BY DEF CacheInv, CacheTyped
  <1>2. Recency'
    BY DEF CacheInv, Recency, Ordered, Caching
  <1>3. Lasting(cache)' /\ \A s \in Searches : stamp[s] \in Nat /\ stamp[s] <= clock /\ clock \in Nat
    BY DEF CacheInv, CacheTyped, Lifetimes, Lasting
  <1>4. \A s \in Searches : stamp'[s] <= clock'
    BY <1>3
  <1>5. ASSUME NEW s \in Searches, served'[s] # NotServed
        PROVE  stamp'[s] - served'[s] < TTL /\ leg'[s]["embedding"] \in {"done", "failed"}
    <2>1. served[s] # NotServed /\ stamp'[s] = stamp[s] /\ served'[s] = served[s]
      BY <1>5
    <2> QED BY <2>1 DEF CacheInv, Lifetimes
  <1>6. Lifetimes'
    BY <1>3, <1>4, <1>5 DEF Lifetimes
  <1> QED BY <1>1, <1>2, <1>6 DEF CacheInv

\* One step of the embedding leg of a search keeps the invariant if the cache it
\* leaves does, and if what it took from the cache was in its lifetime.
LEMMA EmbeddingMoves ==
    ASSUME PoolInv, CacheInv, NEW s \in Searches, NEW v \in {"calling", "done"},
           "embedding" \in PoolLegs,
           leg[s]["embedding"] \in {"running", "calling"},
           leg' = [leg EXCEPT ![s]["embedding"] = v], UNCHANGED <<clock, stamp>>,
           cache' \in Seq(Entry), used' \in [Queries -> Nat], Recency', Lasting(cache'),
           served' \in [Searches -> Int], \A x \in Searches \ {s} : served'[x] = served[x],
           \/ served'[s] = served[s]
           \/ v = "done" /\ stamp[s] - served'[s] < TTL
    PROVE  CacheInv'
  <1>1. CacheTyped'
    BY DEF CacheInv, CacheTyped
  <1>2. /\ leg' \in [Searches -> [PoolLegs -> LegStates]]
        /\ \A x \in Searches \ {s} : leg'[x] = leg[x]
        /\ leg'[s]["embedding"] = v
    BY LegMoves, ZenonT(30) DEF PoolInv, LegStates
  <1>3. ASSUME NEW x \in Searches, served'[x] # NotServed
        PROVE  stamp'[x] - served'[x] < TTL /\ leg'[x]["embedding"] \in {"done", "failed"}
    <2>1. CASE x = s
      BY <1>2, <1>3, <2>1 DEF CacheInv, Lifetimes
    <2>2. CASE x # s
      BY <1>2, <1>3, <2>2 DEF CacheInv, Lifetimes
    <2> QED BY <2>1, <2>2
  <1>4. Lifetimes'
    BY <1>3 DEF CacheInv, Lifetimes
  <1> QED BY <1>1, <1>4 DEF CacheInv

\* What the embedding leg of a search works with.
LEMMA EmbeddingContext ==
    ASSUME RetrievalAssumption, PoolInv, CacheInv, NEW s \in Searches,
           leg[s]["embedding"] \in {"running", "calling"}
    PROVE  /\ query[s] \in Queries /\ "embedding" \in PoolLegs
           /\ CacheTyped /\ Ordered(cache, used) /\ Lasting(cache)
           /\ MaxEntries \in Nat /\ TTL \in Nat /\ served[s] = NotServed
           /\ clock \in Nat /\ stamp[s] \in Nat /\ stamp[s] <= clock
           /\ Len(cache) \in Nat /\ DOMAIN cache = 1..Len(cache)
           /\ \A i \in 1..Len(cache) : cache[i] \in Entry
  <1>1. "embedding" \in PoolLegs
    BY LegsOfSearch DEF PoolLegs
  <1>2. query[s] \in Queries
    BY <1>1 DEF PoolInv, Progress
  <1>3. MaxEntries \in Nat /\ TTL \in Nat
    BY DEF RetrievalAssumption
  <1>4. Len(cache) \in Nat /\ DOMAIN cache = 1..Len(cache) /\ \A i \in 1..Len(cache) : cache[i] \in Entry
    BY ElementOfSeq DEF CacheInv, CacheTyped
  <1> QED BY <1>1, <1>2, <1>3, <1>4 DEF CacheInv, CacheTyped, Lifetimes, Recency

\* A lookup that finds nothing, or an expired entry, drops at most that.
LEMMA MissKeepsCache ==
    ASSUME RetrievalAssumption, PoolInv, CacheInv, NEW s \in Searches, Miss(s)
    PROVE  CacheInv'
  <1>1. /\ leg[s]["embedding"] \in {"running", "calling"} /\ cache' = Without(query[s])
        /\ leg' = [leg EXCEPT ![s]["embedding"] = "calling"]
        /\ UNCHANGED <<clock, stamp, served, used>>
    BY DEF Miss, history
  <1>2. /\ query[s] \in Queries /\ "embedding" \in PoolLegs
        /\ CacheTyped /\ Ordered(cache, used) /\ Lasting(cache)
        /\ Len(cache) \in Nat
    BY <1>1, EmbeddingContext
  <1>3. /\ cache' \in Seq(Entry) /\ Len(cache') <= Len(cache)
        /\ Ordered(cache', used) /\ Lasting(cache')
    BY <1>1, <1>2, WithoutOne
  <1>4. Len(cache') \in Nat
    BY <1>3
  <1>5. Recency'
    <2>1. MaxEntries \in Nat /\ used' = used
      BY <1>1 DEF RetrievalAssumption
    <2>2. Ordered(cache, used)'
      BY <1>3, <2>1 DEF Ordered
    <2>3. Len(cache') <= MaxEntries /\ (~Caching => Len(cache') = 0)
      BY <1>2, <1>3, <1>4, <2>1 DEF CacheInv, Recency
    <2> QED BY <2>1, <2>2, <2>3 DEF CacheInv, Recency, Caching
  <1> QED BY <1>1, <1>2, <1>3, <1>5, EmbeddingMoves DEF CacheInv, CacheTyped

\* What one step may drop from the cache.
Evicts ==
    \A q \in Cached \ Cached' :
       \/ \E i \in DOMAIN cache : cache[i].query = q /\ cache[i].expires <= clock
       \/ \A r \in Cached' : used'[r] > used[q]

\* A looked up entry goes to the end, and the others stay.
LEMMA HitKeepsCache ==
    ASSUME RetrievalAssumption, PoolInv, CacheInv, NEW s \in Searches, Hit(s)
    PROVE  CacheInv' /\ Evicts
  <1>1. /\ leg[s]["embedding"] \in {"running", "calling"} /\ Caching
        /\ cache' = Append(Without(query[s]), cache[PlaceOf(query[s])])
        /\ leg' = [leg EXCEPT ![s]["embedding"] = "done"]
        /\ used' = [used EXCEPT ![query[s]] = 1 + Max({used[x] : x \in Queries})]
        /\ UNCHANGED <<clock, stamp>>
    BY DEF Hit, MovedToEnd, Use
  <1>2. /\ query[s] \in Queries /\ "embedding" \in PoolLegs
        /\ CacheTyped /\ Ordered(cache, used) /\ Lasting(cache)
        /\ MaxEntries \in Nat /\ TTL \in Nat
        /\ clock \in Nat /\ stamp[s] \in Nat
        /\ Len(cache) \in Nat /\ DOMAIN cache = 1..Len(cache)
        /\ \A i \in 1..Len(cache) : cache[i] \in Entry
    BY <1>1, EmbeddingContext
  <1>3. PICK i \in 1..Len(cache) : /\ cache[i].query = query[s]
                                  /\ cache[i].expires > stamp[s]
                                  /\ served' = [served EXCEPT ![s] = cache[i].made]
    BY <1>2, Zenon DEF Hit, Live
  <1>4. PICK q \in Queries : q = query[s]
    BY <1>2
  <1>5. PICK w : w = Without(q)
    OBVIOUS
  <1>6. PICK e : e = cache[PlaceOf(q)]
    OBVIOUS
  <1>7. e \in Entry /\ e.query = q /\ e.expires <= e.made + TTL
    <2>1. PlaceOf(q) \in DOMAIN cache /\ cache[PlaceOf(q)].query = q
      BY <1>2, <1>3, <1>4 DEF PlaceOf
    <2> QED BY <1>2, <1>6, <2>1 DEF Lasting
  <1>8. /\ w \in Seq(Entry) /\ Len(w) <= Len(cache)
        /\ Ordered(w, used) /\ Lasting(w) /\ HasOthers(w, q)
    BY <1>2, <1>4, <1>5, WithoutOne
  <1>9. PICK b \in Nat : \A x \in Queries : used[x] <= b
    BY DEF CacheInv, Recency
  <1>10. /\ used \in [Queries -> Nat] /\ used' \in [Queries -> Nat]
         /\ \E c \in Nat : \A x \in Queries : used'[x] <= c
         /\ Latest(used, used', q)
    <2>1. used \in [Queries -> Nat] /\ used' = [used EXCEPT ![q] = 1 + Max({used[x] : x \in Queries})]
      BY <1>1, <1>2, <1>4 DEF CacheTyped
    <2> QED BY <1>9, <2>1, UseIsLast
  <1>11. /\ cache' \in Seq(Entry) /\ Len(cache') = Len(w) + 1 /\ cache'[Len(w) + 1] = e
         /\ \A k \in 1..Len(w) : cache'[k] = w[k]
         /\ Ordered(cache', used') /\ Lasting(cache')
    <2>1. cache' = Append(w, e)
      BY <1>1, <1>4, <1>5, <1>6
    <2>2. /\ cache' \in Seq(Entry) /\ Len(cache') = Len(w) + 1 /\ cache'[Len(w) + 1] = e
          /\ \A k \in 1..Len(w) : cache'[k] = w[k]
      BY <1>7, <1>8, <2>1, AppendProperties
    <2>3. Ordered(cache', used') /\ Lasting(cache')
      <3>1. used \in [Queries -> Nat] /\ used' \in [Queries -> Nat] /\ Latest(used, used', q)
        BY <1>10
      <3> QED BY <1>7, <1>8, <2>1, <3>1, AppendedLast
    <2> QED BY <2>2, <2>3
  <1>12. Len(w) + 1 <= Len(cache) /\ Len(w) \in Nat
    <2>1. q \in Cached
      BY <1>2, <1>3, <1>4 DEF Cached
    <2>2. w = RemoveAt(cache, PlaceOf(q))
      BY <1>5, <2>1 DEF Without
    <2>3. PlaceOf(q) \in 1..Len(cache)
      BY <1>2, <1>3, <1>4 DEF PlaceOf
    <2>4. Len(w) = Len(cache) - 1
      <3>1. cache \in Seq(Entry)
        BY <1>2 DEF CacheTyped
      <3> QED BY <2>2, <2>3, <3>1, OneRemoved
    <2> QED BY <1>2, <1>8, <2>4
  <1>13. Recency'
    <2>1. Ordered(cache, used)'
      BY <1>11 DEF Ordered
    <2>2. Len(cache') <= MaxEntries
      BY <1>2, <1>11, <1>12 DEF CacheInv, Recency
    <2>3. Caching'
      BY <1>1 DEF Caching
    <2> QED BY <1>10, <2>1, <2>2, <2>3 DEF Recency
  <1>14. stamp[s] - served'[s] < TTL /\ served' \in [Searches -> Int]
         /\ \A x \in Searches \ {s} : served'[x] = served[x]
    <2>1. cache[i].expires <= cache[i].made + TTL /\ cache[i].made \in Int /\ cache[i].expires \in Int
      BY <1>2 DEF Lasting, Entry
    <2>2. served \in [Searches -> Int]
      BY <1>2 DEF CacheTyped
    <2> QED BY <1>2, <1>3, <2>1, <2>2, SMTT(30)
  <1>15. CacheInv'
    BY <1>1, <1>2, <1>10, <1>11, <1>13, <1>14, EmbeddingMoves
  <1>16. Cached \subseteq Cached'
    <2> SUFFICES ASSUME NEW k \in 1..Len(cache) PROVE \E m \in 1..Len(cache') : cache'[m].query = cache[k].query
      <3>1. DOMAIN cache' = 1..Len(cache')
        BY <1>11
      <3> QED BY <1>2, <3>1 DEF Cached
    <2>1. CASE cache[k].query = q
      <3>1. Len(w) + 1 \in 1..Len(cache') /\ cache'[Len(w) + 1].query = q
        BY <1>7, <1>11, <1>12
      <3> QED BY <2>1, <3>1
    <2>2. CASE cache[k].query # q
      <3>1. PICK m \in 1..Len(w) : w[m] = cache[k]
        BY <1>8, <2>2 DEF HasOthers
      <3>2. m \in 1..Len(cache') /\ cache'[m] = cache[k]
        BY <1>11, <1>12, <3>1
      <3> QED BY <3>2
    <2> QED BY <2>1, <2>2
  <1> QED BY <1>15, <1>16 DEF Evicts

\* A computed embedding is stored as the latest, and those that stay behind it were
\* all used after what the trimming takes off.
LEMMA StoreKeepsCache ==
    ASSUME RetrievalAssumption, PoolInv, CacheInv, NEW s \in Searches, Store(s)
    PROVE  CacheInv' /\ Evicts
  <1>1. /\ leg[s]["embedding"] \in {"running", "calling"}
        /\ leg' = [leg EXCEPT ![s]["embedding"] = "done"]
        /\ UNCHANGED <<clock, stamp, served>>
    BY DEF Store
  <1>2. /\ query[s] \in Queries /\ "embedding" \in PoolLegs
        /\ CacheTyped /\ Ordered(cache, used) /\ Lasting(cache)
        /\ MaxEntries \in Nat /\ TTL \in Nat
        /\ clock \in Nat /\ stamp[s] \in Nat /\ stamp[s] <= clock
        /\ Len(cache) \in Nat /\ DOMAIN cache = 1..Len(cache)
        /\ \A i \in 1..Len(cache) : cache[i] \in Entry
    BY <1>1, EmbeddingContext
  <1>3. CASE ~Caching
    <2>1. UNCHANGED <<cache, used>>
      BY <1>3 DEF Store
    <2>2. Recency'
      BY <2>1 DEF CacheInv, Recency, Ordered, Caching
    <2>3. CacheInv'
      BY <1>1, <1>2, <2>1, <2>2, EmbeddingMoves DEF CacheTyped
    <2> QED BY <2>1, <2>3 DEF Evicts, Cached
  <1>4. CASE Caching
    <2>1. PICK q \in Queries : q = query[s]
      BY <1>2
    <2>2. PICK w : w = Without(q)
      OBVIOUS
    <2>3. PICK e : e = [query |-> q, expires |-> stamp[s] + TTL, made |-> clock]
      OBVIOUS
    <2>4. PICK a : a = Append(w, e)
      OBVIOUS
    <2>5. cache' = Trimmed(a) /\ used' = [used EXCEPT ![q] = 1 + Max({used[x] : x \in Queries})]
      BY <1>4, <2>1, <2>2, <2>3, <2>4 DEF Store, Use
    <2>6. e \in Entry /\ e.query = q /\ e.expires <= e.made + TTL
      BY <1>2, <2>3 DEF Entry
    <2>7. /\ w \in Seq(Entry) /\ Len(w) <= Len(cache)
          /\ Ordered(w, used) /\ Lasting(w) /\ HasOthers(w, q)
      BY <1>2, <2>2, WithoutOne
    <2>8. PICK b \in Nat : \A x \in Queries : used[x] <= b
      BY DEF CacheInv, Recency
    <2>9. /\ used \in [Queries -> Nat] /\ used' \in [Queries -> Nat]
          /\ \E c \in Nat : \A x \in Queries : used'[x] <= c
          /\ Latest(used, used', q)
      <3>1. used \in [Queries -> Nat]
        BY <1>2 DEF CacheTyped
      <3> QED BY <2>5, <2>8, <3>1, UseIsLast
    <2>10. /\ a \in Seq(Entry) /\ Len(a) = Len(w) + 1 /\ a[Len(w) + 1] = e /\ Len(w) \in Nat
           /\ \A k \in 1..Len(w) : a[k] = w[k]
      BY <2>4, <2>6, <2>7, AppendProperties
    <2>11. Ordered(a, used') /\ Lasting(a)
      <3>1. used \in [Queries -> Nat] /\ used' \in [Queries -> Nat] /\ Latest(used, used', q)
        BY <2>9
      <3>2. /\ e \in Entry /\ e.query = q /\ e.expires <= e.made + TTL
            /\ w \in Seq(Entry) /\ Ordered(w, used) /\ Lasting(w) /\ HasOthers(w, q)
        BY <2>6, <2>7
      <3>3. a = Append(w, e) /\ q \in Queries
        BY <2>4
      <3> HIDE DEF Entry
      <3> QED BY <3>1, <3>2, <3>3, AppendedLast, ZenonT(30)
    <2>12. cache' \in Seq(Entry) /\ Len(cache') <= MaxEntries /\ EndOf(cache', a)
      <3> HIDE DEF Entry
      <3>1. PICK t : t = cache'
        OBVIOUS
      <3>2. MaxEntries \in Nat /\ a \in Seq(Entry) /\ t = Trimmed(a)
        BY <1>2, <2>5, <2>10, <3>1
      <3>3. t \in Seq(Entry) /\ Len(t) <= MaxEntries /\ EndOf(t, a)
        BY <3>2, TrimmedFront
      <3> QED BY <3>1, <3>3
    <2>13. PICK d \in 0..Len(a) : /\ Len(cache') = Len(a) - d
                                 /\ \A k \in 1..Len(cache') : cache'[k] = a[k + d]
      BY <2>12 DEF EndOf
    <2>14. \A k \in 1..Len(cache') : k + d \in 1..Len(a) /\ k + d > d
      BY <2>10, <2>13
    <2>15. Ordered(cache', used') /\ Lasting(cache')
      <3>1. Ordered(cache', used')
        <4> SUFFICES ASSUME NEW i \in 1..Len(cache'), NEW j \in 1..Len(cache'), i < j
                     PROVE  used'[cache'[i].query] < used'[cache'[j].query]
          BY DEF Ordered
        <4>1. i + d \in 1..Len(a) /\ j + d \in 1..Len(a) /\ i + d < j + d
          BY <2>10, <2>14
        <4>2. used'[a[i + d].query] < used'[a[j + d].query]
          BY <2>11, <4>1 DEF Ordered
        <4> QED BY <2>13, <4>2
      <3>2. Lasting(cache')
        BY <2>11, <2>13, <2>14 DEF Lasting
      <3> QED BY <3>1, <3>2
    <2>16. Recency'
      <3>1. Ordered(cache, used)'
        BY <2>15 DEF Ordered
      <3>2. Caching'
        BY <1>4 DEF Caching
      <3>3. MaxEntries' = MaxEntries
        OBVIOUS
      <3> QED BY <2>9, <2>12, <3>1, <3>2 DEF Recency
    <2>17. served' \in [Searches -> Int] /\ \A x \in Searches : served'[x] = served[x]
      BY <1>1, <1>2 DEF CacheTyped
    <2>18. CacheInv'
      BY <1>1, <1>2, <2>9, <2>12, <2>15, <2>16, <2>17, EmbeddingMoves
    <2>19. Evicts
      <3> SUFFICES ASSUME NEW p \in Cached \ Cached', NEW r \in Cached'
                   PROVE  used'[r] > used[p]
        BY DEF Evicts
      <3>1. PICK k \in 1..Len(cache) : cache[k].query = p
        BY <1>2 DEF Cached
      <3>2. DOMAIN cache' = 1..Len(cache')
        BY <2>12
      <3>3. PICK j \in 1..Len(cache') : cache'[j].query = r
        BY <3>2 DEF Cached
      <3>4. \A i \in 1..Len(cache') : cache'[i].query # p
        BY <3>2 DEF Cached
      <3>5. MaxEntries > 0
        BY <1>2, <1>4 DEF Caching
      <3>6. Len(cache') > 0 /\ Len(cache') \in Nat
        BY <2>12, <3>3
      <3>7. p # q
        <4>1. cache'[Len(cache')] = e
          <5>1. Len(cache') \in 1..Len(cache') /\ Len(cache') + d = Len(w) + 1
            BY <2>10, <2>13, <3>6
          <5>2. cache'[Len(cache')] = a[Len(cache') + d]
            BY <2>13, <5>1
          <5> QED BY <2>10, <5>1, <5>2
        <4> QED BY <2>6, <3>4, <3>6, <4>1
      <3>8. PICK i \in 1..Len(w) : w[i] = cache[k]
        BY <2>7, <3>1, <3>7 DEF HasOthers
      <3>9. i \in 1..Len(a) /\ a[i].query = p
        BY <2>10, <3>1, <3>8
      <3>10. i <= d
        <4> SUFFICES ASSUME ~(i <= d) PROVE FALSE
          OBVIOUS
        <4>1. i - d \in 1..Len(cache') /\ (i - d) + d = i
          BY <2>10, <2>13, <3>9
        <4>2. cache'[i - d] = a[i]
          BY <2>13, <4>1
        <4> QED BY <3>4, <3>9, <4>1, <4>2
      <3>11. j + d \in 1..Len(a) /\ i < j + d /\ a[j + d].query = r
        BY <2>10, <2>13, <2>14, <3>3, <3>9, <3>10, SMTT(30)
      <3>12. used'[p] < used'[r]
        BY <2>11, <3>9, <3>11 DEF Ordered
      <3>13. used'[p] = used[p] /\ p \in Queries /\ r \in Queries
        <4>1. p \in Queries
          BY <1>2, <3>1 DEF Entry
        <4>2. r \in Queries
          <5>1. cache'[j] \in Entry
            BY <2>12, ElementOfSeq
          <5> QED BY <3>3, <5>1 DEF Entry
        <4> QED BY <2>9, <3>7, <4>1, <4>2 DEF Latest
      <3>14. used'[p] \in Nat /\ used'[r] \in Nat
        BY <2>9, <3>13
      <3> QED BY <3>12, <3>13, <3>14
    <2> QED BY <2>18, <2>19
  <1> QED BY <1>3, <1>4

\* A miss drops an expired entry of its query or none.
LEMMA MissEvicts ==
    ASSUME RetrievalAssumption, PoolInv, CacheInv, NEW s \in Searches, Miss(s)
    PROVE  Evicts
  <1>1. leg[s]["embedding"] \in {"running", "calling"} /\ cache' = Without(query[s])
    BY DEF Miss
  <1>2. /\ query[s] \in Queries
        /\ CacheTyped /\ Ordered(cache, used) /\ Lasting(cache)
        /\ clock \in Nat /\ stamp[s] \in Nat /\ stamp[s] <= clock
        /\ Len(cache) \in Nat /\ DOMAIN cache = 1..Len(cache)
        /\ \A i \in 1..Len(cache) : cache[i] \in Entry
    BY <1>1, EmbeddingContext
  <1>3. cache' \in Seq(Entry) /\ HasOthers(cache', query[s])
    BY <1>1, <1>2, WithoutOne
  <1>4. ASSUME NEW p \in Cached \ Cached'
        PROVE  \E i \in DOMAIN cache : cache[i].query = p /\ cache[i].expires <= clock
    <2>1. PICK k \in 1..Len(cache) : cache[k].query = p
      BY <1>2 DEF Cached
    <2>2. DOMAIN cache' = 1..Len(cache')
      BY <1>3
    <2>3. p = query[s]
      BY <1>3, <1>4, <2>1, <2>2 DEF HasOthers, Cached
    <2>4. Caching
      BY <1>2, <2>1 DEF CacheInv, Recency
    <2>5. ~(cache[k].expires > stamp[s])
      BY <1>2, <2>1, <2>3, <2>4 DEF Miss, Live
    <2>6. cache[k].expires \in Int
      BY <1>2 DEF Entry
    <2> QED BY <1>2, <2>1, <2>5, <2>6, SMTT(30)
  <1> QED BY <1>4 DEF Evicts

\* The other steps leave the cache alone.
LEMMA OthersRest ==
    ASSUME RetrievalAssumption, PoolInv, CacheInv,
           \/ Start \/ Close \/ Tick \/ UNCHANGED poolVars
           \/ \E s \in Searches : Search(s) \/ Continue(s) \/ \E l \in PoolLegs : Finish(s, l)
    PROVE  CacheInv' /\ UNCHANGED cache
  <1>1. /\ "embedding" \in PoolLegs /\ "embedding" \in Range(FirstLegs)
        /\ \A s \in Searches : Progress(s)
        /\ leg \in [Searches -> [PoolLegs -> LegStates]] /\ clock \in Nat
        /\ stamp \in [Searches -> Nat]
    BY LegsOfSearch DEF PoolInv, PoolTyped, PoolLegs, CacheInv, CacheTyped
  <1>2. SUFFICES ASSUME UNCHANGED <<cache, served, used>>
                 PROVE  CacheInv'
    BY DEF Start, Close, Tick, poolVars, Search, Continue, Finish, TakeEmbedding, HydeRaises,
           SubmitNext, Join, Rank, RankRaises, LegReturns, LegRaises, history
  <1>3. CASE Start
    <2>1. PICK s \in Searches, l \in PoolLegs :
               /\ leg[s][l] = "queued" /\ leg' = [leg EXCEPT ![s][l] = "running"]
               /\ stamp' = IF l = "embedding" THEN [stamp EXCEPT ![s] = clock] ELSE stamp
               /\ clock' = clock
      BY <1>3, HeadIsQueued, Zenon DEF Start
    <2>2. /\ leg' \in [Searches -> [PoolLegs -> LegStates]]
          /\ \A x \in Searches \ {s} : leg'[x] = leg[x]
          /\ \A k \in PoolLegs : leg'[s][k] = IF k = l THEN "running" ELSE leg[s][k]
      <3>1. "running" \in LegStates /\ PoolTyped /\ leg' = [leg EXCEPT ![s][l] = "running"]
        BY <2>1 DEF LegStates, PoolInv
      <3> QED BY <3>1, LegMoves
    <2>3. \A x \in Searches : leg[x]["embedding"] \in {"done", "failed"} =>
                              leg'[x]["embedding"] \in {"done", "failed"}
      BY <1>1, <2>1, <2>2
    <2>4. l = "embedding" => served[s] = NotServed
      BY <2>1 DEF CacheInv, Lifetimes
    <2>5. /\ stamp' \in [Searches -> Nat]
          /\ \A x \in Searches : stamp'[x] = stamp[x] \/ (stamp'[x] = clock /\ served[x] = NotServed)
      BY <1>1, <2>1, <2>4
    <2> QED BY <1>1, <1>2, <2>1, <2>3, <2>5, CacheRests
  <1>4. CASE Close \/ Tick \/ UNCHANGED poolVars
    <2>1. /\ UNCHANGED <<stamp, leg>> /\ clock' \in Nat /\ clock <= clock'
      BY <1>1, <1>4 DEF Close, Tick, poolVars
    <2> QED BY <1>1, <1>2, <2>1, CacheRests
  <1>5. ASSUME NEW s \in Searches, Search(s)
        PROVE  CacheInv'
    <2>1. UNCHANGED <<stamp, clock, leg>>
      BY <1>5 DEF Search
    <2> QED BY <1>1, <1>2, <2>1, CacheRests
  <1>6. ASSUME NEW s \in Searches, Continue(s)
        PROVE  CacheInv'
    <2>1. UNCHANGED <<stamp, clock>>
      BY <1>6 DEF Continue, TakeEmbedding, HydeRaises, SubmitNext, Join, Rank, RankRaises
    <2>2. CASE leg' = leg
      BY <1>1, <1>2, <2>1, <2>2, CacheRests
    <2>3. ASSUME NEW legs \in {FirstLegs, SecondLegs}, NEW then, Submit(s, legs, then)
          PROVE  CacheInv'
      <3>1. PICK l \in PoolLegs : leg[s][l] = "none" /\ leg' = [leg EXCEPT ![s][l] = "queued"]
        BY <2>3 DEF Submit, PoolLegs, Range
      <3>2. \A x \in Searches : leg[x]["embedding"] \in {"done", "failed"} =>
                                leg'[x]["embedding"] \in {"done", "failed"}
        BY <1>1, <3>1
      <3> QED BY <1>1, <1>2, <2>1, <3>2, CacheRests
    <2> QED BY <1>6, <2>2, <2>3 DEF Continue, TakeEmbedding, HydeRaises, SubmitNext, Refused,
                                    Join, Rank, RankRaises
  <1>7. ASSUME NEW s \in Searches, NEW l \in PoolLegs, Finish(s, l)
        PROVE  CacheInv'
    <2>1. PICK v \in {"done", "failed"} : leg' = [leg EXCEPT ![s][l] = v]
      BY <1>7 DEF Finish, LegReturns, LegRaises
    <2>2. /\ UNCHANGED <<stamp, clock>> /\ leg[s][l] \in {"running", "calling"}
      BY <1>7 DEF Finish, LegReturns, LegRaises
    <2>3. /\ \A x \in Searches \ {s} : leg'[x] = leg[x]
          /\ \A k \in PoolLegs : leg'[s][k] = IF k = l THEN v ELSE leg[s][k]
      <3>1. v \in LegStates /\ PoolTyped
        BY DEF LegStates, PoolInv
      <3> QED BY <2>1, <3>1, LegMoves
    <2>4. \A x \in Searches : leg[x]["embedding"] \in {"done", "failed"} =>
                              leg'[x]["embedding"] \in {"done", "failed"}
      BY <1>1, <2>2, <2>3
    <2> QED BY <1>1, <1>2, <2>2, <2>4, CacheRests
  <1> QED BY <1>3, <1>4, <1>5, <1>6, <1>7

\* Every step of the pool keeps the invariant of the cache.
LEMMA CacheKeeps ==
    ASSUME RetrievalAssumption, PoolInv, CacheInv, [PoolNext]_poolVars
    PROVE  CacheInv' /\ Evicts
  <1>1. CASE \E s \in Searches : EmbedQuery(s)
    BY <1>1, HitKeepsCache, MissKeepsCache, MissEvicts, StoreKeepsCache DEF EmbedQuery
  <1>2. CASE \/ Start \/ Close \/ Tick \/ UNCHANGED poolVars
             \/ \E s \in Searches : Search(s) \/ Continue(s) \/ \E l \in PoolLegs : Finish(s, l)
    <2>1. CacheInv' /\ UNCHANGED cache
      BY <1>2, OthersRest
    <2> QED BY <2>1 DEF Evicts, Cached
  <1> QED BY <1>1, <1>2 DEF PoolNext, Proceed

\* The cache keeps its invariant: lifetimes are counted from when an embedding was
\* made, entries stand in the order of use, and there are never too many of them.
THEOREM CacheInvariance == PoolSpec => []CacheInv
  <1>1. PoolInit => CacheInv
    BY RetrievalAssumption, CacheBegins
  <1>2. PoolInv /\ CacheInv /\ [PoolNext]_poolVars => CacheInv'
    BY RetrievalAssumption, CacheKeeps
  <1> QED BY <1>1, <1>2, PoolInvariance, PTL DEF PoolSpec

\* For every size and lifetime of the cache, and whatever order the searches look
\* up and store in: what a search takes from the cache was in its lifetime.
THEOREM HitsFresh == PoolSpec => []HitsAreFresh
  <1>1. CacheInv => HitsAreFresh
    BY DEF CacheInv, Lifetimes, HitsAreFresh
  <1> QED BY <1>1, CacheInvariance, PTL

\* What leaves the cache has expired, or all that stay were used after it.
THEOREM LeastRecentEvicted == PoolSpec => EvictsLeastRecent
  <1>1. PoolInv /\ CacheInv /\ [PoolNext]_poolVars => [Evicts]_poolVars
    BY RetrievalAssumption, CacheKeeps
  <1> QED BY <1>1, PoolInvariance, CacheInvariance, PTL DEF PoolSpec, EvictsLeastRecent, Evicts

Counted == failures \in Nat

\* The states of the service stay of their types, and no query has two entries.
THEOREM PoolTyping == PoolSpec => []PoolTypeOK
  <1>1. PoolInit => Counted
    BY DEF PoolInit, Counted
  <1>2. Counted /\ [PoolNext]_poolVars => Counted'
    <2> SUFFICES ASSUME Counted, [PoolNext]_poolVars PROVE Counted'
      OBVIOUS
    <2>1. failures' = failures \/ \E s \in Searches, what \in PoolLegs \cup {"hyde", "rank"} : Raise(s, what)
      <3>1. CASE \/ UNCHANGED poolVars \/ Start \/ Close \/ Tick
                 \/ \E s \in Searches : Search(s) \/ EmbedQuery(s)
        BY <3>1 DEF poolVars, Start, Close, Tick, Search, EmbedQuery, Hit, Miss, Store
      <3>2. ASSUME NEW s \in Searches, Continue(s)
            PROVE  failures' = failures \/ Raise(s, "hyde") \/ Raise(s, "rank")
        BY <3>2 DEF Continue, TakeEmbedding, HydeRaises, SubmitNext, Join, Rank, RankRaises
      <3>3. ASSUME NEW s \in Searches, NEW l \in PoolLegs, Finish(s, l)
            PROVE  failures' = failures \/ Raise(s, l)
        BY <3>3 DEF Finish, LegReturns, LegRaises
      <3> QED BY <3>1, <3>2, <3>3 DEF PoolNext, Proceed
    <2> QED BY <2>1 DEF Raise, Counted
  <1>3. PoolInv /\ CacheInv /\ Counted => PoolTypeOK
    <2> SUFFICES ASSUME PoolInv, CacheInv, Counted PROVE PoolTypeOK
      OBVIOUS
    <2>1. \A i, j \in DOMAIN cache : cache[i].query = cache[j].query => i = j
      <3>1. /\ used \in [Queries -> Nat] /\ cache \in Seq(Entry) /\ Ordered(cache, used)
            /\ DOMAIN cache = 1..Len(cache)
        BY DEF CacheInv, CacheTyped, Recency
      <3> QED BY <3>1, OrderedIsUnique
    <2> QED BY <2>1 DEF PoolTypeOK, PoolInv, PoolTyped, Queued, CacheInv, CacheTyped, Counted
  <1> QED BY <1>1, <1>2, <1>3, PoolInvariance, CacheInvariance, PTL DEF PoolSpec
=============================================================================
