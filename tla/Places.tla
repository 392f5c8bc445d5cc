-------------------------------- MODULE Places --------------------------------
(***************************************************************************)
(* Filters and sorts of sequences by the places of their elements.  They   *)
(* are functions, not recursive operators as SelectSeq and SortSeq are, so *)
(* that what they return can be proved.                                    *)
(***************************************************************************)
EXTENDS Naturals, Sequences, FiniteSets, Functions

\* Which member of DOMAIN rank has rank 1, 2, ...
Placed(rank) == Inverse(rank, DOMAIN rank, 1..Cardinality(DOMAIN rank))

\* How many members of P come no later than each.
Counts(P) == [i \in P |-> Cardinality({j \in P : j <= i})]

\* The elements of q at the places P, in their order in q.
Picked(q, P) == [k \in 1..Cardinality(P) |-> q[Placed(Counts(P))[k]]]

\* The elements of q by falling score, those of one score in their order in q.
Descending(q, score) ==
    LET rank == [i \in DOMAIN q |->
                   Cardinality({j \in DOMAIN q :
                     score[q[j]] > score[q[i]] \/ (score[q[j]] = score[q[i]] /\ j <= i)})]
    IN [k \in DOMAIN q |-> q[Placed(rank)[k]]]
=============================================================================
