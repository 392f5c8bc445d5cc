--------------------------- MODULE MCHybridSearch ---------------------------
EXTENDS HybridSearch, TLC

MCSymbols == 1..4
MCUnknown == {11, 12}
\* 11 ends like symbol 2, 12 like the symbols 3 and 4.
MCLastName == <<1, 2, 3, 3>> @@ (11 :> 2) @@ (12 :> 3)
MCProjectOf == [n \in 1..4 |-> "p"] @@ (11 :> "q") @@ (12 :> "r")

Edge(i, j) == [source |-> i, target |-> j]
MCEdges ==
    {Edge(1, 2), Edge(1, 3), Edge(1, 4), Edge(2, 4), Edge(3, 4), Edge(3, 11), Edge(4, 1), Edge(4, 12)}
MCFollowed == MCEdges \ {Edge(1, 2)}
\* Symbol 4 has three edges but two neighbours in the second: a request may read two edges.
MCSearched ==
    {{Edge(1, 2), Edge(1, 3), Edge(3, 11), Edge(4, 12), Edge(3, 4)},
     {Edge(1, 4), Edge(4, 1), Edge(2, 4)}}
MCRelevant == {1, 4, 12}
MCAllowances == {{"p"}, {"p", "q"}, {"q"}}
MCBoosts == [n \in MCSymbols \cup MCUnknown |-> IF n = 1 THEN 1000000 ELSE 0]
=============================================================================
