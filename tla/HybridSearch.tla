---------------------------- MODULE HybridSearch ----------------------------
(***************************************************************************)
(* What a search finds, over the graph and the communities that Communities *)
(* keeps: its legs' hits, their fusion, the expansion along the code graph, *)
(* the community leg, reranking and the answer.  How its legs share threads *)
(* is Retrieval.  Which hits a query matches and how well is any choice.   *)
(***************************************************************************)
EXTENDS Communities, Places

CONSTANTS
    ProjectOf,        \* the project that defines a symbol or an unknown name
    Home,             \* the project of Symbols
    Allowances,       \* bound: the sets of projects users may see
    Searched,         \* bound: the graphs searches run over
    Relevant,         \* bound: the chunks a query may match
    Followed,         \* the edges of the types the kind of question follows
    TopK,             \* top_k
    RankConstant,     \* k of _rrf
    Scale,            \* scores are multiples of 1 / Scale
    SeedHits,         \* graph_expansion_seed_hits
    MaxNeighbors,     \* graph_expansion_max_neighbors
    Hops,             \* graph_expansion_hops
    EdgesPerHit,      \* a request for neighbours reads so many edges for each,
    MinEdges,         \* ... at least these,
    SymbolsPerHit,    \* and so many symbols for each,
    MinSymbols,       \* ... at least these
    CommunityHits,    \* community_search_size
    Boosts,           \* of a hit's text: identifier, definition, test, config, late vectors
    UsageBoost, GraphBoost, CommunityBoost,
    CrossCandidates,  \* rerank_cross_encoder_candidates
    CrossWeight,      \* rerank_cross_encoder_weight
    CrossScores       \* bound: what the cross-encoder may answer for a text

\* One chunk defines each name. Hits are chunks and communities.
Chunks == Targets
Chunk(n) == [kind |-> "chunk", of |-> n]
Summary(c) == [kind |-> "community_summary", of |-> c.id]
Hits == {Chunk(n) : n \in Chunks} \cup [kind : {"community_summary"}, of : Symbols]

ASSUME HybridSearchAssumption ==
    /\ Home \in {ProjectOf[n] : n \in Symbols} /\ \A n \in Symbols : ProjectOf[n] = Home
    /\ IsFiniteSet(Unknown)
    /\ Searched \subseteq SUBSET EdgeChoices /\ Followed \subseteq EdgeChoices
    /\ {TopK, RankConstant, Scale, SymbolsPerHit} \subseteq Nat \ {0}
    /\ {SeedHits, MaxNeighbors, Hops, CommunityHits, CrossCandidates} \subseteq Nat
    /\ {EdgesPerHit, MinEdges, MinSymbols} \subseteq Nat
    /\ Boosts \in [Chunks -> Nat]

VARIABLES
    stage,      \* idle, the leg that is merged next, expand, community, rerank, answered
    allowed,    \* the projects the user may see
    score,      \* fused score of each hit
    order,      \* the hits in the order they were first found
    matched,    \* the hits with metadata edge_match
    seeds,      \* history: the symbols that seeded the expansion
    frontier, hop,
    expanded,   \* the neighbours the expansion added, in order
    answer

hits == <<score, order, matched>>
walk == <<seeds, frontier, hop, expanded>>
searchVars == <<stage, allowed, hits, walk, answer>>

Legs == <<"symbol", "edge", "lexical", "knn">>
Stages == Range(Legs) \cup {"idle", "expand", "community", "rerank", "answered"}

\* Type correctness of a search.
SearchTypeOK ==
    /\ stage \in Stages /\ allowed \in Allowances \cup {{}}
    /\ score \in [Hits -> Nat]
    /\ order \in Seq(Hits) /\ IsInjective(order)
    /\ matched \subseteq Hits
    /\ {seeds, frontier} \subseteq SUBSET Chunks /\ hop \in Nat
    /\ expanded \in Seq(Chunks)
    /\ answer \in Seq(Hits)

SearchInit ==
    /\ stage = "idle" /\ allowed = {}
    /\ score = [h \in Hits |-> 0] /\ order = <<>> /\ matched = {}
    /\ seeds = {} /\ frontier = {} /\ hop = 0 /\ expanded = <<>>
    /\ answer = <<>>

-----------------------------------------------------------------------------
(* Requests to the index.                                                  *)

InAnyScope(n) == TRUE
InScope(n) == ProjectOf[n] \in allowed

Lists(D, n) == {q \in [1..n -> D] : IsInjective(q)}

\* What a request for these chunks returns: those in scope, best first, cut to size.
Rankings(D, size) ==
    LET E == {n \in D : InScope(n)} IN Lists(E, Min({size, Cardinality(E)}))

\* A query matches some of them.
Matching(D, size) ==
    LET E == {n \in D \cap Relevant : InScope(n)} IN UNION {Lists(E, n) : n \in 0..size}

\* The symbol leg looks for symbols and then for the chunks that define them, the
\* edge leg for edges and then for the chunks they start from.
Found(leg) ==
    CASE leg = "symbol" -> Matching(Chunks, TopK)
      [] leg = "edge" -> Matching({e.source : e \in edges}, 2 * TopK)
      [] OTHER -> Matching(Chunks, 2 * TopK)

-----------------------------------------------------------------------------
(* Fusion.                                                                 *)

Weight(rank) == Scale \div (RankConstant + rank)

\* One more list of hits. The second fusion repeats the first and adds the lists of
\* neighbours and communities, so both are kept as one running sum.
Fuse(list) ==
    /\ score' = [h \in Hits |->
                   IF h \in Range(list)
                     THEN score[h] + Weight(CHOOSE i \in DOMAIN list : list[i] = h)
                     ELSE score[h]]
    /\ order' = order \o Picked(list, {i \in DOMAIN list : list[i] \notin Range(order)})

\* sorted(..., reverse=True) keeps hits of one score in the order they were found.
ByScore(sc) == Descending(order, sc)

First(q, n) == SubSeq(q, 1, Min({n, Len(q)}))

\* Bound: searches are run over some graphs, after the last rebuild.
Settled == rebuilds = MaxRebuilds /\ errors = 0 /\ seen = stored /\ edges \in Searched

Begin ==
    /\ stage = "idle" /\ phase = "idle" /\ Settled
    /\ allowed' \in Allowances
    /\ stage' = Legs[1]
    /\ UNCHANGED <<hits, walk, answer>>

\* A hit found by several legs is the object of the first: only a hit the symbol leg
\* did not find is marked as one of the edge leg.
Merge(i) ==
    /\ stage = Legs[i]
    /\ \E q \in Found(Legs[i]) :
         LET list == [k \in DOMAIN q |-> Chunk(q[k])] IN
         /\ Fuse(list)
         /\ matched' = IF Legs[i] = "edge" THEN Range(list) \ Range(order) ELSE matched
    /\ stage' = IF i = Len(Legs) THEN "expand" ELSE Legs[i + 1]
    /\ UNCHANGED <<allowed, walk, answer>>

-----------------------------------------------------------------------------
(* Graph expansion.                                                        *)

Seed ==
    /\ stage = "expand" /\ hop = 0
    /\ seeds' = {h.of : h \in Range(First(ByScore(score), SeedHits))}
    /\ frontier' = seeds'
    /\ hop' = 1
    /\ UNCHANGED <<stage, allowed, hits, expanded, answer>>

\* The edges at F, the other ends of some of them, and all that these may name.
EdgesAt(F) ==
    {e \in edges \cap Followed : InScope(e.source) /\ {e.source, e.target} \cap F # {}}
OtherEnds(F, E) == (UNION {{e.source, e.target} : e \in E}) \ F
NamedBy(T) == {n \in Chunks : InScope(n) /\ \E t \in T : n = t \/ LastName[n] = LastName[t]}
Neighbors(F) == NamedBy(OtherEnds(F, EdgesAt(F)))

\* What a request may return that is cut to n documents.
Cut(S, n) == {D \in SUBSET S : Cardinality(D) = Min({n, Cardinality(S)})}

EdgePage(size) == Max({EdgesPerHit * size, MinEdges})
SymbolPage(size) == Max({SymbolsPerHit * size, MinSymbols})

\* The definitions that a request for the neighbours of F resolves: of the names on
\* the edges it reads, those whose symbols it reads.
Resolved(F, size) ==
    UNION {Cut(NamedBy(OtherEnds(F, E)), SymbolPage(size)) : E \in Cut(EdgesAt(F), EdgePage(size))}

LastHop == Max({1, Hops})

Expanding == hop \in 1..LastHop /\ frontier # {} /\ Len(expanded) < MaxNeighbors

UnseenByLegs(q) == Picked(q, {i \in DOMAIN q : Chunk(q[i]) \notin Range(order)})
Unseen(q) ==
    Picked(q, {i \in DOMAIN q : Chunk(q[i]) \notin Range(order) /\ q[i] \notin Range(expanded)})

\* neighbor_chunks cuts the neighbours to what is still missing before the expander
\* drops those it has already.
Expand ==
    /\ stage = "expand" /\ Expanding
    /\ LET size == MaxNeighbors - Len(expanded) IN
       \E D \in Resolved(frontier, size) : \E q \in Rankings(D, size) :
         expanded' = expanded \o Unseen(q) /\ frontier' = Range(Unseen(q))
    /\ hop' = hop + 1
    /\ UNCHANGED <<stage, allowed, hits, seeds, answer>>

ExpandEnds ==
    /\ stage = "expand" /\ hop > 0 /\ ~Expanding
    /\ Fuse([k \in DOMAIN expanded |-> Chunk(expanded[k])])
    /\ stage' = "community"
    /\ UNCHANGED <<allowed, matched, walk, answer>>

-----------------------------------------------------------------------------
(* Communities, reranking, the answer.                                     *)

\* A project's communities are found by who may see the project.
MergeCommunities ==
    /\ stage = "community"
    /\ \E n \in 0..CommunityHits : \E q \in Lists({c \in seen : Home \in allowed}, n) :
         Fuse([k \in DOMAIN q |-> Summary(q[k])])
    /\ stage' = "rerank"
    /\ UNCHANGED <<allowed, matched, walk, answer>>

Heuristic(h) ==
    score[h]
    + (IF h.kind = "community_summary" THEN CommunityBoost ELSE Boosts[h.of])
    + (IF h \in matched THEN UsageBoost ELSE 0)
    + (IF h.kind = "chunk" /\ h.of \in Range(expanded) THEN GraphBoost ELSE 0)

\* The cross-encoder scores the strongest fused hits, from nothing to CrossWeight.
\* It answers nothing when it is off, fails, or sends another number of scores.
Candidates == First(ByScore(score), CrossCandidates)

Span(raw) == LET S == Range(raw) IN Max({Max(S) - Min(S), 1})

Blended(raw) ==
    LET scored == IF Len(raw) = Len(Candidates) THEN Candidates ELSE <<>> IN
    [h \in Hits |-> Heuristic(h) +
        (IF h \in Range(scored)
           THEN LET i == CHOOSE k \in DOMAIN raw : scored[k] = h IN
                (CrossWeight * (raw[i] - Min(Range(raw)))) \div Span(raw)
           ELSE 0)]

\* Hits of one score keep their order among the fused.
Answer(raw) == First(Descending(ByScore(score), Blended(raw)), TopK)

Rerank ==
    /\ stage = "rerank"
    /\ \E raw \in {<<>>} \cup [DOMAIN Candidates -> CrossScores] : answer' = Answer(raw)
    /\ stage' = "answered"
    /\ UNCHANGED <<allowed, hits, walk>>

SearchNext ==
    /\ \/ Begin \/ (\E i \in DOMAIN Legs : Merge(i))
       \/ Seed \/ Expand \/ ExpandEnds
       \/ MergeCommunities \/ Rerank
    /\ UNCHANGED vars

\* One search, after any number of rebuilds and of changes to the graph.
GraphInit == Init /\ SearchInit
GraphNext == SearchNext \/ (stage = "idle" /\ Next /\ UNCHANGED searchVars)
allVars == <<vars, searchVars>>
GraphSpec == GraphInit /\ [][GraphNext]_allVars

-----------------------------------------------------------------------------
(* Properties.                                                             *)

\* Whatever leg, edge of a permitted project or community leads to it, a hit is of a
\* project the user may see: names of edges lead anywhere, their chunks do not.
AnswerInScope ==
    \A i \in DOMAIN answer :
        IF answer[i].kind = "chunk" THEN ProjectOf[answer[i].of] \in allowed
        ELSE Home \in allowed

\* The names within k edges of the seeds, in projects the user may see.
Onward(R) == {n \in Chunks : \E m \in R : n \in Neighbors({m})}
Reach[k \in 0..LastHop] == IF k = 0 THEN seeds ELSE Reach[k - 1] \cup Onward(Reach[k - 1])

\* Expansion adds what lies within the hops of the seeds, once and not more than
\* asked for, and misses no neighbour of the seeds if all of them and all edges at the
\* seeds fit in one request: edges that lead to nothing take up its room as well.
ExpansionIsNeighbourhood ==
    stage = "community" =>
        /\ Range(expanded) \subseteq Reach[LastHop]
        /\ Len(expanded) <= MaxNeighbors /\ IsInjective(expanded)
        /\ \/ Cardinality(Neighbors(seeds)) > MaxNeighbors
           \/ Cardinality(EdgesAt(seeds)) > EdgePage(MaxNeighbors)
           \/ \A n \in Neighbors(seeds) : Chunk(n) \in Range(order)
=============================================================================
