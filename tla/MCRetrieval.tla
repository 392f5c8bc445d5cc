----------------------------- MODULE MCRetrieval -----------------------------
(* Two searches in a pool of two workers, over a cache that holds two of     *)
(* three queries.                                                            *)
EXTENDS Retrieval, TLC

CONSTANTS a, b, q1, q2, q3

MCSearches == {a, b}
MCQueries  == {q1, q2, q3}
MCWarm == <<q1, q2>>
MCIndexLegs == <<"bm25">>
=============================================================================
