---------------------------- MODULE MCRateLimiter ----------------------------
(* Three threads and two identities, two requests per window of three ticks. *)
EXTENDS RateLimiter, TLC

CONSTANTS t1, t2, t3, k1, k2

MCThreads  == {t1, t2, t3}
MCKeys     == {k1, k2}
MCSymmetry == Permutations(MCThreads) \cup Permutations(MCKeys)
=============================================================================
