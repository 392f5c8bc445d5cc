----------------------------- MODULE MCGitCache -----------------------------
EXTENDS GitCache, TLC

CONSTANTS t1, t2, A, B

MCThreads   == {t1, t2}
MCProcesses == {A, B}
MCDeployments == {[t \in MCThreads |-> A], (t1 :> A) @@ (t2 :> B)}
=============================================================================
