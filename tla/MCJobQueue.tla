----------------------------- MODULE MCJobQueue -----------------------------
(* Small instances of JobQueue for TLC.                                    *)
EXTENDS JobQueue, TLC

CONSTANTS j1, j2, t1, t2, c1, c2

MCJobs     == {j1, j2}
OneJob     == {j1}
MCThreads  == {t1, t2}
MCClients  == {c1, c2}
OneClient  == {c1}
MCMayCrash == {t1}

\* Threads are interchangeable when all of them may crash.
MCSymmetry == Permutations(MCJobs) \cup Permutations(MCThreads) \cup Permutations(MCClients)
=============================================================================
