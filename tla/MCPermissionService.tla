------------------------- MODULE MCPermissionService -------------------------
(* A server with two request threads and an update, and a second server that *)
(* updates the same user.                                                    *)
EXTENDS PermissionService, TLC

CONSTANTS s1, s2, u1, p1, h1, h2, x1, x2

MCServers  == {s1, s2}
MCUsers    == {u1}
MCProjects == {p1}
MCRequests == {<<u1, {}>>, <<u1, {p1}>>, <<NoUser, {p1}>>}
MCHandlers == {h1, h2}
MCEditors  == {x1, x2}
MCServerOf == h1 :> s1 @@ h2 :> s1 @@ x1 :> s1 @@ x2 :> s2

MCSymmetry == Permutations(MCHandlers)
=============================================================================
