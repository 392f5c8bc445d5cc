-------------------------- MODULE MCAliasMigration --------------------------
(* API workers of version 1 that start, and an operator who moves to 2.     *)
EXTENDS AliasMigration, TLC

CONSTANTS d1, d2, api1, api2, api3, op

MCDocs      == {d1, d2}
MCVersions  == {1, 2}
MCStarters  == {api1, api2, api3}
MCOperators == {op}
MCVersion   == api1 :> 1 @@ api2 :> 1 @@ api3 :> 1 @@ op :> 2
=============================================================================
