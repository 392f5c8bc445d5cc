------------------------- MODULE MCIndexingService -------------------------
(* A small repository for IndexingService: four commits over three paths.  *)
EXTENDS IndexingService, TLC

CONSTANTS a, b, c, v1, v2, bin, w1, w2

MCPaths    == {a, b, c}
MCVersions == {v1, v2, bin}
MCSkipped  == {bin}

\* Commit 2 renames a to c and rewrites b; commit 3 makes b a submodule,
\* c a binary and brings a back; commit 4 changes no file.
MCHistory == << a :> v1 @@ b :> v1 @@ c :> Absent,
                a :> Absent @@ b :> v2 @@ c :> v1,
                a :> v2 @@ b :> NotAFile @@ c :> bin,
                a :> v2 @@ b :> NotAFile @@ c :> bin >>
MCRenames == << {}, {<<a, c>>}, {}, {} >>

Full(n) == [type |-> "full", commit |-> n]
Incremental(n) == [type |-> "incremental", commit |-> n]
Push(n) == [type |-> "push", commit |-> n]

MCJobs  == << Full(1), Push(2), Incremental(3), Push(4) >>
OneFile == << Full(1), Incremental(2) >>

OneWorker  == {w1}
TwoWorkers == {w1, w2}

\* The jobs of the instances meet what the theorem about snapshots assumes of a history.
ASSUME MCHistoryFollowed == HistoryFollowed
=============================================================================
