----------------------------- MODULE IndexStore -----------------------------
(***************************************************************************)
(* The chunk, file, symbol and edge indices of one project and branch, as  *)
(* the write path sees them.  A write is durable and visible to reads by   *)
(* id at once, and visible to searches only after its index is refreshed.  *)
(* delete_by_query(conflicts=proceed) is a search followed by conditional  *)
(* deletes: it skips the documents written since the last refresh.         *)
(*                                                                         *)
(* One document of each kind stands for all those of one file and version. *)
(***************************************************************************)
EXTENDS FiniteSets

CONSTANTS Paths, Versions, NoVersion

VARIABLES
    live,          \* the documents, as reads by id see them
    seen,          \* the documents as of the last refresh, as searches see them
    unrefreshed    \* the keys written since then

storeVars == <<live, seen, unrefreshed>>

Kinds == {"chunk", "file", "symbol", "edge"}
Document == [kind : Kinds, path : Paths, version : Versions]

\* Document ids: chunk and edge ids hash the file's content, file and symbol
\* ids do not.
Key(d) == IF d.kind \in {"chunk", "edge"} THEN d ELSE [d EXCEPT !.version = NoVersion]
Keys(D) == {Key(d) : d \in D}

StoreTypeOK ==
    /\ live \subseteq Document
    /\ seen \subseteq Document
    /\ unrefreshed \subseteq [kind : Kinds, path : Paths, version : Versions \cup {NoVersion}]

StoreInit == live = {} /\ seen = {} /\ unrefreshed = {}

\* A bulk request with refresh=False: documents with the same id are replaced.
Put(D) ==
    /\ live' = {d \in live : Key(d) \notin Keys(D)} \cup D
    /\ unrefreshed' = unrefreshed \cup Keys(D)
    /\ UNCHANGED seen

\* delete_by_query over the matching documents D of the last refresh.
DeleteByQuery(D) ==
    /\ live' = {d \in live : Key(d) \notin Keys(D \cap seen) \ unrefreshed}
    /\ UNCHANGED <<seen, unrefreshed>>

OfKinds(K) == {d \in live : d.kind \in K}

\* A refresh of some of the indices: the interval ran out, or it was asked for.
Refresh(K) ==
    /\ seen' = {d \in seen : d.kind \notin K} \cup OfKinds(K)
    /\ unrefreshed' = {k \in unrefreshed : k.kind \notin K}
    /\ UNCHANGED live

Refreshed == seen = live /\ unrefreshed = {}
=============================================================================
