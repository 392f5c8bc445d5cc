------------------------------ MODULE FileDocuments ------------------------------
(***************************************************************************)
(* From one file to its documents: what the parsers of the languages       *)
(* declare, the chunks made of it (Chunking), the ids, parents, symbols    *)
(* and edges they get, the requests that embed their texts, batch by       *)
(* batch, and the index they end up in. A file may be indexed again, and   *)
(* then takes over the vectors of texts that have not changed.             *)
(***************************************************************************)
EXTENDS Chunking, SequencesExt, Places

CONSTANTS
    Names, NoName, \* of declarations and headings
    NoVector,
    SkipSettings,  \* values of skip_chunks_with_high_confidence_secrets
    BatchSize,     \* max_embedding_batch_size; 0: everything in one request
    PoolSize,      \* workers of the pool that sends the batches
    Retries,       \* http_retries
    MaxFaults,     \* bound: requests of the embedding service that go wrong
    MaxRuns        \* bound: how often the file is indexed

VARIABLES
    stage,      \* "cut", "embed", "stored" or "failed"
    header,     \* the version of the repository's metadata that headers are made from
    skips,
    docs,       \* the chunks being indexed
    symbols,
    edges,
    batches,    \* the requests that embed their texts
    stored,     \* what the index holds of the file
    shared,     \* one object was the answer to several texts
    faults,
    runs

fileVars == <<header, skips, docs, symbols, edges, batches>>
docVars == <<stage, fileVars, stored, shared, faults, runs>>

\* What is declared at each mark.
DeclShape(f) ==
    /\ f.decls \in Seq([name : Names \cup {NoName}, class : BOOLEAN, parents : Seq(Names)])
    /\ Len(f.decls) = Len(f.marks)

ASSUME FileDocumentsAssumption ==
    /\ NoName \notin Names
    /\ \A f \in Files : DeclShape(f)
    /\ SkipSettings \subseteq BOOLEAN
    /\ {BatchSize, Retries, MaxFaults, MaxRuns} \subseteq Nat
    /\ PoolSize \in Nat \ {0}

-----------------------------------------------------------------------------
(* What a file declares. The nodes of its syntax tree are in the order of  *)
(* the text; `around' holds the places of those a node is inside of.       *)

\* A syntax tree: a node is inside of what the nodes around it are inside of, and within
\* their lines.
Tree(nodes) ==
    /\ Len(nodes) \in Nat /\ DOMAIN nodes = 1..Len(nodes)
    /\ \A n \in DOMAIN nodes : \A m \in nodes[n].around :
         /\ m \in DOMAIN nodes /\ nodes[m].around \subseteq nodes[n].around
         /\ nodes[m].first <= nodes[n].first /\ nodes[n].last <= nodes[m].last

\* Python: visit() does not look into functions. Languages with a grammar: _walk looks
\* everywhere, but a node without a name is none of its own. Others, and headings: every
\* match counts.
Declared(style, nodes, n) ==
    /\ nodes[n].kind # "block"
    /\ style = "python" => \A m \in nodes[n].around : nodes[m].kind # "function"
    /\ style = "grammar" => nodes[n].name # NoName

\* A declaration found by a regular expression ends with its braces, if they close
\* before the next one begins.
LastLine(style, widths, nodes, n) ==
    LET next_start == IF n < Len(nodes) THEN nodes[n + 1].first - 1 ELSE Len(widths) IN
    IF style = "regex" /\ nodes[n].last \notin nodes[n].first..next_start
      THEN next_start
      ELSE nodes[n].last

\* A stack of classes that is not popped: the classes before a node.
ParentsUnpopped(style, nodes, n) ==
    Picked(nodes, {m \in 1..(n - 1) : style # "regex" /\ nodes[m].kind = "class"})

\* The classes around a node, from the outside in.
Parents(style, nodes, n) ==
    Picked(nodes, {m \in nodes[n].around : style # "regex" /\ nodes[m].kind = "class"
                                                         /\ nodes[m].name # NoName})

Parse(kind, style, widths, nodes, secrets) ==
    LET found == Picked([n \in DOMAIN nodes |-> n], {n \in DOMAIN nodes : Declared(style, nodes, n)})
        NamesOf(ns) == [i \in DOMAIN ns |-> ns[i].name]
    IN [kind |-> kind, widths |-> widths, secrets |-> secrets,
        marks |-> [i \in DOMAIN found |->
                     [first |-> nodes[found[i]].first,
                      last  |-> LastLine(style, widths, nodes, found[i])]],
        decls |-> [i \in DOMAIN found |->
                     [name    |-> nodes[found[i]].name,
                      class   |-> nodes[found[i]].kind = "class",
                      parents |-> NamesOf(Parents(style, nodes, found[i]))]]]

-----------------------------------------------------------------------------
(* build_file: the documents of the chunks.                                *)

Decl(c) == file.decls[c.of]

\* What was split, and a window over a whole file, carries no name.
Name(c) == IF c.named THEN Decl(c).name ELSE NoName
ParentNames(c) == IF c.named THEN Decl(c).parents ELSE <<>>
IsClass(c) == c.named /\ Decl(c).class

\* The id hashes the file, the numbers and the name.
IdByLines(c) == <<c.first, c.last, NoName>>
Id(c) == <<c.first, c.last, Name(c)>>
NoId == <<>>

\* Lines with a credential are redacted in the text of every chunk that has them.
Secret(c) == \E l \in file.secrets : c.from <= l /\ l <= c.to

Text(c) == [lines |-> <<c.from, c.to>>, id |-> Id(c), parents |-> ParentNames(c),
            header |-> header, redacted |-> Secret(c)]

\* _link_parent_chunks: the parent is the chunk of the outermost class around, looked up
\* by name; of two classes with one name the last is taken.
Parent(cs, c) ==
    LET named == {d \in ToSet(cs) : IsClass(d) /\ ParentNames(c) # <<>>
                                    /\ Name(d) = ParentNames(c)[1]}
        place(d) == Max({i \in DOMAIN cs : cs[i] = d})
    IN IF named = {} THEN NoId
       ELSE Id(CHOOSE d \in named : \A e \in named : place(e) <= place(d))

\* _index_file: with the setting, a chunk with a credential is left out, and with it
\* whatever has its id.
Dropped(cs) == IF skips THEN {Id(c) : c \in {d \in ToSet(cs) : Secret(d)}} ELSE {}

KeptWithoutChunk(cs) == {}
DroppedFrom(cs) == Dropped(cs)

\* A symbol's id is its qualified name, so that of two declarations the last remains.
SymbolsOf(cs) ==
    LET Fqn(c) == Append(ParentNames(c), Name(c))
        named  == {i \in DOMAIN cs : Name(cs[i]) # NoName /\ Id(cs[i]) \notin DroppedFrom(cs)}
    IN {[fqn |-> Fqn(cs[i]), chunk |-> Id(cs[i])] :
          i \in {k \in named : \A l \in named : Fqn(cs[l]) = Fqn(cs[k]) => l <= k}}

\* Edges start at the chunk they are found in: calls and imports at a declaration's, routes
\* and settings at any.
EdgesOf(cs) == {Id(c) : c \in ToSet(cs)} \ DroppedFrom(cs)

\* existing_embeddings: the stored vector of a chunk with this id, if it was made from
\* the same text.
SameId(d, c) == d.id = Id(c)
Reusable(d, c) == d.id = Id(c) /\ d.text = Text(c)

\* A vector is the set of the texts it was the answer to.
Doc(cs, c) ==
    [id |-> Id(c), text |-> Text(c), parent |-> Parent(cs, c), class |-> IsClass(c),
     vector |-> IF \E d \in stored.chunks : Reusable(d, c)
                  THEN (CHOOSE d \in stored.chunks : Reusable(d, c)).vector
                  ELSE NoVector]

-----------------------------------------------------------------------------
(* embed_documents: batches of texts.                                      *)

Sliced(ts) ==
    IF ts = <<>> THEN <<>>
    ELSE IF BatchSize = 0 \/ Len(ts) <= BatchSize THEN <<ts>>
    ELSE [b \in 1..((Len(ts) + BatchSize - 1) \div BatchSize) |->
            SubSeq(ts, (b - 1) * BatchSize + 1,
                   IF b * BatchSize < Len(ts) THEN b * BatchSize ELSE Len(ts))]

\* The texts of the chunks that have no vector yet.
Fresh(ds) ==
    LET fresh == Picked(ds, {i \in DOMAIN ds : ds[i].vector = NoVector})
    IN [k \in DOMAIN fresh |-> fresh[k].text]

Batch(ts) == [state |-> "queued", texts |-> ts, tries |-> 0, vectors |-> <<>>]

\* Everything between the last window and the first request.
Build ==
    /\ stage = "cut" /\ step = "done"
    /\ LET kept  == Picked(chunks, {i \in DOMAIN chunks : Id(chunks[i]) \notin Dropped(chunks)})
           made  == [i \in DOMAIN kept |-> Doc(chunks, kept[i])]
           texts == Sliced(Fresh(made))
       IN /\ docs' = made
          /\ batches' = [b \in DOMAIN texts |-> Batch(texts[b])]
    /\ symbols' = SymbolsOf(chunks)
    /\ edges' = EdgesOf(chunks)
    /\ stage' = "embed"
    /\ UNCHANGED <<vars, header, skips, stored, shared, faults, runs>>

Sent == {b \in DOMAIN batches : batches[b].state = "sent"}

Settle(b, state, vectors) ==
    batches' = [batches EXCEPT ![b].state = state, ![b].vectors = vectors]

InService == UNCHANGED <<vars, stage, header, skips, docs, symbols, edges, stored, runs>>

\* A worker takes the next batch; one batch goes out on the thread itself.
Send(b) ==
    /\ stage = "embed" /\ batches[b].state = "queued"
    /\ Cardinality(Sent) < PoolSize
    /\ \A a \in 1..(b - 1) : batches[a].state # "queued"
    /\ Settle(b, "sent", <<>>)
    /\ InService /\ UNCHANGED <<shared, faults>>

Own(ts) == [i \in DOMAIN ts |-> {ts[i]}]

\* An item for each text; one that is no object, or has no vectors, is replaced by the
\* fallback's vectors for that text.
Answer(b) ==
    /\ b \in Sent
    /\ Settle(b, "done", Own(batches[b].texts))
    /\ InService /\ UNCHANGED <<shared, faults>>

Fault == faults < MaxFaults /\ faults' = faults + 1

\* One object with a vector, as for a single text: every text of the batch gets it.
AnswerOneObject(b) ==
    /\ b \in Sent /\ Fault
    /\ Len(batches[b].texts) > 1
    /\ Settle(b, "done", [i \in DOMAIN batches[b].texts |-> ToSet(batches[b].texts)])
    /\ shared' = TRUE
    /\ InService

\* The list lacks one of the texts, and the items behind it move up.
AnswerTooShort(b) ==
    /\ b \in Sent /\ Fault
    /\ \E i \in DOMAIN batches[b].texts : Settle(b, "done", RemoveAt(Own(batches[b].texts), i))
    /\ InService /\ UNCHANGED shared

\* An error that is not worth another try, or more items than texts: an exception.
Refuse(b) ==
    /\ b \in Sent /\ Fault
    /\ Settle(b, "refused", <<>>)
    /\ InService /\ UNCHANGED shared

Attempts == Larger(Retries, 1)
LastTryOneEarly(b) == batches[b].tries + 1 >= Attempts - 1
LastTry(b) == batches[b].tries + 1 = Attempts

\* request_with_retries: a timeout or a status that may pass is tried again, up to the
\* last attempt, whose outcome stands.
TryFails(b) ==
    /\ b \in Sent /\ Fault
    /\ batches' = [batches EXCEPT ![b].tries = @ + 1,
                                  ![b].state = IF LastTry(b) THEN "raised" ELSE @]
    /\ InService /\ UNCHANGED shared

-----------------------------------------------------------------------------
(* _attach_embeddings, replace_file                                        *)

AllSettled == \A b \in DOMAIN batches : batches[b].state \in {"done", "refused", "raised"}
Raised == \E b \in DOMAIN batches : batches[b].state \in {"refused", "raised"}

\* The results, in the order of the batches and of the texts of each.
Results == UNION {{b} \X DOMAIN batches[b].vectors : b \in DOMAIN batches}
NoLater(r) == {s \in Results : s[1] < r[1] \/ (s[1] = r[1] /\ s[2] <= r[2])}

Embedded ==
    LET result == Placed([r \in Results |-> Cardinality(NoLater(r))])
    IN [k \in 1..Cardinality(Results) |-> batches[result[k][1]].vectors[result[k][2]]]

\* Which of them is for the chunk at this place: reused ones take none.
TurnOfEvery(i) == i
Turn(i) == Cardinality({j \in 1..i : docs[j].vector = NoVector})

Needed == Turn(Len(docs))

\* The iterator is empty before every chunk has a vector.
Short == Needed > Len(Embedded)

\* The bulk request overwrites a document by a later one with the same id.
Replace ==
    /\ stage = "embed" /\ AllSettled /\ ~Raised /\ ~Short
    /\ LET full == [i \in DOMAIN docs |->
                      IF docs[i].vector = NoVector
                        THEN [docs[i] EXCEPT !.vector = Embedded[Turn(i)]]
                        ELSE docs[i]]
       IN stored' = [chunks |-> {full[i] : i \in {k \in DOMAIN full :
                                    \A l \in DOMAIN full : full[l].id = full[k].id => l <= k}},
                     symbols |-> symbols, edges |-> edges]
    /\ stage' = "stored"
    /\ UNCHANGED <<vars, fileVars, shared, faults, runs>>

\* An exception leaves the index as it is; the pool is left when its last batch is done.
Fail ==
    /\ stage = "embed" /\ AllSettled /\ (Raised \/ Short)
    /\ stage' = "failed"
    /\ UNCHANGED <<vars, fileVars, stored, shared, faults, runs>>

\* The file is indexed again, with what the repository's metadata says by then.
Again ==
    /\ stage \in {"stored", "failed"} /\ runs < MaxRuns
    /\ runs' = runs + 1
    /\ stage' = "cut" /\ header' \in {header, header + 1}
    /\ step' = "raw" /\ next' = 1 /\ text' = NoText /\ start' = 0 /\ chunks' = <<>>
    /\ docs' = <<>> /\ symbols' = {} /\ edges' = {} /\ batches' = <<>>
    /\ UNCHANGED <<file, overlap, skips, stored, shared, faults>>

Cut == stage = "cut" /\ Next /\ UNCHANGED docVars

DocInit ==
    /\ Init
    /\ stage = "cut"
    /\ header = 0 /\ skips \in SkipSettings
    /\ docs = <<>> /\ symbols = {} /\ edges = {} /\ batches = <<>>
    /\ stored = [chunks |-> {}, symbols |-> {}, edges |-> {}]
    /\ shared = FALSE /\ faults = 0 /\ runs = 1

Request(b) ==
    \/ Send(b) \/ Answer(b) \/ AnswerOneObject(b) \/ AnswerTooShort(b)
    \/ Refuse(b) \/ TryFails(b)

DocNext ==
    \/ Cut \/ Build \/ Replace \/ Fail \/ Again
    \/ \E b \in DOMAIN batches : Request(b)

DocSpec == DocInit /\ [][DocNext]_<<vars, docVars>>

-----------------------------------------------------------------------------
(* Properties.                                                             *)

VectorOf(v, t) == t \in v /\ (~shared => v = {t})

\* A stored vector is the answer to the text it is stored with, whichever batches were
\* answered, retried, cut short or left out because their texts were known; and to no other
\* text, unless the service has answered several with one object.
VectorsMatchText == \A d \in stored.chunks : VectorOf(d.vector, d.text)

\* In the index, symbols and edges point at chunks that are there, and a symbol at one
\* that carries its name.
LinksResolve ==
    /\ \A s \in stored.symbols :
         \E d \in stored.chunks : d.id = s.chunk /\ d.id[3] = Last(s.fqn)
    /\ stored.edges \subseteq {d.id : d \in stored.chunks}

\* A chunk's parent is a class whose lines enclose it, if no other class of the file has
\* the class's name and no other declaration has its name and lines, as a constructor has
\* that is written on one line with its class: their chunks have one id.
ParentsEnclose ==
    (\A i, j \in DOMAIN file.decls :
        i # j /\ file.decls[i].class /\ file.decls[j].name = file.decls[i].name
          => ~file.decls[j].class /\ file.marks[j] # file.marks[i])
    => \A d, p \in stored.chunks :
         d.parent = p.id =>
           p.class /\ p.text.lines[1] <= d.text.lines[1] /\ d.text.lines[2] <= p.text.lines[2]

\* A chunk that is not in the index once its file is was left out for a credential, or
\* overwritten by a later one with its id; then one of the two is a piece of a split chunk,
\* numbered from 1, or both are declarations of one name on the same lines, which the index
\* keeps.
IndexLosesOnlyPieces ==
    stage = "stored" =>
      \A i \in DOMAIN chunks :
        \/ \E d \in stored.chunks : d.text = Text(chunks[i])
        \/ Id(chunks[i]) \in Dropped(chunks)
        \/ \E j \in DOMAIN chunks :
             /\ Id(chunks[j]) = Id(chunks[i]) /\ j > i
             /\ \/ \E c \in {chunks[i], chunks[j]} : ~c.named /\ c.of # 0
                \/ /\ chunks[i].named /\ chunks[j].named
                   /\ Name(chunks[i]) = Name(chunks[j])
                   /\ \E d \in stored.chunks : d.text.lines = <<chunks[i].from, chunks[i].to>>

\* A file is given up only if a request was refused, failed at every attempt, or was
\* answered with too few vectors.
FailureHasCause ==
    stage = "failed" =>
      \E b \in DOMAIN batches :
        \/ batches[b].state = "refused"
        \/ batches[b].state = "raised" /\ batches[b].tries = Attempts
        \/ batches[b].state = "done" /\ Len(batches[b].vectors) < Len(batches[b].texts)
=============================================================================
