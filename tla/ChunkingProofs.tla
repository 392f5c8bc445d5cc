---------------------------- MODULE ChunkingProofs ----------------------------
(* Proofs about Chunking and FileDocuments, for every set of files, every      *)
(* overlap, positive limit, batch size and number of faults and runs. Cutting: *)
(* Inv, and ChunkInv, which adds what each chunk was made of. Documents:       *)
(* DocInv, which says what every document, request and stored chunk was made   *)
(* from; its heart is that the texts' batches tile the list of texts.          *)
EXTENDS FileDocuments, FiniteSetTheorems, SequenceTheorems, TLAPS

Raw == RawChunks(file)

Settled(i) ==
    \A l \in Raw[i].first..Raw[i].last : file.widths[l] > 0 => InSomeChunk(l)

\* Where the chunker is in the list of raw chunks.
Position ==
    /\ next \in 1..(Len(Raw) + 1)
    /\ step = "raw" => next = 1
    /\ step = "split" => Raw # <<>>

\* What a text being windowed is.
TextKnown ==
    step = "window" =>
      /\ text.first >= 1
      /\ \/ Raw = <<>> /\ text = WholeFile(file)
         \/ /\ Raw # <<>>
            /\ next > 1
            /\ text.of = next - 1
            /\ text.first = Raw[next - 1].first
            /\ text.last = SplitLast(Raw[next - 1])

\* The windows so far hold all lines before the start of the next one.
WindowsCover ==
    step = "window" =>
      \A l \in text.first..text.last : l < text.first + start => InSomeChunk(l)

\* Raw chunks that were passed are in chunks, but for the one being windowed.
PassedSettled ==
    \A i \in 1..(next - 1) : (step = "window" /\ i = next - 1) \/ Settled(i)

StartsAtZero == step = "raw" => start = 0

Inv ==
    /\ TypeOK /\ Position /\ StartsAtZero /\ TextKnown
    /\ WindowsCover /\ PassedSettled /\ NoLineLost

-----------------------------------------------------------------------------
(* Lemmas.                                                                     *)

\* Raw chunks are intervals of lines of the file.
LEMMA RawTyped ==
    ASSUME NEW f \in Files
    PROVE  /\ f.widths \in Seq(Nat)
           /\ RawChunks(f) \in Seq([first : Nat, last : Nat])
           /\ \A i \in 1..Len(RawChunks(f)) :
                /\ RawChunks(f)[i] \in [first : Nat, last : Nat]
                /\ RawChunks(f)[i].first \in Nat /\ RawChunks(f)[i].last \in Nat
                /\ 1 <= RawChunks(f)[i].first
                /\ RawChunks(f)[i].first <= RawChunks(f)[i].last
                /\ RawChunks(f)[i].last <= Lines(f)
<1>1. FileShape(f)
  BY ChunkingAssumption DEF ChunkingAssumption
<1>0. \A i \in 1..Len(f.marks) : /\ f.marks[i].first \in Nat /\ f.marks[i].last \in Nat
                                  /\ 1 <= f.marks[i].first
                                  /\ f.marks[i].first <= f.marks[i].last
                                  /\ f.marks[i].last <= Lines(f)
  <2>1. \A i \in 1..Len(f.marks) : f.marks[i] \in Interval
    BY <1>1 DEF FileShape
  <2>2. \A i \in 1..Len(f.marks) : f.marks[i].first \in Nat /\ f.marks[i].last \in Nat
    BY <2>1 DEF Interval
  <2> QED
    BY <1>1, <2>2 DEF FileShape, Lines
<1>2. CASE f.kind = "code"
  <2>1. RawChunks(f) = f.marks
    BY <1>2 DEF RawChunks
  <2>2. f.widths \in Seq(Nat) /\ f.marks \in Seq([first : Nat, last : Nat])
    BY <1>1 DEF FileShape, Interval
  <2>3. \A i \in 1..Len(f.marks) : f.marks[i] \in [first : Nat, last : Nat]
    <3>1. \A i \in 1..Len(f.marks) : f.marks[i] \in Interval
      BY <1>1 DEF FileShape
    <3> QED
      BY <3>1 DEF Interval
  <2> QED
    BY <1>0, <2>1, <2>2, <2>3
<1>3. CASE f.kind = "markdown"
  <2>1. RawChunks(f) = [i \in 1..Len(f.marks) |-> Section(f, i)]
    BY <1>1, <1>3 DEF FileShape, RawChunks
  <2>2. \A i \in 1..Len(f.marks) :
          /\ Section(f, i) \in [first : Nat, last : Nat]
          /\ Section(f, i).first \in Nat /\ Section(f, i).last \in Nat
          /\ 1 <= Section(f, i).first
          /\ Section(f, i).first <= Section(f, i).last
          /\ Section(f, i).last <= Lines(f)
    <3> SUFFICES ASSUME NEW i \in 1..Len(f.marks)
                 PROVE  /\ Section(f, i) \in [first : Nat, last : Nat]
                        /\ Section(f, i).first \in Nat /\ Section(f, i).last \in Nat
                        /\ 1 <= Section(f, i).first
                        /\ Section(f, i).first <= Section(f, i).last
                        /\ Section(f, i).last <= Lines(f)
      OBVIOUS
    <3>1. Lines(f) \in Nat /\ f.marks[i].first \in Nat
          /\ 1 <= f.marks[i].first /\ f.marks[i].first <= Lines(f)
      <4>1. Lines(f) \in Nat
        BY <1>1 DEF FileShape, Lines
      <4> QED
        BY <1>0, <4>1
    <3>2. CASE i < Len(f.marks)
      <4>1. i + 1 \in 2..Len(f.marks) /\ i + 1 \in 1..Len(f.marks) /\ (i + 1) - 1 = i
        BY <1>1, <3>2 DEF FileShape
      <4>2. f.marks[i].first < f.marks[i + 1].first
        BY <1>1, <1>3, <4>1 DEF FileShape
      <4>3. f.marks[i + 1].first \in Nat /\ f.marks[i + 1].first <= Lines(f)
        BY <1>0, <3>1, <4>1
      <4> QED
        BY <3>1, <3>2, <4>2, <4>3 DEF Section
    <3>3. CASE ~(i < Len(f.marks))
      BY <3>1, <3>3 DEF Section
    <3> QED
      BY <3>2, <3>3
  <2> QED
    BY <1>1, <2>1, <2>2 DEF FileShape
<1>4. CASE f.kind = "text"
  BY <1>1, <1>4 DEF FileShape, RawChunks
<1> QED
  BY <1>1, <1>2, <1>3, <1>4 DEF FileShape

\* A longer sequence of chunks covers what a shorter one covered.
LEMMA StaysCovered ==
    ASSUME TypeOK, NEW c \in Chunk, chunks' = Append(chunks, c)
    PROVE  /\ \A l : InSomeChunk(l) => InSomeChunk(l)'
           /\ \A l \in Int : c.from <= l /\ l <= c.to => InSomeChunk(l)'
<1>1. chunks \in Seq(Chunk)
  BY DEF TypeOK
<1>2. /\ Len(chunks') = Len(chunks) + 1
      /\ \A i \in 1..Len(chunks) : chunks'[i] = chunks[i]
      /\ chunks'[Len(chunks) + 1] = c
  BY <1>1
<1> QED
  BY <1>1, <1>2 DEF InSomeChunk

\* A window that begins inside of the text takes at least one of its lines.
LEMMA WindowTakes ==
    ASSUME TypeOK, NEW s \in Nat, s < TextLines, NEW e \in s..TextLines, IsWindow(s, e)
    PROVE  s + 1 <= e
<1>1. TextLines \in Int
  BY DEF TypeOK, TextLines
<1>2. CASE e = s
  <2>1. Chars(s, e) = 0
    BY <1>2 DEF Chars
  <2> QED
    BY <1>1, <1>2, <2>1, ChunkingAssumption DEF IsWindow, ChunkingAssumption
<1> QED
  BY <1>1, <1>2

\* The next window begins after this one does, and not after a line it left out.
LEMMA NextStartAdvances ==
    ASSUME TypeOK, NEW s \in Nat, NEW e \in Nat, s + 1 <= e
    PROVE  /\ NextStart(s, e) \in Nat
           /\ s + 1 <= NextStart(s, e)
           /\ NextStart(s, e) <= e
<1>1. overlap \in Int
  BY ChunkingAssumption DEF TypeOK, ChunkingAssumption
<1> QED
  BY <1>1 DEF NextStart, Larger

-----------------------------------------------------------------------------
(* The invariant holds.                                                        *)

\* The invariant holds before anything is cut.
LEMMA InvInit == Init => Inv
<1> SUFFICES ASSUME Init PROVE Inv
  OBVIOUS
<1>1. TypeOK
  BY DEF Init, TypeOK, NoText
<1>2. Len(Raw) \in Nat
  BY RawTyped DEF Init, Raw
<1> QED
  BY <1>1, <1>2 DEF Init, Inv, Position, StartsAtZero, TextKnown, WindowsCover, PassedSettled, NoLineLost

\* Extraction leaves a text to window over, or raw chunks to pass.
LEMMA ExtractKeeps == Inv /\ Extract => Inv'
<1> SUFFICES ASSUME Inv, Extract PROVE Inv'
  OBVIOUS
<1>1. /\ file \in Files /\ file' = file /\ chunks' = chunks /\ next' = next /\ next = 1
      /\ start \in Nat /\ start' = start
  BY DEF Inv, TypeOK, Extract, Position
<1>2. Raw' = Raw /\ Len(Raw) \in Nat /\ Lines(file) \in Nat
  BY <1>1, RawTyped DEF Raw, Lines
<1>3. TypeOK'
  BY <1>1, <1>2 DEF Inv, TypeOK, Extract, WholeFile
<1>4. Position' /\ TextKnown' /\ StartsAtZero'
  BY <1>1, <1>2 DEF Inv, Position, Extract, TextKnown, WholeFile, Raw, Lines, StartsAtZero
<1>5. PassedSettled' /\ NoLineLost'
  BY <1>1, <1>2 DEF Extract, PassedSettled, NoLineLost
<1>6. WindowsCover'
  <2>1. start = 0
    BY DEF Inv, Extract, StartsAtZero
  <2> QED
    BY <1>1, <1>3, <2>1 DEF WindowsCover, TypeOK
<1> QED
  BY <1>3, <1>4, <1>5, <1>6 DEF Inv

\* A raw chunk that is kept is settled: its own chunk has its lines.
LEMMA KeepKeeps == Inv /\ Keep => Inv'
<1> SUFFICES ASSUME Inv, Keep PROVE Inv'
  OBVIOUS
<1> DEFINE r == Raw[next]
           c == [first |-> r.first, last |-> r.last, from |-> r.first, to |-> r.last,
                 named |-> TRUE, of |-> next]
<1>1. /\ file \in Files /\ file' = file /\ step = "split" /\ step' = step /\ text' = text
      /\ next' = next + 1 /\ start' = start /\ overlap' = overlap
      /\ next \in 1..Len(Raw) /\ chunks' = Append(chunks, c)
  BY DEF Inv, TypeOK, Keep, Position, Raw
<1>2. Raw' = Raw /\ Len(Raw) \in Nat /\ r \in [first : Nat, last : Nat]
  BY <1>1, RawTyped DEF Raw
<1>3. c \in Chunk
  BY <1>1, <1>2 DEF Chunk
<1>4. TypeOK'
  <2>1. chunks' \in Seq(Chunk)
    BY <1>1, <1>3 DEF Inv, TypeOK
  <2> QED
    BY <1>1, <2>1 DEF Inv, TypeOK
<1>5. Position' /\ TextKnown' /\ WindowsCover' /\ NoLineLost' /\ StartsAtZero'
  BY <1>1, <1>2 DEF Inv, Position, TextKnown, WindowsCover, NoLineLost, StartsAtZero
<1>6. PassedSettled'
  <2>1. \A l : InSomeChunk(l) => InSomeChunk(l)'
    BY <1>1, <1>3, StaysCovered DEF Inv
  <2>2. \A l \in r.first..r.last : InSomeChunk(l)'
    BY <1>1, <1>2, <1>3, StaysCovered DEF Inv
  <2>3. \A i \in 1..(next - 1) : Settled(i)
    BY <1>1 DEF Inv, PassedSettled
  <2>4. \A i \in 1..next : Settled(i)'
    BY <1>1, <1>2, <2>1, <2>2, <2>3 DEF Settled
  <2> QED
    BY <1>1, <2>4 DEF PassedSettled
<1> QED
  BY <1>4, <1>5, <1>6 DEF Inv

\* A raw chunk that is split is not settled before its text is at its end.
LEMMA SplitKeeps == Inv /\ Split => Inv'
<1> SUFFICES ASSUME Inv, Split PROVE Inv'
  OBVIOUS
<1> DEFINE r == Raw[next]
<1>1. /\ file \in Files /\ file' = file /\ step = "split" /\ step' = "window"
      /\ text' = [first |-> r.first, last |-> SplitLast(r), of |-> next]
      /\ next' = next + 1 /\ start' = 0 /\ overlap' = overlap
      /\ next \in 1..Len(Raw) /\ chunks' = chunks
  BY DEF Inv, TypeOK, Split, Position, Raw
<1>2. Raw' = Raw /\ Len(Raw) \in Nat /\ r \in [first : Nat, last : Nat] /\ r.first >= 1
      /\ r.first <= r.last /\ Raw # <<>>
  BY <1>1, RawTyped DEF Raw
<1>3. SplitLast(r) \in Nat
  BY <1>2 DEF SplitLast
<1>4. TypeOK'
  BY <1>1, <1>2, <1>3 DEF Inv, TypeOK
<1>5. Position' /\ TextKnown' /\ WindowsCover' /\ NoLineLost' /\ StartsAtZero'
  <2>1. next' - 1 = next /\ next' > 1
    BY <1>1
  <2>2. TextKnown'
    BY <1>1, <1>2, <2>1 DEF TextKnown, SplitLast
  <2>3. WindowsCover'
    BY <1>1, <1>2, <1>3 DEF WindowsCover
  <2> QED
    BY <1>1, <1>2, <2>2, <2>3 DEF Position, NoLineLost, StartsAtZero
<1>6. PassedSettled'
  <2>1. \A i \in 1..(next - 1) : Settled(i)
    BY <1>1 DEF Inv, PassedSettled
  <2> QED
    BY <1>1, <1>2, <2>1 DEF PassedSettled, Settled, InSomeChunk
<1> QED
  BY <1>4, <1>5, <1>6 DEF Inv

\* A window holds all lines up to the start of the next one.
LEMMA WindowKeeps == Inv /\ Window => Inv'
<1> SUFFICES ASSUME Inv, Window PROVE Inv'
  OBVIOUS
<1>1. PICK e \in start..TextLines : /\ IsWindow(start, e)
                                    /\ chunks' = Append(chunks, WindowChunk(start, e))
                                    /\ start' = NextStart(start, e)
  BY DEF Window
<1> DEFINE c == WindowChunk(start, e)
<1>2. /\ file \in Files /\ file' = file /\ step = "window" /\ step' = step /\ text' = text
      /\ next' = next /\ overlap' = overlap /\ start \in Nat /\ start < TextLines
      /\ text \in [first : Nat, last : Nat, of : Nat] /\ TypeOK
      /\ TextLines \in Int
  BY DEF Inv, TypeOK, Window, TextLines
<1>3. Raw' = Raw
  BY <1>2 DEF Raw
<1>4. e \in Nat /\ start + 1 <= e /\ e <= TextLines
  BY <1>1, <1>2, WindowTakes
<1>5. start' \in Nat /\ start' <= e
  BY <1>1, <1>2, <1>4, NextStartAdvances
<1>6. /\ c \in Chunk
      /\ c.from = text.first + start
      /\ c.to = text.first + e - 1
  BY <1>2, <1>4 DEF WindowChunk, Chunk, Numbered, Larger
<1>7. TypeOK'
  <2>1. chunks' \in Seq(Chunk)
    BY <1>1, <1>2, <1>6 DEF TypeOK
  <2> QED
    BY <1>2, <1>5, <2>1 DEF TypeOK
<1>8. \A l : InSomeChunk(l) => InSomeChunk(l)'
  BY <1>1, <1>2, <1>6, StaysCovered
<1>9. WindowsCover'
  <2> SUFFICES ASSUME NEW l \in text.first..text.last, l < text.first + start'
               PROVE  InSomeChunk(l)'
    BY <1>2 DEF WindowsCover
  <2>1. CASE l < text.first + start
    BY <1>2, <1>8, <2>1 DEF Inv, WindowsCover
  <2>2. CASE ~(l < text.first + start)
    <3>1. c.from <= l /\ l <= c.to /\ l \in Int
      BY <1>2, <1>4, <1>5, <1>6, <2>2
    <3> QED
      BY <1>1, <1>2, <1>6, <3>1, StaysCovered
  <2> QED
    BY <2>1, <2>2
<1>10. Position' /\ TextKnown' /\ NoLineLost' /\ StartsAtZero'
  BY <1>2, <1>3 DEF Inv, Position, TextKnown, NoLineLost, StartsAtZero, SplitLast, WholeFile
<1>11. PassedSettled'
  BY <1>2, <1>3, <1>8 DEF Inv, PassedSettled, Settled
<1> QED
  BY <1>7, <1>9, <1>10, <1>11 DEF Inv

\* At the end of a text all its lines are in chunks, and with them those of the raw
\* chunk it is the text of: only an empty last line may be missing.
LEMMA EndTextKeeps == Inv /\ EndText => Inv'
<1> SUFFICES ASSUME Inv, EndText PROVE Inv'
  OBVIOUS
<1>1. /\ file \in Files /\ file' = file /\ chunks' = chunks /\ step = "window"
      /\ text' = text /\ next' = next /\ overlap' = overlap /\ start' = start
      /\ start \in Nat /\ start >= TextLines
      /\ step' = IF text.of = 0 THEN "done" ELSE "split"
      /\ text \in [first : Nat, last : Nat, of : Nat] /\ TypeOK
  BY DEF Inv, TypeOK, EndText
<1>2. Raw' = Raw /\ Len(Raw) \in Nat /\ Lines(file) \in Nat
  BY <1>1, RawTyped DEF Raw, Lines
<1>3. \A l \in text.first..text.last : InSomeChunk(l)
  BY <1>1 DEF Inv, WindowsCover, TextLines
<1>4. TypeOK' /\ TextKnown' /\ WindowsCover'
  BY <1>1 DEF TypeOK, TextKnown, WindowsCover
<1>5. CASE Raw = <<>> /\ text = WholeFile(file)
  <2>1. text.of = 0 /\ next = 1 /\ text.first = 1 /\ text.last = Lines(file)
    BY <1>5 DEF WholeFile, Inv, Position
  <2>2. NoLineLost'
    BY <1>1, <1>2, <1>3, <2>1 DEF NoLineLost, InSomeChunk
  <2> QED
    BY <1>1, <1>2, <1>4, <2>1, <2>2
       DEF Inv, Position, PassedSettled, StartsAtZero
<1>6. CASE /\ Raw # <<>>
           /\ next > 1
           /\ text.of = next - 1
           /\ text.first = Raw[next - 1].first
           /\ text.last = SplitLast(Raw[next - 1])
  <2> DEFINE r == Raw[next - 1]
  <2>1. next \in 1..(Len(Raw) + 1) /\ next - 1 \in 1..Len(Raw)
    BY <1>2, <1>6 DEF Inv, Position
  <2>2. r.first \in Nat /\ r.last \in Nat /\ r.last <= Lines(file)
    BY <1>1, <2>1, RawTyped DEF Raw
  <2>3. Settled(next - 1)
    <3> SUFFICES ASSUME NEW l \in r.first..r.last, file.widths[l] > 0
                 PROVE  InSomeChunk(l)
      BY DEF Settled
    <3>1. CASE l <= text.last
      BY <1>3, <1>6, <2>2, <3>1
    <3>2. CASE ~(l <= text.last)
      <4>1. file.widths[r.last] = 0 /\ text.last = r.last - 1
        BY <1>6, <2>2, <3>2 DEF SplitLast
      <4>2. l = r.last
        BY <2>2, <3>2, <4>1
      <4> QED
        BY <4>1, <4>2
    <3> QED
      BY <3>1, <3>2
  <2>4. step' = "split"
    BY <1>1, <1>6, <2>1
  <2>5. \A i \in 1..(next - 1) : Settled(i)
    BY <2>3 DEF Inv, PassedSettled
  <2>6. PassedSettled'
    BY <1>1, <1>2, <2>5 DEF PassedSettled, Settled, InSomeChunk
  <2> QED
    BY <1>1, <1>2, <1>4, <1>6, <2>1, <2>4, <2>6
       DEF Inv, Position, NoLineLost, StartsAtZero
<1> QED
  BY <1>1, <1>5, <1>6 DEF Inv, TextKnown

\* Past the last raw chunk all are settled.
LEMMA FinishKeeps == Inv /\ Finish => Inv'
<1> SUFFICES ASSUME Inv, Finish PROVE Inv'
  OBVIOUS
<1>1. /\ file \in Files /\ file' = file /\ chunks' = chunks /\ step = "split"
      /\ step' = "done" /\ text' = text /\ next' = next /\ overlap' = overlap
      /\ start' = start /\ next > Len(Raw) /\ Raw # <<>>
      /\ next \in 1..(Len(Raw) + 1) /\ TypeOK
  BY DEF Inv, TypeOK, Finish, Position, Raw
<1>2. Raw' = Raw /\ Len(Raw) \in Nat /\ Raw \in Seq([first : Nat, last : Nat])
  BY <1>1, RawTyped DEF Raw
<1>3. \A i \in 1..Len(Raw) : Settled(i)
  BY <1>1, <1>2 DEF Inv, PassedSettled
<1>4. NoLineLost'
  <2> SUFFICES ASSUME NEW l \in 1..Lines(file), Wanted(file, l), file.widths[l] > 0
               PROVE  InSomeChunk(l)
    BY <1>1 DEF NoLineLost, InSomeChunk
  <2>1. PICK i \in 1..Len(Raw) : Raw[i].first <= l /\ l <= Raw[i].last
    BY <1>1, <1>2 DEF Wanted, Raw
  <2>2. Raw[i].first \in Nat /\ Raw[i].last \in Nat
    BY <1>1, RawTyped DEF Raw
  <2>3. l \in Raw[i].first..Raw[i].last
    BY <1>1, <2>1, <2>2, RawTyped DEF Lines
  <2> QED
    BY <1>3, <2>3 DEF Settled
<1> QED
  BY <1>1, <1>2, <1>3, <1>4
     DEF Inv, TypeOK, Position, TextKnown, WindowsCover, PassedSettled, Settled, InSomeChunk,
         StartsAtZero

\* Inv is inductive, for every set of files and overlaps.
THEOREM Invariance == Spec => []Inv
<1>1. Inv /\ [Next]_vars => Inv'
  <2> SUFFICES ASSUME Inv, [Next]_vars PROVE Inv'
    OBVIOUS
  <2>1. CASE UNCHANGED vars
    BY <2>1 DEF vars, Inv, TypeOK, Position, TextKnown, WindowsCover, PassedSettled, NoLineLost,
                Settled, InSomeChunk, Raw, SplitLast, StartsAtZero
  <2> QED
    BY <2>1, ExtractKeeps, KeepKeeps, SplitKeeps, WindowKeeps, EndTextKeeps, FinishKeeps DEF Next
<1> QED
  BY <1>1, InvInit, PTL DEF Spec

-----------------------------------------------------------------------------
(* The theorems.                                                               *)

\* The chunker keeps its state well typed, for every file and every overlap.
THEOREM TypeCorrect == Spec => []TypeOK
  BY Invariance, PTL DEF Inv

\* No line that holds anything is lost by cutting, for every file, every overlap and
\* every limit: the windows of fixed_size_chunks leave no gap, and split_large_chunks
\* windows over all of the text it replaces.
THEOREM LosesNoLine == Spec => []NoLineLost
  BY Invariance, PTL DEF Inv

\* Chunks that keep their symbol, and windows over a whole file, carry the line
\* numbers of their text, for every file and every overlap.
THEOREM NumbersTheText == Spec => []NumbersNameTheText
<1>1. Init => NumbersNameTheText
  BY DEF Init, NumbersNameTheText
<1>2. Inv /\ NumbersNameTheText /\ [Next]_vars => NumbersNameTheText'
  <2> SUFFICES ASSUME Inv, NumbersNameTheText, [Next]_vars PROVE NumbersNameTheText'
    OBVIOUS
  <2>0. chunks \in Seq(Chunk)
    BY DEF Inv, TypeOK
  <2>1. CASE chunks' = chunks
    BY <2>1 DEF NumbersNameTheText
  <2>2. ASSUME NEW c \in Chunk, chunks' = Append(chunks, c),
               c.named \/ c.of = 0 => c.first = c.from /\ c.last = c.to
        PROVE  NumbersNameTheText'
    <3>1. /\ DOMAIN chunks' = 1..(Len(chunks) + 1)
          /\ DOMAIN chunks = 1..Len(chunks) /\ Len(chunks) \in Nat
          /\ \A i \in 1..Len(chunks) : chunks'[i] = chunks[i]
          /\ chunks'[Len(chunks) + 1] = c
      BY <2>0, <2>2
    <3> QED
      BY <2>2, <3>1 DEF NumbersNameTheText
  <2>3. CASE Keep
    <3> DEFINE r == Raw[next]
               c == [first |-> r.first, last |-> r.last, from |-> r.first, to |-> r.last,
                     named |-> TRUE, of |-> next]
    <3>1. next \in 1..Len(Raw) /\ file \in Files /\ chunks' = Append(chunks, c)
      BY <2>3 DEF Inv, TypeOK, Keep, Position, Raw
    <3>2. c \in Chunk
      BY <3>1, RawTyped DEF Raw, Chunk
    <3> QED
      BY <2>2, <3>1, <3>2
  <2>4. CASE Window
    <3>1. PICK e \in start..TextLines : /\ IsWindow(start, e)
                                        /\ chunks' = Append(chunks, WindowChunk(start, e))
      BY <2>4 DEF Window
    <3>2. /\ step = "window" /\ start \in Nat /\ start < TextLines
          /\ text \in [first : Nat, last : Nat, of : Nat] /\ TypeOK /\ TextLines \in Int
          /\ next \in Nat
      BY <2>4 DEF Inv, TypeOK, Window, TextLines
    <3>3. e \in Nat /\ start + 1 <= e
      BY <3>1, <3>2, WindowTakes
    <3>4. text.of = 0 => text.first = 1
      BY <3>2 DEF Inv, TextKnown, WholeFile
    <3>5. WindowChunk(start, e) \in Chunk
      BY <3>2, <3>3 DEF WindowChunk, Chunk, Numbered, Larger
    <3>6. /\ WindowChunk(start, e).named = FALSE
          /\ WindowChunk(start, e).of = text.of
          /\ WindowChunk(start, e).first = start + 1
          /\ WindowChunk(start, e).from = text.first + start
          /\ WindowChunk(start, e).last = e
          /\ WindowChunk(start, e).to = text.first + e - 1
      BY <3>2, <3>3 DEF WindowChunk, Numbered, Larger
    <3> QED
      BY <2>2, <3>1, <3>2, <3>3, <3>4, <3>5, <3>6
  <2> QED
    BY <2>1, <2>3, <2>4 DEF Next, Extract, Split, EndText, Finish, vars
<1> QED
  BY <1>1, <1>2, Invariance, PTL DEF Spec

-----------------------------------------------------------------------------
(* What is in the chunks.                                                      *)

\* What a chunk of a file can be: the whole of a raw chunk, which it then carries the
\* numbers of, or a part of one or, if there are none, of the file.
Known(f, c) ==
    /\ c \in Chunk
    /\ IF RawChunks(f) = <<>> THEN c.of = 0 /\ ~c.named ELSE c.of \in 1..Len(RawChunks(f))
    /\ c.named => /\ c.from = c.first /\ c.first = RawChunks(f)[c.of].first
                  /\ c.to = c.last /\ c.last = RawChunks(f)[c.of].last

\* A window of the text in hand, before the one that comes next.
WindowAt(c) ==
    \E s, e \in Nat : s < start /\ s <= e /\ e <= TextLines /\ IsWindow(s, e) /\ c = WindowChunk(s, e)

ChunksKnown == \A i \in 1..Len(chunks) : Known(file, chunks[i]) /\ chunks[i].of < next

TextWindows ==
    step = "window" => \A i \in 1..Len(chunks) : chunks[i].of = text.of => WindowAt(chunks[i])

\* Windows over a whole file are in the order of their lines.
FileWindows ==
    \A i, j \in 1..Len(chunks) :
        i < j /\ chunks[i].of = 0 /\ chunks[j].of = 0 => chunks[i].first < chunks[j].first

NoneYet == step = "raw" => chunks = <<>>

ChunkInv == Inv /\ ChunksKnown /\ TextWindows /\ FileWindows /\ NoneYet

\* The numbers of a chunk.
LEMMA ChunkNumbers ==
    ASSUME TypeOK
    PROVE  /\ Len(chunks) \in Nat /\ DOMAIN chunks = 1..Len(chunks)
           /\ \A i \in 1..Len(chunks) :
                /\ chunks[i] \in Chunk /\ chunks[i].of \in Nat /\ chunks[i].named \in BOOLEAN
                /\ chunks[i].first \in Nat /\ chunks[i].from \in Nat /\ chunks[i].to \in Nat
  <1>1. chunks \in Seq(Chunk)
    BY DEF TypeOK
  <1>2. \A i \in 1..Len(chunks) : chunks[i] \in Chunk
    BY <1>1
  <1> QED BY <1>1, <1>2, SMTT(30) DEF Chunk

\* Steps that add no chunk.
LEMMA SameChunksKeep ==
    ASSUME ChunkInv, chunks' = chunks, file' = file, next <= next', next' \in Nat,
           step' # "raw" \/ step' = step, TextWindows'
    PROVE  ChunksKnown' /\ FileWindows' /\ NoneYet'
  <1>1. chunks \in Seq(Chunk) /\ next \in Nat
    BY DEF ChunkInv, Inv, TypeOK
  <1>4. \A i \in 1..Len(chunks) : chunks[i].of \in Nat
    BY ChunkNumbers DEF ChunkInv, Inv
  <1>5. ChunksKnown'
    <2>1. \A i \in 1..Len(chunks) : Known(file, chunks[i]) /\ chunks[i].of < next
      BY DEF ChunkInv, ChunksKnown
    <2>2. \A i \in 1..Len(chunks) : chunks[i].of < next'
      BY <1>1, <1>4, <2>1
    <2> QED BY <2>1, <2>2 DEF ChunksKnown, Known
  <1> QED BY <1>5 DEF ChunkInv, FileWindows, NoneYet

\* Steps that add one.
LEMMA OneMoreKeeps ==
    ASSUME ChunkInv, NEW c \in Chunk, chunks' = Append(chunks, c), file' = file, Known(file, c),
           next <= next', next' \in Nat, c.of < next', step' # "raw",
           c.of = 0 => \A i \in 1..Len(chunks) : chunks[i].of = 0 => chunks[i].first < c.first
    PROVE  ChunksKnown' /\ FileWindows' /\ NoneYet'
  <1>1. chunks \in Seq(Chunk) /\ next \in Nat
    BY DEF ChunkInv, Inv, TypeOK
  <1>4. \A i \in 1..Len(chunks) : chunks[i].of \in Nat
    BY ChunkNumbers DEF ChunkInv, Inv
  <1>5. /\ Len(chunks') = Len(chunks) + 1 /\ Len(chunks) \in Nat
        /\ \A i \in 1..Len(chunks) : chunks'[i] = chunks[i]
        /\ chunks'[Len(chunks) + 1] = c
    BY <1>1
  <1>6. ChunksKnown'
    <2>1. \A i \in 1..Len(chunks) : Known(file, chunks[i]) /\ chunks[i].of < next
      BY DEF ChunkInv, ChunksKnown
    <2>2. \A i \in 1..Len(chunks) : chunks[i].of < next'
      BY <1>1, <1>4, <2>1
    <2> QED BY <1>5, <2>1, <2>2 DEF ChunksKnown, Known
  <1>7. FileWindows'
    BY <1>5 DEF ChunkInv, FileWindows
  <1> QED BY <1>6, <1>7 DEF NoneYet

\* What the chunks were made of stays true in every step of the chunker.
LEMMA ChunkInvKept == ChunkInv /\ [Next]_vars => ChunkInv'
  <1> SUFFICES ASSUME ChunkInv, [Next]_vars PROVE ChunkInv'
    OBVIOUS
  <1>0. Inv /\ Inv' /\ chunks \in Seq(Chunk) /\ next \in Nat /\ TypeOK
    <2>1. CASE UNCHANGED vars
      BY <2>1 DEF vars, ChunkInv, Inv, TypeOK, Position, TextKnown, WindowsCover, PassedSettled,
                  NoLineLost, Settled, InSomeChunk, Raw, SplitLast, StartsAtZero
    <2> QED
      BY <2>1, ExtractKeeps, KeepKeeps, SplitKeeps, WindowKeeps, EndTextKeeps, FinishKeeps
         DEF Next, ChunkInv, Inv, TypeOK
  <1>1. CASE UNCHANGED vars
    <2>1. \A c : WindowAt(c)' <=> WindowAt(c)
      BY <1>1 DEF vars, WindowAt, IsWindow, WindowChunk, Chars, Width, TextLines
    <2>2. TextWindows'
      BY <1>1, <2>1 DEF vars, ChunkInv, TextWindows
    <2> QED BY <1>0, <1>1, <2>2, SameChunksKeep DEF vars, ChunkInv
  <1>2. CASE Extract
    <2>1. chunks' = <<>> /\ chunks' = chunks
      BY <1>2 DEF Extract, ChunkInv, NoneYet
    <2>2. TextWindows'
      BY <2>1 DEF TextWindows
    <2> QED BY <1>0, <1>2, <2>1, <2>2, SameChunksKeep DEF Extract, ChunkInv
  <1>3. CASE Keep
    <2> DEFINE r == Raw[next]
               c == [first |-> r.first, last |-> r.last, from |-> r.first, to |-> r.last,
                     named |-> TRUE, of |-> next]
    <2>1. /\ next \in 1..Len(Raw) /\ file \in Files /\ file' = file /\ chunks' = Append(chunks, c)
          /\ next' = next + 1 /\ step' = "split"
      BY <1>0, <1>3 DEF Inv, TypeOK, Keep, Position, Raw
    <2>2. c \in Chunk
      <3>1. r.first \in Nat /\ r.last \in Nat
        BY <2>1, RawTyped DEF Raw
      <3> QED BY <1>0, <3>1 DEF Chunk
    <2>3. Known(file, c)
      <3>1. Raw # <<>>
        BY <1>0, <1>3 DEF Keep, Inv, Position
      <3> QED BY <2>1, <2>2, <3>1 DEF Known, Raw
    <2>4. ChunksKnown' /\ FileWindows' /\ NoneYet'
      <3>1. c.of = next /\ next # 0
        BY <1>0, <2>1
      <3> HIDE DEF c
      <3>2. next <= next' /\ next' \in Nat /\ c.of < next' /\ step' # "raw"
        BY <1>0, <2>1, <3>1
      <3> QED BY <2>1, <2>2, <2>3, <3>1, <3>2, OneMoreKeeps
    <2>5. TextWindows'
      BY <2>1 DEF TextWindows
    <2> QED BY <1>0, <2>4, <2>5 DEF ChunkInv
  <1>4. CASE Split
    <2>1. chunks' = chunks /\ file' = file /\ next' = next + 1 /\ step' = "window" /\ text'.of = next
      BY <1>4 DEF Split
    <2>2. \A i \in 1..Len(chunks) : chunks[i].of # next
      <3>1. \A i \in 1..Len(chunks) : chunks[i].of \in Nat /\ chunks[i].of < next
        BY <1>0, ChunkNumbers DEF ChunkInv, ChunksKnown
      <3> QED BY <1>0, <3>1
    <2>3. TextWindows'
      BY <2>1, <2>2 DEF TextWindows
    <2> QED BY <1>0, <2>1, <2>3, SameChunksKeep DEF ChunkInv
  <1>5. CASE Window
    <2>1. PICK e \in start..TextLines : /\ IsWindow(start, e)
                                        /\ chunks' = Append(chunks, WindowChunk(start, e))
                                        /\ start' = NextStart(start, e)
      BY <1>5 DEF Window
    <2>2. /\ step = "window" /\ step' = step /\ start \in Nat /\ start < TextLines
          /\ text \in [first : Nat, last : Nat, of : Nat] /\ TextLines \in Int
          /\ next' = next /\ text' = text /\ file' = file
      BY <1>0, <1>5 DEF TypeOK, Window, TextLines
    <2>3. e \in Nat /\ start + 1 <= e /\ e <= TextLines
      BY <1>0, <2>1, <2>2, WindowTakes
    <2>4. start' \in Nat /\ start + 1 <= start'
      BY <1>0, <2>1, <2>2, <2>3, NextStartAdvances
    <2> DEFINE c == WindowChunk(start, e)
    <2>5. /\ c \in Chunk /\ c.of = text.of /\ c.named = FALSE /\ c.first = start + 1
      BY <2>2, <2>3 DEF WindowChunk, Chunk, Numbered, Larger
    <2>6. Known(file, c) /\ c.of < next
      <3>1. CASE Raw = <<>> /\ text = WholeFile(file)
        <4>1. next = 1 /\ text.of = 0
          BY <1>0, <3>1, <2>2 DEF Inv, Position, WholeFile
        <4> QED BY <2>5, <3>1, <4>1 DEF Known, Raw
      <3>2. CASE Raw # <<>> /\ next > 1 /\ text.of = next - 1
        <4>1. next \in 1..(Len(Raw) + 1) /\ Len(Raw) \in Nat
          BY <1>0, RawTyped DEF Inv, Position, TypeOK, Raw
        <4> QED BY <2>5, <3>2, <4>1 DEF Known, Raw
      <3> QED BY <1>0, <2>2, <3>1, <3>2 DEF Inv, TextKnown
    <2>7. \A i \in 1..Len(chunks) : chunks[i].of = text.of => WindowAt(chunks[i])
      BY <2>2 DEF ChunkInv, TextWindows
    <2>8. c.of = 0 => \A i \in 1..Len(chunks) : chunks[i].of = 0 => chunks[i].first < c.first
      <3> SUFFICES ASSUME NEW i \in 1..Len(chunks), chunks[i].of = c.of PROVE chunks[i].first < c.first
        BY <2>5
      <3>1. PICK s \in Nat, f \in Nat : s < start /\ chunks[i] = WindowChunk(s, f)
        BY <2>5, <2>7 DEF WindowAt
      <3>2. chunks[i].first = s + 1
        BY <3>1 DEF WindowChunk, Numbered
      <3> QED BY <2>2, <2>5, <3>1, <3>2
    <2>9. ChunksKnown' /\ FileWindows' /\ NoneYet'
      <3>1. c \in Chunk /\ chunks' = Append(chunks, c) /\ Known(file, c) /\ c.of < next' /\ next <= next' /\ next' \in Nat /\ step' # "raw"
        BY <1>0, <2>1, <2>2, <2>5, <2>6
      <3> HIDE DEF c
      <3> QED BY <2>2, <2>8, <3>1, OneMoreKeeps
    <2>10. TextWindows'
      <3>1. PICK d : d = c
        OBVIOUS
      <3>2. PICK before : before = start
        OBVIOUS
      <3>3. TextLines' = TextLines /\ Raw' = Raw
        BY <2>2 DEF TextLines, Raw
      <3>4. ASSUME NEW s \in Nat, NEW f \in Nat, IsWindow(s, f), s < start',
                   s <= f, f <= TextLines, NEW x, x = WindowChunk(s, f)
            PROVE  WindowAt(x)'
        <4>1. IsWindow(s, f)'
          BY <2>2, <3>3, <3>4 DEF IsWindow, Chars, Width
        <4>2. x = WindowChunk(s, f)'
          BY <2>2, <3>4 DEF WindowChunk
        <4> QED BY <3>3, <3>4, <4>1, <4>2 DEF WindowAt
      <3>6. \A x : WindowAt(x) => WindowAt(x)'
        <4> SUFFICES ASSUME NEW x, WindowAt(x) PROVE WindowAt(x)'
          OBVIOUS
        <4>1. PICK s \in Nat, f \in Nat : /\ s < start /\ s <= f /\ f <= TextLines
                                         /\ IsWindow(s, f) /\ x = WindowChunk(s, f)
          BY DEF WindowAt
        <4>2. s < start'
          BY <2>2, <2>4, <4>1
        <4> QED BY <3>4, <4>1, <4>2
      <3>7. WindowAt(d)'
        <4>1. before < start' /\ before <= e /\ IsWindow(before, e) /\ d = WindowChunk(before, e)
              /\ before \in Nat
          BY <2>1, <2>2, <2>3, <2>4, <3>1, <3>2
        <4> QED BY <2>3, <3>4, <4>1
      <3>5. /\ Len(chunks') = Len(chunks) + 1 /\ Len(chunks) \in Nat
            /\ \A i \in 1..Len(chunks) : chunks'[i] = chunks[i]
            /\ chunks'[Len(chunks) + 1] = c
        BY <1>0, <2>1, <2>5
      <3> HIDE DEF c
      <3>8. /\ chunks'[Len(chunks) + 1] = d
            /\ \A i \in 1..Len(chunks) : chunks[i].of = text.of => WindowAt(chunks[i])
        BY <2>7, <3>1, <3>5
      <3>9. PICK n : n = chunks
        OBVIOUS
      <3>10. \A i \in 1..Len(n) : n[i].of = text.of => WindowAt(n[i])'
        BY <3>6, <3>8, <3>9
      <3>11. PICK m : m = chunks'
        OBVIOUS
      <3>12. \A i \in 1..(Len(n) + 1) : m[i] = d \/ (i \in 1..Len(n) /\ m[i] = n[i])
        BY <3>5, <3>8, <3>9, <3>11
      <3>13. \A i \in 1..(Len(n) + 1) : m[i].of = text.of => WindowAt(m[i])'
        BY <3>7, <3>10, <3>12
      <3> QED BY <2>2, <3>5, <3>9, <3>11, <3>13 DEF TextWindows, WindowAt
    <2> QED BY <1>0, <2>9, <2>10 DEF ChunkInv
  <1>6. CASE EndText
    <2>1. TextWindows'
      BY <1>6 DEF EndText, TextWindows
    <2> QED BY <1>0, <1>6, <2>1, SameChunksKeep DEF EndText, ChunkInv
  <1>7. CASE Finish
    <2>1. TextWindows'
      BY <1>7 DEF Finish, TextWindows
    <2> QED BY <1>0, <1>7, <2>1, SameChunksKeep DEF Finish, ChunkInv
  <1> QED BY <1>1, <1>2, <1>3, <1>4, <1>5, <1>6, <1>7 DEF Next

\* No chunk yet.
LEMMA ChunkInvBegins == Init => ChunkInv
  <1> SUFFICES ASSUME Init PROVE ChunkInv
    OBVIOUS
  <1>1. Inv /\ chunks = <<>>
    BY InvInit DEF Init
  <1> QED BY <1>1 DEF ChunkInv, ChunksKnown, TextWindows, FileWindows, NoneYet

-----------------------------------------------------------------------------
(* Windows advance.                                                            *)

\* Some lines have no more characters than these and others.
LEMMA FewerLinesFewerCharacters ==
    ASSUME TypeOK, NEW a \in Nat, NEW b \in Nat, NEW c \in Nat, 1 <= a, a <= b, c <= Lines(file)
    PROVE  Width(b, c) \in Nat /\ Width(a, c) \in Nat /\ Width(b, c) <= Width(a, c)
  <1> DEFINE Of(l) == {l} \X (1..file.widths[l])
             All(from) == UNION {Of(l) : l \in from..c}
  <1>1. file.widths \in Seq(Nat) /\ Lines(file) = Len(file.widths)
    BY RawTyped DEF TypeOK, Lines
  <1>2. ASSUME NEW from \in Nat, 1 <= from PROVE IsFiniteSet(All(from))
    <2> DEFINE of == [l \in from..c |-> Of(l)]
    <2>1. IsFiniteSet(from..c)
      BY <1>2, FS_Interval
    <2>2. ASSUME NEW l \in from..c PROVE IsFiniteSet(Of(l))
      <3>1. l \in 1..Len(file.widths)
        BY <1>1, <1>2
      <3>2. file.widths[l] \in Nat
        BY <1>1, <3>1
      <3> DEFINE w == file.widths[l]
      <3>3. IsFiniteSet({l})
        BY FS_Singleton
      <3>4. w \in Int /\ 1 \in Int
        BY <3>2
      <3> HIDE DEF w
      <3>5. IsFiniteSet(1..w)
        BY <3>4, FS_Interval
      <3>6. IsFiniteSet({l} \X (1..w))
        BY <3>3, <3>5, FS_Product
      <3> QED BY <3>6 DEF w
    <2>3. IsFiniteSet({of[l] : l \in from..c})
      <3>1. of \in Surjection(from..c, {of[l] : l \in from..c})
        BY DEF Surjection
      <3> HIDE DEF of
      <3> QED BY <2>1, <3>1, FS_Surjection
    <2>4. \A l \in from..c : of[l] = Of(l)
      OBVIOUS
    <2> HIDE DEF of, Of
    <2>5. {of[l] : l \in from..c} = {Of(l) : l \in from..c}
      BY <2>4
    <2>6. \A T \in {Of(l) : l \in from..c} : IsFiniteSet(T)
      BY <2>2
    <2> QED BY <2>3, <2>5, <2>6, FS_UNION
  <1>3. b..c \subseteq a..c
    OBVIOUS
  <1>4. All(b) \subseteq All(a)
    <2> HIDE DEF Of
    <2> QED BY <1>3
  <1>5. Width(b, c) = Cardinality(All(b)) /\ Width(a, c) = Cardinality(All(a))
    BY DEF Width
  <1>6. IsFiniteSet(All(a)) /\ IsFiniteSet(All(b))
    <2>1. 1 <= b
      OBVIOUS
    <2> HIDE DEF All
    <2> QED BY <1>2, <2>1
  <1> HIDE DEF All
  <1> QED BY <1>4, <1>5, <1>6, FS_Subset, FS_CardinalityType

\* A window that begins later has fewer characters up to a line.
LEMMA LaterWindowsHaveFewer ==
    ASSUME Inv, step = "window", NEW s \in Nat, NEW t \in Nat, NEW x \in Nat,
           s < t, t <= x, x <= TextLines
    PROVE  Chars(s, x) \in Nat /\ Chars(t, x) \in Nat /\ Chars(t, x) <= Chars(s, x)
  <1>1. text \in [first : Nat, last : Nat, of : Nat] /\ TypeOK
    BY DEF Inv, TypeOK
  <1>2. text.first >= 1 /\ text.last <= Lines(file) /\ Lines(file) \in Nat
    <2>1. file \in Files /\ Lines(file) \in Nat
      BY RawTyped DEF Inv, TypeOK, Lines
    <2>2. CASE Raw = <<>> /\ text = WholeFile(file)
      BY <2>1, <2>2 DEF WholeFile
    <2>3. CASE Raw # <<>> /\ next > 1 /\ text.first = Raw[next - 1].first
               /\ text.last = SplitLast(Raw[next - 1])
      <3>1. next - 1 \in 1..Len(Raw)
        BY <2>1, <2>3, RawTyped DEF Inv, Position, Raw
      <3>2. /\ Raw[next - 1].first \in Nat /\ Raw[next - 1].last \in Nat
            /\ 1 <= Raw[next - 1].first /\ Raw[next - 1].last <= Lines(file)
        BY <2>1, <3>1, RawTyped DEF Raw
      <3> QED BY <2>1, <2>3, <3>2 DEF SplitLast
    <2> QED BY <2>2, <2>3 DEF Inv, TextKnown
  <1> DEFINE a == text.first + s
             b == text.first + t
             c == text.first + x - 1
  <1>3. a \in Nat /\ b \in Nat /\ c \in Nat /\ 1 <= a /\ a <= b /\ c <= Lines(file)
    BY <1>1, <1>2 DEF TextLines
  <1>4. Width(b, c) \in Nat /\ Width(a, c) \in Nat /\ Width(b, c) <= Width(a, c)
    <2> HIDE DEF a, b, c
    <2> QED BY <1>1, <1>3, FewerLinesFewerCharacters
  <1>5. Chars(s, x) = Width(a, c) + (x - s)
    BY DEF Chars
  <1>6. Chars(t, x) = IF x = t THEN 0 ELSE Width(b, c) + (x - t)
    BY DEF Chars
  <1> HIDE DEF a, b, c
  <1> QED BY <1>4, <1>5, <1>6

\* For every overlap each window begins at least a line after the one before it, inside of
\* the text, and ends no earlier: a text of n lines gives at most n windows, so that
\* chunking returns.
THEOREM AdvancesEveryWindow == Spec => WindowsAdvance
<1>1. ChunkInv /\ [Next]_vars
        => [Window => /\ start' > start
                      /\ \A i \in DOMAIN chunks :
                           chunks[i].of = text.of => chunks[i].to <= chunks'[Len(chunks')].to]_vars
  <2> SUFFICES ASSUME ChunkInv, Window
               PROVE  /\ start' > start
                      /\ \A i \in DOMAIN chunks :
                           chunks[i].of = text.of => chunks[i].to <= chunks'[Len(chunks')].to
    OBVIOUS
  <2>1. PICK e \in start..TextLines : /\ IsWindow(start, e)
                                      /\ chunks' = Append(chunks, WindowChunk(start, e))
                                      /\ start' = NextStart(start, e)
    BY DEF Window
  <2>2. /\ start \in Nat /\ start < TextLines /\ TypeOK /\ TextLines \in Int /\ step = "window" /\ Inv
        /\ text \in [first : Nat, last : Nat, of : Nat] /\ chunks \in Seq(Chunk)
    BY DEF ChunkInv, Inv, TypeOK, Window, TextLines
  <2>3. e \in Nat /\ start + 1 <= e /\ e <= TextLines
    BY <2>1, <2>2, WindowTakes
  <2>4. start' > start
    BY <2>1, <2>2, <2>3, NextStartAdvances
  <2>5. PICK c : c = WindowChunk(start, e)
    OBVIOUS
  <2>6. c \in Chunk /\ c.to = text.first + e - 1
    BY <2>2, <2>3, <2>5 DEF WindowChunk, Chunk, Numbered, Larger
  <2>7. chunks'[Len(chunks')] = c
    BY <2>1, <2>2, <2>5, <2>6
  <2>8. ASSUME NEW i \in DOMAIN chunks, chunks[i].of = text.of
        PROVE  chunks[i].to <= c.to
    <3>1. i \in 1..Len(chunks)
      BY <2>2
    <3>2. WindowAt(chunks[i])
      BY <2>2, <2>8, <3>1 DEF ChunkInv, TextWindows
    <3>3. PICK s \in Nat, f \in Nat : /\ s < start /\ s <= f /\ f <= TextLines
                                    /\ IsWindow(s, f) /\ chunks[i] = WindowChunk(s, f)
      BY <3>2 DEF WindowAt
    <3>4. chunks[i].to = text.first + f - 1
      BY <3>3 DEF WindowChunk
    <3>5. f <= e
      <4> SUFFICES ASSUME e < f PROVE FALSE
        BY <2>3, <3>3
      <4>1. Chars(start, e) >= MaxChars
        BY <2>1, <2>2, <2>3, <3>3 DEF IsWindow
      <4>2. e \in s..(f - 1)
        BY <2>2, <2>3, <3>3
      <4>3. Chars(s, e) < MaxChars
        BY <3>3, <4>2 DEF IsWindow
      <4>4. Chars(s, e) \in Nat /\ Chars(start, e) \in Nat /\ Chars(start, e) <= Chars(s, e)
        <5>1. start <= e
          BY <2>2, <2>3
        <5> QED BY <2>2, <2>3, <3>3, <5>1, LaterWindowsHaveFewer
      <4>5. MaxChars \in Nat
        BY ChunkingAssumption DEF ChunkingAssumption
      <4> QED BY <4>1, <4>3, <4>4, <4>5
    <3> QED BY <2>2, <2>3, <2>6, <3>3, <3>4, <3>5
  <2> QED BY <2>4, <2>7, <2>8
<1>2. ChunkInv /\ [Next]_vars => ChunkInv'
  BY ChunkInvKept
<1> QED
  BY <1>1, <1>2, ChunkInvBegins, PTL DEF Spec, WindowsAdvance

-----------------------------------------------------------------------------
(* Numbers, sequences and filters.                                             *)

\* A function of an initial segment is a sequence.
LEMMA TableIsSeq ==
    ASSUME NEW n \in Nat, NEW S, NEW f \in [1..n -> S]
    PROVE  f \in Seq(S) /\ Len(f) = n /\ DOMAIN f = 1..n
  <1>1. f \in Seq(S)
    BY SeqDef
  <1> QED BY <1>1

\* The smallest of some natural numbers.
LEMMA LeastOf ==
    ASSUME NEW S \in SUBSET Nat, S # {}
    PROVE  \E n \in S : \A m \in S : n <= m
  <1> DEFINE R == {ss \in Nat \X Nat : ss[1] < ss[2]}
  <1>1. IsWellFoundedOn(R, Nat)
    BY NatLessThanWellFounded DEF OpToRel
  <1>2. \A x, y \in Nat : x < y => <<x, y>> \in R
    OBVIOUS
  <1> HIDE DEF R
  <1>3. \E x \in S : \A y \in S : ~ (<<y, x>> \in R)
    BY <1>1, WFMin
  <1>4. PICK n \in S : \A m \in S : ~ (<<m, n>> \in R)
    BY <1>3
  <1>5. ASSUME NEW m \in S PROVE n <= m
    <2>1. n \in Nat /\ m \in Nat /\ ~(m < n)
      BY <1>2, <1>4
    <2> QED BY <2>1
  <1> QED BY <1>5

\* The largest of bounded natural numbers is one of them.
LEMMA LargestOf ==
    ASSUME NEW S \in SUBSET Nat, S # {}, NEW b \in Nat, \A n \in S : n <= b
    PROVE  Max(S) \in S /\ \A n \in S : n <= Max(S)
  <1> DEFINE B == {c \in Nat : \A n \in S : n <= c}
  <1>1. PICK c \in B : \A d \in B : c <= d
    <2>1. B \in SUBSET Nat /\ B # {}
      OBVIOUS
    <2> HIDE DEF B
    <2> QED BY <2>1, LeastOf
  <1>2. c \in Nat /\ \A n \in S : n <= c
    OBVIOUS
  <1>3. c \in S
    <2> SUFFICES ASSUME c \notin S PROVE FALSE
      OBVIOUS
    <2>1. \A n \in S : n \in Nat /\ n < c
      BY <1>2
    <2>2. PICK x \in S : x \in Nat /\ x < c
      BY <2>1
    <2>3. c - 1 \in Nat /\ \A n \in S : n <= c - 1
      BY <1>2, <2>1, <2>2
    <2>4. c <= c - 1
      BY <1>1, <2>3
    <2> QED BY <1>2, <2>4
  <1>4. \E x \in S : \A y \in S : x >= y
    BY <1>2, <1>3
  <1>5. Max(S) \in S /\ \A y \in S : Max(S) >= y
    BY <1>4 DEF Max
  <1> QED BY <1>5

\* The place of rank k has it, and is one of the places ranked.
LEMMA PlacedHasRank ==
    ASSUME NEW P, IsFiniteSet(P), NEW rank \in Injection(P, 1..Cardinality(P))
    PROVE  \A k \in 1..Cardinality(P) : Placed(rank)[k] \in P /\ rank[Placed(rank)[k]] = k
  <1>1. Cardinality(P) \in Nat
    BY FS_CardinalityType
  <1>2. IsFiniteSet(1..Cardinality(P)) /\ Cardinality(1..Cardinality(P)) = Cardinality(P)
    BY <1>1, FS_Interval
  <1>3. rank \in Surjection(P, 1..Cardinality(P))
    BY <1>2, FS_Injection
  <1>4. DOMAIN rank = P
    BY DEF Injection
  <1>5. ASSUME NEW k \in 1..Cardinality(P)
        PROVE  Placed(rank)[k] \in P /\ rank[Placed(rank)[k]] = k
    <2>1. PICK i \in P : rank[i] = k
      BY <1>3 DEF Surjection
    <2>2. k \in Range(rank)
      BY <1>4, <2>1 DEF Range
    <2>3. Placed(rank)[k] = CHOOSE s \in P : k \in Range(rank) => rank[s] = k
      BY <1>4 DEF Placed, Inverse
    <2> QED BY <2>1, <2>2, <2>3
  <1> QED BY <1>5

\* Numbers are counted from 1 without gaps.
LEMMA CountsInject ==
    ASSUME NEW P \in SUBSET Nat, IsFiniteSet(P)
    PROVE  Counts(P) \in Injection(P, 1..Cardinality(P))
  <1> DEFINE Upto(i) == {j \in P : j <= i}
  <1>1. \A i \in P : /\ Upto(i) \in SUBSET P /\ IsFiniteSet(Upto(i))
                     /\ Cardinality(Upto(i)) \in Nat /\ Cardinality(Upto(i)) <= Cardinality(P)
    <2>1. \A i \in P : Upto(i) \in SUBSET P
      OBVIOUS
    <2> HIDE DEF Upto
    <2> QED BY <2>1, FS_Subset, FS_CardinalityType
  <1>2. Cardinality(P) \in Nat
    BY FS_CardinalityType
  <1>3. ASSUME NEW i \in P PROVE Cardinality(Upto(i)) # 0
    <2>1. i \in Upto(i)
      OBVIOUS
    <2> HIDE DEF Upto
    <2> QED BY <1>1, <2>1, FS_EmptySet
  <1>4. ASSUME NEW i \in P, NEW j \in P, i < j PROVE Cardinality(Upto(i)) # Cardinality(Upto(j))
    <2>1. /\ \A x \in P : x <= i => x <= j
          /\ j <= j /\ ~(j <= i)
      <3>1. i \in Nat /\ j \in Nat /\ \A x \in P : x \in Nat
        OBVIOUS
      <3> HIDE DEF Upto
      <3> QED BY <1>4, <3>1
    <2>3. Upto(i) \in SUBSET Upto(j) /\ j \in Upto(j) /\ j \notin Upto(i)
      <3>1. \A x : x \in Upto(i) => x \in Upto(j)
        BY <2>1
      <3> QED BY <2>1, <3>1
    <2> HIDE DEF Upto
    <2>2. IsFiniteSet(Upto(j))
      BY <1>1
    <2> QED BY <2>3, <2>2, FS_Subset
  <1>5. \A i \in P : Counts(P)[i] = Cardinality(Upto(i))
    BY DEF Counts
  <1>6. DOMAIN Counts(P) = P /\ Counts(P) = [i \in P |-> Cardinality(Upto(i))]
    BY DEF Counts
  <1> HIDE DEF Upto
  <1>7. Counts(P) \in [P -> 1..Cardinality(P)]
    <2>1. \A i \in P : Cardinality(Upto(i)) \in 1..Cardinality(P)
      BY <1>1, <1>2, <1>3
    <2> QED BY <1>6, <2>1
  <1>8. IsInjective(Counts(P))
    <2> SUFFICES ASSUME NEW i \in P, NEW j \in P, Counts(P)[i] = Counts(P)[j], i # j PROVE FALSE
      BY <1>6 DEF IsInjective
    <2>1. i < j \/ j < i
      OBVIOUS
    <2>2. Cardinality(Upto(i)) = Cardinality(Upto(j))
      BY <1>5
    <2> QED BY <2>1, <2>2, <1>4
  <1> QED BY <1>7, <1>8 DEF Injection

\* Picking the places P of q takes place[1], place[2], ..., and they are all of P in order.
Picks(q, P, place) ==
    /\ Cardinality(P) \in Nat
    /\ Picked(q, P) = [k \in 1..Cardinality(P) |-> q[place[k]]]
    /\ \A k \in 1..Cardinality(P) : place[k] \in P /\ Counts(P)[place[k]] = k
    /\ \A i \in P : Counts(P)[i] \in 1..Cardinality(P) /\ place[Counts(P)[i]] = i
    /\ \A k, l \in 1..Cardinality(P) : k < l => place[k] < place[l]

\* A filter keeps the elements at the places it picks, in their order.
LEMMA PickedInOrder ==
    ASSUME NEW n \in Nat, NEW q, NEW P \in SUBSET (1..n)
    PROVE  Picks(q, P, Placed(Counts(P)))
  <1>1. IsFiniteSet(1..n) /\ P \in SUBSET Nat
    BY FS_Interval
  <1>2. IsFiniteSet(P) /\ Cardinality(P) \in Nat
    BY <1>1, FS_Subset, FS_CardinalityType
  <1> DEFINE rank == Counts(P)
             m == Cardinality(P)
             place == Placed(rank)
  <1>3. rank \in Injection(P, 1..m)
    BY <1>1, <1>2, CountsInject
  <1>4. \A k \in 1..m : place[k] \in P /\ rank[place[k]] = k
    BY <1>2, <1>3, PlacedHasRank
  <1>5. Picked(q, P) = [k \in 1..m |-> q[place[k]]]
    BY DEF Picked
  <1>6. rank \in [P -> 1..m] /\ \A a, b \in P : rank[a] = rank[b] => a = b
    BY <1>3 DEF Injection, IsInjective
  <1>7. ASSUME NEW i \in P, NEW j \in P, i <= j PROVE rank[i] <= rank[j]
    <2> DEFINE A == {x \in P : x <= i}
               C == {x \in P : x <= j}
    <2>1. rank[i] = Cardinality(A) /\ rank[j] = Cardinality(C)
      BY DEF Counts
    <2>2. A \in SUBSET C /\ C \in SUBSET P
      <3>1. i \in Nat /\ j \in Nat /\ \A x \in P : x \in Nat
        BY <1>1
      <3>2. \A x \in P : x <= i => x <= j
        BY <1>7, <3>1
      <3> QED BY <3>2
    <2> HIDE DEF A, C, rank
    <2>3. IsFiniteSet(C)
      BY <1>2, <2>2, FS_Subset
    <2> QED BY <2>1, <2>2, <2>3, FS_Subset
  <1> HIDE DEF rank, m, place
  <1>8. \A i \in P : rank[i] \in 1..m /\ place[rank[i]] = i
    BY <1>4, <1>6
  <1>9. ASSUME NEW k \in 1..m, NEW l \in 1..m, k < l PROVE place[k] < place[l]
    <2> SUFFICES ASSUME ~(place[k] < place[l]) PROVE FALSE
      OBVIOUS
    <2>1. place[k] \in P /\ place[l] \in P /\ rank[place[k]] = k /\ rank[place[l]] = l
      BY <1>4
    <2>2. place[k] \in Nat /\ place[l] \in Nat
      BY <1>1, <2>1
    <2>3. place[l] <= place[k]
      BY <2>2
    <2>4. l <= k
      BY <1>7, <2>1, <2>3
    <2>5. k \in Nat /\ l \in Nat
      BY <1>2 DEF m
    <2> QED BY <1>9, <2>4, <2>5
  <1> QED BY <1>2, <1>4, <1>5, <1>8, <1>9 DEF Picks, rank, m, place

\* Division of natural numbers.
LEMMA Division ==
    ASSUME NEW x \in Nat, NEW y \in Nat \ {0}
    PROVE  x \div y \in Nat /\ (x \div y) * y <= x /\ x < (x \div y) * y + y
  BY SMTT(20)

\* Multiples of larger numbers are larger.
LEMMA Multiples ==
    ASSUME NEW b \in Nat, NEW c \in Nat, NEW y \in Nat, b < c
    PROVE  b * y + y <= c * y
  <1>1. PICK d \in Nat : c = b + 1 + d
    <2>1. c - b - 1 \in Nat /\ c = b + 1 + (c - b - 1)
      OBVIOUS
    <2> QED BY <2>1
  <1>2. c * y = b * y + y + d * y
    BY <1>1
  <1>3. d * y \in Nat /\ b * y \in Nat
    OBVIOUS
  <1> QED BY <1>2, <1>3

-----------------------------------------------------------------------------
(* Batches.                                                                    *)

\* The texts of a list are in m batches of `size', the last of which may be smaller.
Cuts(ts, m, size) ==
    /\ m \in Nat /\ size \in Nat
    /\ \A b \in 1..m : (b - 1) * size \in Nat /\ (b - 1) * size < Len(ts) /\ b * size \in Nat
    /\ Len(ts) <= m * size
    /\ Sliced(ts) = [b \in 1..m |-> SubSeq(ts, (b - 1) * size + 1,
                                         IF b * size < Len(ts) THEN b * size ELSE Len(ts))]

\* Slicing a list of texts cuts it, whatever the batch size: also into one batch, or none.
LEMMA SlicedCuts ==
    ASSUME NEW S, NEW ts \in Seq(S)
    PROVE  \E m, size \in Nat : Cuts(ts, m, size)
  <1> DEFINE n == Len(ts)
             Slice(b, size) == SubSeq(ts, (b - 1) * size + 1, IF b * size < n THEN b * size ELSE n)
  <1>0. n \in Nat /\ (ts = <<>> <=> n = 0) /\ BatchSize \in Nat
    BY FileDocumentsAssumption DEF FileDocumentsAssumption
  <1>1. CASE ts = <<>>
    <2>1. Sliced(ts) = [b \in 1..0 |-> Slice(b, 0)]
      BY <1>1 DEF Sliced
    <2>2. Cuts(ts, 0, 0)
      BY <1>0, <1>1, <2>1 DEF Cuts
    <2> QED BY <2>2
  <1>2. CASE ts # <<>> /\ (BatchSize = 0 \/ n <= BatchSize)
    <2>1. Slice(1, n) = ts
      <3>1. (1 - 1) * n + 1 = 1 /\ 1 * n = n
        BY <1>0
      <3>2. SubSeq(ts, 1, n) = ts
        OBVIOUS
      <3> QED BY <3>1, <3>2
    <2>2. Sliced(ts) = <<ts>>
      BY <1>2 DEF Sliced
    <2>3. <<ts>> = [b \in 1..1 |-> Slice(b, n)]
      <3> HIDE DEF Slice, n
      <3>1. [b \in 1..1 |-> Slice(b, n)] = [b \in 1..1 |-> ts]
        BY <2>1
      <3> QED BY <3>1
    <2>4. \A b \in 1..1 : (b - 1) * n = 0 /\ b * n = n
      BY <1>0
    <2>5. n <= 1 * n /\ 0 < n
      BY <1>0, <1>2
    <2>7. Sliced(ts) = [b \in 1..1 |-> Slice(b, n)]
      <3> HIDE DEF Slice, n
      <3> QED BY <2>2, <2>3
    <2>6. Cuts(ts, 1, n)
      <3>1. \A b \in 1..1 : (b - 1) * n \in Nat /\ (b - 1) * n < n /\ b * n \in Nat
        BY <1>0, <2>4, <2>5
      <3> QED BY <1>0, <2>5, <2>7, <3>1 DEF Cuts
    <2> QED BY <1>0, <2>6
  <1>3. CASE ts # <<>> /\ BatchSize # 0 /\ BatchSize < n
    <2> DEFINE m == (n + BatchSize - 1) \div BatchSize
    <2>1. Sliced(ts) = [b \in 1..m |-> Slice(b, BatchSize)]
      <3>1. ~(BatchSize = 0 \/ n <= BatchSize)
        BY <1>0, <1>3
      <3> QED BY <1>3, <3>1 DEF Sliced
    <2>2. /\ m \in Nat /\ m * BatchSize <= n + BatchSize - 1
          /\ n + BatchSize - 1 < m * BatchSize + BatchSize
      <3>1. n + BatchSize - 1 \in Nat /\ BatchSize \in Nat \ {0}
        BY <1>0, <1>3
      <3> QED BY <3>1, Division
    <2> HIDE DEF m
    <2>3. m * BatchSize \in Nat
      BY <1>0, <2>2
    <2>4. n <= m * BatchSize
      BY <1>0, <2>2, <2>3
    <2>5. ASSUME NEW b \in 1..m
          PROVE  (b - 1) * BatchSize \in Nat /\ (b - 1) * BatchSize < n /\ b * BatchSize \in Nat
      <3>1. b - 1 \in Nat /\ m \in Nat /\ b - 1 < m
        BY <2>2
      <3>2. (b - 1) * BatchSize + BatchSize <= m * BatchSize
        BY <1>0, <3>1, Multiples
      <3>3. (b - 1) * BatchSize \in Nat /\ b * BatchSize \in Nat
        BY <1>0, <3>1
      <3> QED BY <1>0, <2>2, <2>3, <3>2, <3>3
    <2>6. Cuts(ts, m, BatchSize)
      BY <1>0, <2>1, <2>2, <2>4, <2>5 DEF Cuts
    <2> QED BY <1>0, <2>2, <2>6
  <1> QED BY <1>0, <1>1, <1>2, <1>3

\* Where texts are in batches, and the order they are asked for in.
TextPlaces(T) == UNION {{b} \X DOMAIN T[b] : b \in DOMAIN T}
Before(s, r) == s[1] < r[1] \/ (s[1] = r[1] /\ s[2] <= r[2])

\* A place of a text is a batch and a place in it.
LEMMA PlacePairs ==
    ASSUME NEW T
    PROVE  /\ \A b \in DOMAIN T : \A i \in DOMAIN T[b] : <<b, i>> \in TextPlaces(T)
           /\ \A r \in TextPlaces(T) : \E b \in DOMAIN T : \E i \in DOMAIN T[b] :
                r = <<b, i>> /\ r[1] = b /\ r[2] = i
  BY DEF TextPlaces

\* The places of the texts, in their order, are those of the list that was sliced.
Tiles(ts, flat) ==
    /\ \E m \in Nat : DOMAIN Sliced(ts) = 1..m
    /\ \A b \in DOMAIN Sliced(ts) : \E k \in Nat : DOMAIN Sliced(ts)[b] = 1..k
    /\ DOMAIN flat = TextPlaces(Sliced(ts))
    /\ \A r \in TextPlaces(Sliced(ts)) : flat[r] \in 1..Len(ts) /\ Sliced(ts)[r[1]][r[2]] = ts[flat[r]]
    /\ \A k \in 1..Len(ts) : \E r \in TextPlaces(Sliced(ts)) : flat[r] = k
    /\ \A r, s \in TextPlaces(Sliced(ts)) : Before(s, r) <=> flat[s] <= flat[r]
    /\ \A r, s \in TextPlaces(Sliced(ts)) : flat[s] = flat[r] => s = r

\* The batches hold every text once, and in the order of the list.
LEMMA SlicesTile ==
    ASSUME NEW S, NEW ts \in Seq(S)
    PROVE  (\E flat : Tiles(ts, flat)) /\ \A b \in DOMAIN Sliced(ts) : Sliced(ts)[b] \in Seq(S)
  <1> DEFINE n == Len(ts)
             T == Sliced(ts)
  <1>0. n \in Nat
    OBVIOUS
  <1>1. PICK m \in Nat, size \in Nat : Cuts(ts, m, size)
    BY SlicedCuts
  <1> DEFINE base == [b \in 1..(m + 1) |-> (b - 1) * size]
  <1>2. \A b \in 1..m : /\ base[b] \in Nat /\ base[b] < n /\ b + 1 \in 1..(m + 1)
                        /\ base[b + 1] = base[b] + size /\ base[b + 1] = b * size
    <2> SUFFICES ASSUME NEW b \in 1..m
                 PROVE  /\ base[b] \in Nat /\ base[b] < n /\ b + 1 \in 1..(m + 1)
                        /\ base[b + 1] = base[b] + size /\ base[b + 1] = b * size
      OBVIOUS
    <2>1. b + 1 \in 1..(m + 1) /\ b \in 1..(m + 1) /\ (b + 1) - 1 = b
      OBVIOUS
    <2>2. base[b] = (b - 1) * size /\ base[b + 1] = b * size
      BY <2>1
    <2>3. b * size = (b - 1) * size + size
      OBVIOUS
    <2> QED BY <1>1, <2>1, <2>2, <2>3 DEF Cuts
  <1>3. \A b, c \in 1..m : b < c => base[b] + size <= base[c]
    <2> SUFFICES ASSUME NEW b \in 1..m, NEW c \in 1..m, b < c PROVE base[b] + size <= base[c]
      OBVIOUS
    <2>1. b - 1 \in Nat /\ c - 1 \in Nat /\ b - 1 < c - 1 /\ b \in 1..(m + 1) /\ c \in 1..(m + 1)
      OBVIOUS
    <2>2. (b - 1) * size + size <= (c - 1) * size
      BY <2>1, Multiples
    <2> QED BY <2>1, <2>2
  <1>4. m > 0 => n <= base[m + 1] /\ base[1] = 0
    <2>1. m + 1 \in 1..(m + 1) /\ (m + 1) - 1 = m /\ 1 \in 1..(m + 1) /\ (1 - 1) * size = 0
      OBVIOUS
    <2> QED BY <1>1, <2>1 DEF Cuts
  <1>5. n > 0 => m > 0
    <2>1. 0 * size = 0
      OBVIOUS
    <2> QED BY <1>0, <1>1, <2>1 DEF Cuts
  <1> DEFINE last(b) == IF base[b + 1] < n THEN base[b + 1] ELSE n
  <1>6. T = [b \in 1..m |-> SubSeq(ts, base[b] + 1, last(b))]
    <2>1. T = [b \in 1..m |-> SubSeq(ts, (b - 1) * size + 1, IF b * size < n THEN b * size ELSE n)]
      BY <1>1 DEF Cuts
    <2>2. \A b \in 1..m : base[b] = (b - 1) * size /\ base[b + 1] = b * size
      BY <1>2
    <2> HIDE DEF base, T, n
    <2> QED BY <2>1, <2>2
  <1> HIDE DEF base, n
  <1>7. ASSUME NEW b \in 1..m
        PROVE  /\ T[b] \in Seq(S)
               /\ last(b) - base[b] \in Nat /\ last(b) - base[b] <= size
               /\ DOMAIN T[b] = 1..(last(b) - base[b])
               /\ \A i \in 1..(last(b) - base[b]) : base[b] + i \in 1..n /\ T[b][i] = ts[base[b] + i]
    <2>1. /\ base[b] \in Nat /\ base[b] < n /\ base[b + 1] = base[b] + size
      BY <1>2
    <2>2. /\ last(b) \in Nat /\ base[b] <= last(b) /\ last(b) <= n /\ last(b) <= base[b] + size
      BY <1>0, <2>1
    <2>3. T[b] = SubSeq(ts, base[b] + 1, last(b))
      BY <1>6
    <2> HIDE DEF last, T
    <2>4. PICK a \in Int, e \in Int : a = base[b] + 1 /\ e = last(b)
      BY <2>1, <2>2
    <2>5. /\ SubSeq(ts, a, e) \in Seq(S)
          /\ Len(SubSeq(ts, a, e)) = IF a <= e THEN e - a + 1 ELSE 0
          /\ \A i \in 1..(e - a + 1) : SubSeq(ts, a, e)[i] = ts[a + i - 1]
      <3>1. \A i \in a..e : i \in 1..n
        BY <1>0, <2>1, <2>2, <2>4
      <3>2. \A i \in a..e : ts[i] \in S
        BY <3>1 DEF n
      <3> QED BY <3>2, SubSeqProperties
    <2>6. /\ SubSeq(ts, a, e) \in Seq(S) /\ Len(SubSeq(ts, a, e)) = last(b) - base[b]
          /\ \A i \in 1..(last(b) - base[b]) : SubSeq(ts, a, e)[i] = ts[base[b] + i]
      <3>1. e - a + 1 = last(b) - base[b] /\ (~(a <= e) => last(b) - base[b] = 0)
        BY <2>1, <2>2, <2>4
      <3>2. \A i \in 1..(last(b) - base[b]) : a + i - 1 = base[b] + i
        BY <2>1, <2>2, <2>4
      <3> QED BY <2>5, <3>1, <3>2
    <2>8. T[b] = SubSeq(ts, a, e)
      BY <2>3, <2>4
    <2>7. \A i \in 1..(last(b) - base[b]) : base[b] + i \in 1..n
      BY <1>0, <2>1, <2>2
    <2> QED BY <2>1, <2>2, <2>6, <2>7, <2>8
  <1> DEFINE flat == [r \in TextPlaces(T) |-> base[r[1]] + r[2]]
  <1>8. DOMAIN T = 1..m
    BY <1>6
  <1> HIDE DEF T, last
  <1>9. ASSUME NEW r \in TextPlaces(T)
        PROVE  /\ r[1] \in 1..m /\ r[2] \in 1..(last(r[1]) - base[r[1]]) /\ r = <<r[1], r[2]>>
               /\ r[2] \in Nat /\ 1 <= r[2] /\ r[2] <= size
               /\ base[r[1]] \in Nat /\ flat[r] = base[r[1]] + r[2]
               /\ flat[r] \in 1..n /\ T[r[1]][r[2]] = ts[flat[r]]
    <2>1. PICK b \in DOMAIN T, i \in Nat : i \in DOMAIN T[b] /\ r = <<b, i>> /\ r[1] = b /\ r[2] = i
      <3>1. PICK b \in DOMAIN T : \E i \in DOMAIN T[b] : r = <<b, i>> /\ r[1] = b /\ r[2] = i
        BY PlacePairs
      <3>2. DOMAIN T[b] \subseteq Nat
        BY <1>7, <1>8
      <3> QED BY <3>1, <3>2
    <2>2. b \in 1..m /\ base[b] \in Nat
      BY <1>2, <1>8, <2>1
    <2>3. i \in 1..(last(b) - base[b]) /\ last(b) - base[b] \in Nat /\ last(b) - base[b] <= size
          /\ base[b] + i \in 1..n /\ T[b][i] = ts[base[b] + i]
      BY <1>7, <2>1, <2>2
    <2> QED BY <2>1, <2>2, <2>3
  <1>10. ASSUME NEW k \in 1..n PROVE \E r \in TextPlaces(T) : flat[r] = k
    <2> DEFINE Ends == {b \in 1..m : k <= base[b + 1]}
    <2>1. m > 0 /\ k \in Nat /\ k > 0
      BY <1>0, <1>5
    <2>2. m \in Ends
      <3>1. m \in 1..m
        BY <2>1
      <3>2. base[m] \in Nat /\ base[m + 1] = base[m] + size
        BY <1>2, <3>1
      <3> QED BY <1>0, <1>4, <2>1, <3>1, <3>2
    <2>3. PICK b \in Ends : \A c \in Ends : b <= c
      <3>1. Ends \in SUBSET Nat
        OBVIOUS
      <3>2. Ends # {}
        BY <2>2
      <3> HIDE DEF Ends
      <3> QED BY <3>1, <3>2, LeastOf
    <2>4. b \in 1..m /\ k <= base[b + 1] /\ base[b] \in Nat /\ base[b + 1] \in Nat
      <3>1. b \in 1..m /\ k <= base[b + 1]
        OBVIOUS
      <3>2. base[b] \in Nat /\ base[b + 1] = base[b] + size
        BY <1>2, <3>1
      <3> QED BY <3>1, <3>2
    <2>5. base[b] < k
      <3>1. CASE b = 1
        BY <1>4, <2>1, <2>4, <3>1
      <3>2. CASE b # 1
        <4>1. b - 1 \in 1..m /\ (b - 1) + 1 = b /\ ~(b <= b - 1)
          BY <2>4, <3>2
        <4>2. b - 1 \notin Ends
          BY <2>3, <4>1
        <4> QED BY <2>1, <2>4, <4>1, <4>2
      <3> QED BY <3>1, <3>2
    <2> DEFINE i == k - base[b]
    <2>6. i \in 1..(last(b) - base[b])
      BY <1>0, <2>1, <2>4, <2>5 DEF last
    <2>7. <<b, i>> \in TextPlaces(T)
      <3>1. b \in DOMAIN T /\ i \in DOMAIN T[b]
        BY <1>7, <1>8, <2>4, <2>6
      <3> HIDE DEF i
      <3> QED BY <3>1, PlacePairs
    <2>8. flat[<<b, i>>] = base[b] + i
      BY <1>9, <2>7
    <2>9. base[b] + i = k
      BY <2>1, <2>4
    <2> HIDE DEF flat, i
    <2> QED BY <2>7, <2>8, <2>9
  <1>11. ASSUME NEW r \in TextPlaces(T), NEW s \in TextPlaces(T)
         PROVE  (Before(s, r) <=> flat[s] <= flat[r]) /\ (flat[s] = flat[r] => s = r)
    <2>1. PICK b \in 1..m, i \in Nat : r[1] = b /\ r[2] = i /\ r = <<b, i>> /\ base[b] \in Nat
             /\ flat[r] = base[b] + i /\ 1 <= i /\ i <= size
      BY <1>9
    <2>2. PICK c \in 1..m, j \in Nat : s[1] = c /\ s[2] = j /\ s = <<c, j>> /\ base[c] \in Nat
             /\ flat[s] = base[c] + j /\ 1 <= j /\ j <= size
      BY <1>9
    <2> HIDE DEF flat
    <2>3. CASE b = c
      BY <2>1, <2>2, <2>3 DEF Before
    <2>4. CASE b < c
      <3>1. base[b] + size <= base[c]
        BY <1>3, <2>4
      <3>2. flat[r] < flat[s] /\ ~(flat[s] <= flat[r])
        BY <2>1, <2>2, <3>1
      <3>3. ~(c < b) /\ c # b
        BY <2>4
      <3> QED BY <2>1, <2>2, <3>2, <3>3 DEF Before
    <2>5. CASE c < b
      <3>1. base[c] + size <= base[b]
        BY <1>3, <2>5
      <3>2. flat[s] < flat[r] /\ flat[s] <= flat[r]
        BY <2>1, <2>2, <3>1
      <3> QED BY <2>1, <2>2, <2>5, <3>2 DEF Before
    <2> QED BY <2>3, <2>4, <2>5
  <1>12. \A b \in DOMAIN T : \E k \in Nat : DOMAIN T[b] = 1..k
    BY <1>7, <1>8
  <1>13. DOMAIN flat = TextPlaces(T)
    OBVIOUS
  <1> HIDE DEF flat
  <1>14. Tiles(ts, flat)
    BY <1>8, <1>9, <1>10, <1>11, <1>12, <1>13 DEF Tiles, T, n
  <1>15. \A b \in DOMAIN T : T[b] \in Seq(S)
    BY <1>7, <1>8
  <1> QED BY <1>14, <1>15 DEF T

-----------------------------------------------------------------------------
(* Documents.                                                                  *)

\* The chunks that become documents, and which of them becomes the first, the second ...
KeptPlaces == {i \in DOMAIN chunks : Id(chunks[i]) \notin Dropped(chunks)}
Place == Placed(Counts(KeptPlaces))

\* The document of a chunk, whether it has its vector yet or not.
IsDoc(d, c) ==
    /\ d = [id |-> Id(c), text |-> Text(c), parent |-> Parent(chunks, c), class |-> IsClass(c),
            vector |-> d.vector]
    /\ d.vector = NoVector \/ VectorOf(d.vector, Text(c))

Built ==
    stage # "cut" =>
      /\ step = "done"
      /\ docs = [k \in 1..Cardinality(KeptPlaces) |-> docs[k]]
      /\ \A k \in 1..Cardinality(KeptPlaces) : IsDoc(docs[k], chunks[Place[k]])
      /\ symbols = SymbolsOf(chunks) /\ edges = EdgesOf(chunks)

\* Vectors for all of a batch's texts.
Answers(v, ts) ==
    DOMAIN v = DOMAIN ts /\ \A i \in DOMAIN ts : VectorOf(v[i], ts[i])

\* A batch on its way, and how it ended.
Served(x, ts) ==
    /\ x = [state |-> x.state, texts |-> ts, tries |-> x.tries, vectors |-> x.vectors]
    /\ x.tries \in Nat
    /\ \/ x.state \in {"queued", "sent", "refused"}
       \/ x.state = "raised" /\ x.tries = Attempts
       \/ x.state = "done" /\ Answers(x.vectors, ts)
       \/ x.state = "done" /\ \E m \in Nat : /\ m < Len(ts) /\ Len(x.vectors) = m
                                            /\ DOMAIN x.vectors = 1..m

Batched ==
    stage # "cut" =>
      /\ batches = [b \in DOMAIN Sliced(Fresh(docs)) |-> batches[b]]
      /\ \A b \in DOMAIN Sliced(Fresh(docs)) : Served(batches[b], Sliced(Fresh(docs))[b])

\* What a stored chunk was made of: a chunk of the file, whose parent is that of a class.
Filed(d) ==
    \E c : /\ Known(file, c)
           /\ d.id = Id(c) /\ d.text.lines = <<c.from, c.to>> /\ d.class = IsClass(c)
           /\ \/ d.parent = NoId
              \/ ParentNames(c) # <<>>
                 /\ \E a : /\ Known(file, a) /\ IsClass(a)
                           /\ Name(a) = ParentNames(c)[1] /\ d.parent = Id(a)

StoredFiled == VectorsMatchText /\ \A d \in stored.chunks : Filed(d)

\* Requests are on their way only while the file waits for them.
Quiet ==
    /\ stage = "cut" => batches = <<>>
    /\ stage \in {"stored", "failed"} => AllSettled

DocInv ==
    /\ ChunkInv
    /\ stage \in {"cut", "embed", "stored", "failed"}
    /\ Built /\ Batched /\ Quiet /\ StoredFiled
    /\ LinksResolve /\ IndexLosesOnlyPieces /\ FailureHasCause

\* A vector stays the answer to its text.
LEMMA VectorsStay ==
    ASSUME shared => shared'
    PROVE  \A v, t : VectorOf(v, t) => VectorOf(v, t)'
  BY DEF VectorOf

\* What is said of chunks does not change as long as the chunks do not.
LEMMA SameFileSaysTheSame ==
    ASSUME file' = file
    PROVE  \A c : /\ Name(c)' = Name(c) /\ ParentNames(c)' = ParentNames(c)
                  /\ IsClass(c)' = IsClass(c) /\ Id(c)' = Id(c) /\ Secret(c)' = Secret(c)
  <1> SUFFICES ASSUME NEW c
               PROVE  /\ Name(c)' = Name(c) /\ ParentNames(c)' = ParentNames(c)
                      /\ IsClass(c)' = IsClass(c) /\ Id(c)' = Id(c) /\ Secret(c)' = Secret(c)
    OBVIOUS
  <1>1. Name(c)' = Name(c) /\ ParentNames(c)' = ParentNames(c) /\ IsClass(c)' = IsClass(c)
    BY DEF Name, ParentNames, IsClass, Decl
  <1>2. Secret(c)' = Secret(c)
    BY DEF Secret
  <1>3. Id(c)' = Id(c)
    BY DEF Id, Name, Decl
  <1> QED BY <1>1, <1>2, <1>3

\* Documents stay those of the chunks in steps that change neither.
LEMMA SameChunksSameDocs ==
    ASSUME UNCHANGED <<vars, header, skips, docs, symbols, edges>>, Built, stage # "cut",
           shared => shared'
    PROVE  Built'
  <1>0. file' = file /\ chunks' = chunks /\ header' = header /\ skips' = skips /\ step' = step
        /\ docs' = docs /\ symbols' = symbols /\ edges' = edges
    BY DEF vars
  <1>1. Dropped(chunks)' = Dropped(chunks)
    BY <1>0 DEF Dropped, Id, Name, Decl, Secret
  <1>2. KeptPlaces' = KeptPlaces
    BY <1>0, <1>1 DEF KeptPlaces, Id, Name, Decl
  <1>3. Place' = Place
    BY <1>2 DEF Place, Placed, Counts
  <1>4. SymbolsOf(chunks)' = SymbolsOf(chunks)
    BY <1>0, <1>1 DEF SymbolsOf, DroppedFrom, Id, Name, Decl, ParentNames
  <1>5. EdgesOf(chunks)' = EdgesOf(chunks)
    BY <1>0, <1>1 DEF EdgesOf, DroppedFrom, Id, Name, Decl
  <1>6. \A c : Parent(chunks, c)' = Parent(chunks, c)
    BY <1>0 DEF Parent, IsClass, ParentNames, Id, Name, Decl
  <1>7. \A c : Text(c)' = Text(c)
    BY <1>0 DEF Text, Id, Name, Decl, ParentNames, Secret
  <1>8. \A d, c : IsDoc(d, c) => IsDoc(d, c)'
    BY <1>0, <1>6, <1>7, SameFileSaysTheSame, VectorsStay DEF IsDoc
  <1>9. PICK cs, pl, ps : cs = chunks /\ pl = Place /\ ps = KeptPlaces
    OBVIOUS
  <1>10. \A k \in 1..Cardinality(ps) : IsDoc(docs[k], cs[pl[k]])
    BY <1>9 DEF Built
  <1>11. PICK ds : ds = docs
    OBVIOUS
  <1>12. \A k \in 1..Cardinality(ps) : IsDoc(ds[k], cs[pl[k]])'
    BY <1>8, <1>10, <1>11
  <1>13. \A k \in 1..Cardinality(KeptPlaces') : IsDoc(docs[k], chunks[Place[k]])'
    BY <1>0, <1>2, <1>3, <1>9, <1>11, <1>12 DEF IsDoc
  <1> QED BY <1>0, <1>2, <1>4, <1>5, <1>13 DEF Built

\* A batch stays what it is.
LEMMA ServedStays ==
    ASSUME shared => shared'
    PROVE  \A x, ts : Served(x, ts) => Served(x, ts)'
  <1>1. \A v, ts : Answers(v, ts) => Answers(v, ts)'
    BY VectorsStay DEF Answers
  <1> QED BY <1>1 DEF Served, Attempts, Larger

\* Requests stay what they are in steps that change neither them nor the documents.
LEMMA SameBatchesServed ==
    ASSUME UNCHANGED <<docs, batches>>, Batched, stage # "cut", shared => shared'
    PROVE  Batched'
  <1>1. PICK T, bs : T = Sliced(Fresh(docs)) /\ bs = batches
    OBVIOUS
  <1>2. bs = [b \in DOMAIN T |-> bs[b]] /\ \A b \in DOMAIN T : Served(bs[b], T[b])
    BY <1>1 DEF Batched
  <1>3. \A b \in DOMAIN T : Served(bs[b], T[b])'
    BY <1>2, ServedStays
  <1>4. (Sliced(Fresh(docs)))' = T /\ batches' = bs
    BY <1>1
  <1> QED BY <1>2, <1>3, <1>4 DEF Batched, Served, Answers, VectorOf, Attempts, Larger

\* A stored document stays what it was made of: the file is the same.
LEMMA FiledStays ==
    ASSUME file' = file
    PROVE  \A d : Filed(d) => Filed(d)'
  <1> SUFFICES ASSUME NEW d, Filed(d) PROVE Filed(d)'
    OBVIOUS
  <1>1. PICK c : /\ Known(file, c)
                 /\ d.id = Id(c) /\ d.text.lines = <<c.from, c.to>> /\ d.class = IsClass(c)
                 /\ \/ d.parent = NoId
                    \/ ParentNames(c) # <<>>
                       /\ \E a : /\ Known(file, a) /\ IsClass(a)
                                 /\ Name(a) = ParentNames(c)[1] /\ d.parent = Id(a)
    BY DEF Filed
  <1> QED BY <1>1, SameFileSaysTheSame DEF Filed, NoId

\* What is stored stays right as long as it is stored.
LEMMA StoredStays ==
    ASSUME StoredFiled, stored' = stored, file' = file, shared => shared'
    PROVE  StoredFiled'
  BY FiledStays, VectorsStay DEF StoredFiled, VectorsMatchText

\* In the chunker's steps nothing of the documents changes.
LEMMA CutKeeps == DocInv /\ Cut => DocInv'
  <1> SUFFICES ASSUME DocInv, Cut PROVE DocInv'
    OBVIOUS
  <1>1. stage = "cut" /\ stage' = "cut" /\ stored' = stored /\ shared' = shared
    BY DEF Cut, docVars
  <1>5. batches' = batches
    BY DEF Cut, docVars, fileVars
  <1>2. ChunkInv'
    BY ChunkInvKept DEF Cut, DocInv
  <1>3. file' = file
    BY DEF Cut, Next, Extract, Keep, Split, Window, EndText, Finish
  <1>4. StoredFiled'
    BY <1>1, <1>3, StoredStays DEF DocInv
  <1> QED BY <1>1, <1>2, <1>4, <1>5
          DEF DocInv, Built, Batched, Quiet, LinksResolve, IndexLosesOnlyPieces, FailureHasCause

\* The chunker may begin anew at any time.
LEMMA ChunkingBeginsAgain == ASSUME ChunkingAssumption, FileDocumentsAssumption PROVE Init' => ChunkInv'
  BY ChunkInvBegins, PTL

\* When the file is indexed again, the index is still what it was.
LEMMA AgainKeeps == DocInv /\ Again => DocInv'
  <1> SUFFICES ASSUME DocInv, Again PROVE DocInv'
    OBVIOUS
  <1>1. stage' = "cut" /\ stored' = stored /\ file' = file /\ overlap' = overlap /\ batches' = <<>>
        /\ shared' = shared
    BY DEF Again
  <1>2. ChunkInv'
    <2>1. file \in Files /\ overlap \in Overlaps
      BY DEF DocInv, ChunkInv, Inv, TypeOK
    <2>2. Init'
      BY <1>1, <2>1 DEF Again, Init, NoText
    <2> QED BY <2>2, ChunkingBeginsAgain, ChunkingAssumption, FileDocumentsAssumption
  <1>3. StoredFiled'
    BY <1>1, StoredStays DEF DocInv
  <1> QED BY <1>1, <1>2, <1>3
          DEF DocInv, Built, Batched, Quiet, LinksResolve, IndexLosesOnlyPieces, FailureHasCause

-----------------------------------------------------------------------------
(* From the chunks to the requests.                                            *)

\* The kept chunks, in order.
LEMMA Kept ==
    ASSUME DocInv
    PROVE  /\ Picks(chunks, KeptPlaces, Place) /\ KeptPlaces \in SUBSET (1..Len(chunks))
           /\ chunks \in Seq(Chunk) /\ Len(chunks) \in Nat
  <1>1. chunks \in Seq(Chunk) /\ Len(chunks) \in Nat /\ DOMAIN chunks = 1..Len(chunks)
    BY ChunkNumbers DEF DocInv, ChunkInv, Inv, TypeOK
  <1>2. KeptPlaces \in SUBSET (1..Len(chunks))
    BY <1>1 DEF KeptPlaces
  <1> QED BY <1>1, <1>2, PickedInOrder DEF Place

\* A new document says of its chunk what it should, and takes over only a vector of its text.
LEMMA DocIsDoc ==
    ASSUME StoredFiled, NEW c
    PROVE  IsDoc(Doc(chunks, c), c)
  <1> DEFINE v == Doc(chunks, c).vector
  <1>1. Doc(chunks, c) = [id |-> Id(c), text |-> Text(c), parent |-> Parent(chunks, c),
                          class |-> IsClass(c), vector |-> v]
    BY DEF Doc
  <1>2. v = NoVector \/ VectorOf(v, Text(c))
    <2>1. CASE \E d \in stored.chunks : Reusable(d, c)
      <3>1. PICK d \in stored.chunks : Reusable(d, c) /\ v = d.vector
        BY <2>1 DEF Doc
      <3> QED BY <3>1 DEF StoredFiled, VectorsMatchText, Reusable
    <2>2. CASE ~\E d \in stored.chunks : Reusable(d, c)
      BY <2>2 DEF Doc
    <2> QED BY <2>1, <2>2
  <1> HIDE DEF v
  <1> QED BY <1>1, <1>2 DEF IsDoc, v

\* Every kept chunk gets its document, and every text without a vector its request.
LEMMA BuildKeeps == DocInv /\ Build => DocInv'
  <1> SUFFICES ASSUME DocInv, Build PROVE DocInv'
    OBVIOUS
  <1> DEFINE kept  == Picked(chunks, KeptPlaces)
             made  == [i \in DOMAIN kept |-> Doc(chunks, kept[i])]
             texts == Sliced(Fresh(made))
             n     == Cardinality(KeptPlaces)
  <1>1. /\ stage = "cut" /\ step = "done" /\ stage' = "embed" /\ UNCHANGED <<vars, header, skips, stored, shared>>
        /\ symbols' = SymbolsOf(chunks) /\ edges' = EdgesOf(chunks)
    BY DEF Build
  <1>2. /\ docs' = made
        /\ batches' = [b \in DOMAIN texts |-> Batch(texts[b])]
    BY DEF Build, KeptPlaces
  <1>3. file' = file /\ chunks' = chunks /\ header' = header /\ skips' = skips /\ step' = step
    BY <1>1 DEF vars
  <1>4. DOMAIN kept = 1..n /\ \A k \in 1..n : kept[k] = chunks[Place[k]]
    BY Kept DEF Picks
  <1> HIDE DEF kept
  <1>5. PICK ds : ds = made
    OBVIOUS
  <1>6. ds = [k \in 1..n |-> ds[k]] /\ \A k \in 1..n : IsDoc(ds[k], chunks[Place[k]])
    BY <1>4, <1>5, DocIsDoc DEF DocInv
  <1>7. Built'
    <2>1. Dropped(chunks)' = Dropped(chunks)
      BY <1>3 DEF Dropped, Id, Name, Decl, Secret
    <2>2. KeptPlaces' = KeptPlaces
      BY <1>3, <2>1 DEF KeptPlaces, Id, Name, Decl
    <2>3. Place' = Place
      BY <2>2 DEF Place
    <2>4. SymbolsOf(chunks)' = SymbolsOf(chunks)
      BY <1>3, <2>1 DEF SymbolsOf, DroppedFrom, Id, Name, Decl, ParentNames
    <2>5. EdgesOf(chunks)' = EdgesOf(chunks)
      BY <1>3, <2>1 DEF EdgesOf, DroppedFrom, Id, Name, Decl
    <2>6. \A c : Parent(chunks, c)' = Parent(chunks, c)
      BY <1>3 DEF Parent, IsClass, ParentNames, Id, Name, Decl
    <2>7. \A c : Text(c)' = Text(c)
      BY <1>3 DEF Text, Id, Name, Decl, ParentNames, Secret
    <2>8. \A d, c : IsDoc(d, c) => IsDoc(d, c)'
      BY <1>1, <1>3, <2>6, <2>7, SameFileSaysTheSame, VectorsStay DEF IsDoc
    <2>9. PICK cs, pl, ps : cs = chunks /\ pl = Place /\ ps = KeptPlaces
      OBVIOUS
    <2>10. \A k \in 1..Cardinality(ps) : IsDoc(ds[k], cs[pl[k]])'
      BY <1>6, <2>8, <2>9
    <2>11. \A k \in 1..Cardinality(KeptPlaces') : IsDoc(docs[k], chunks[Place[k]])'
      BY <1>2, <1>3, <1>5, <2>2, <2>3, <2>9, <2>10 DEF IsDoc
    <2>12. docs' = [k \in 1..Cardinality(KeptPlaces') |-> docs'[k]]
      BY <1>2, <1>5, <1>6, <2>2
    <2> QED BY <1>1, <1>3, <2>4, <2>5, <2>11, <2>12 DEF Built
  <1>8. Batched'
    <2> HIDE DEF made
    <2>1. PICK ts : ts = texts
      OBVIOUS
    <2>2. (Sliced(Fresh(docs)))' = ts
      BY <1>2, <2>1
    <2>3. \A t : Served(Batch(t), t)
      BY DEF Served, Batch
    <2>4. batches' = [b \in DOMAIN ts |-> Batch(ts[b])]
      BY <1>2, <2>1
    <2> HIDE DEF texts
    <2>7. PICK bs : bs = batches'
      OBVIOUS
    <2>5. \A b \in DOMAIN ts : Served(bs[b], ts[b])
      BY <2>3, <2>4, <2>7
    <2>8. \A b \in DOMAIN ts : Served(bs[b], ts[b])'
      BY <1>1, <2>5, ServedStays
    <2>6. bs = [b \in DOMAIN ts |-> bs[b]]
      BY <2>4, <2>7
    <2> QED BY <2>2, <2>6, <2>7, <2>8 DEF Batched, Served, Answers, VectorOf, Attempts, Larger
  <1>9. StoredFiled'
    BY <1>1, <1>3, StoredStays DEF DocInv
  <1>10. ChunkInv'
    BY <1>1, ChunkInvKept DEF DocInv
  <1> QED BY <1>1, <1>7, <1>8, <1>9, <1>10 DEF DocInv, Quiet, LinksResolve, IndexLosesOnlyPieces, FailureHasCause

\* What a batch is left with, whatever its answer.
LEMMA RemovedOne ==
    ASSUME NEW S, NEW q \in Seq(S), NEW i \in DOMAIN q
    PROVE  \E m \in Nat : /\ m < Len(q) /\ Len(RemoveAt(q, i)) = m /\ DOMAIN RemoveAt(q, i) = 1..m
  <1>1. Len(q) \in Nat /\ i \in 1..Len(q)
    OBVIOUS
  <1> DEFINE a == SubSeq(q, 1, i - 1)
             b == SubSeq(q, i + 1, Len(q))
  <1>2. a \in Seq(S) /\ Len(a) = i - 1
    BY <1>1
  <1>3. b \in Seq(S) /\ Len(b) = Len(q) - i
    <2>1. i + 1 \in Int /\ Len(q) \in Int /\ \A j \in (i + 1)..Len(q) : q[j] \in S
      BY <1>1
    <2>2. b \in Seq(S) /\ Len(b) = IF i + 1 <= Len(q) THEN Len(q) - (i + 1) + 1 ELSE 0
      BY <2>1, SubSeqProperties
    <2> QED BY <1>1, <2>2
  <1>4. RemoveAt(q, i) = a \o b
    BY DEF RemoveAt
  <1> HIDE DEF a, b
  <1>5. a \o b \in Seq(S) /\ Len(a \o b) = Len(q) - 1
    BY <1>1, <1>2, <1>3
  <1>6. Len(q) - 1 \in Nat /\ Len(q) - 1 < Len(q)
    BY <1>1
  <1> QED BY <1>4, <1>5, <1>6

\* The texts that are embedded, and which of them is whose.
NewPlaces == {i \in DOMAIN docs : docs[i].vector = NoVector}

\* The texts to embed are as many as documents without a vector, each at its turn.
LEMMA FreshTexts ==
    ASSUME DocInv, stage # "cut"
    PROVE  /\ Fresh(docs) \in Seq({docs[i].text : i \in DOMAIN docs})
           /\ DOMAIN docs = 1..Len(docs) /\ Len(docs) \in Nat
           /\ Needed \in Nat /\ Len(Fresh(docs)) = Needed
           /\ \A i \in NewPlaces : Turn(i) \in 1..Needed /\ Fresh(docs)[Turn(i)] = docs[i].text
  <1> DEFINE n == Cardinality(KeptPlaces)
             S == {docs[i].text : i \in DOMAIN docs}
             m == Cardinality(NewPlaces)
             place == Placed(Counts(NewPlaces))
  <1>1. n \in Nat /\ docs = [k \in 1..n |-> docs[k]]
    BY Kept DEF DocInv, Built, Picks
  <1>2. DOMAIN docs = 1..n /\ Len(docs) = n
    <2> DEFINE V == {docs[k] : k \in 1..n}
    <2>1. docs \in [1..n -> V]
      BY <1>1
    <2> HIDE DEF V, n
    <2> QED BY <1>1, <2>1, TableIsSeq
  <1> HIDE DEF n
  <1>3. Picks(docs, NewPlaces, place)
    <2>1. NewPlaces \in SUBSET (1..n)
      BY <1>2 DEF NewPlaces
    <2> QED BY <1>1, <2>1, PickedInOrder
  <1>4. Fresh(docs) = [k \in 1..m |-> docs[place[k]].text]
    <2>1. Picked(docs, NewPlaces) = [k \in 1..m |-> docs[place[k]]]
      BY <1>3 DEF Picks
    <2>2. Fresh(docs) = [k \in DOMAIN Picked(docs, NewPlaces) |-> Picked(docs, NewPlaces)[k].text]
      BY DEF Fresh, NewPlaces
    <2> QED BY <2>1, <2>2
  <1>5. m \in Nat /\ \A k \in 1..m : place[k] \in NewPlaces
    BY <1>3 DEF Picks
  <1> HIDE DEF place
  <1>6. Fresh(docs) \in [1..m -> S]
    <2>1. \A k \in 1..m : docs[place[k]].text \in S
      BY <1>5 DEF NewPlaces
    <2> HIDE DEF S, m
    <2> QED BY <1>4, <2>1
  <1>7. Fresh(docs) \in Seq(S) /\ Len(Fresh(docs)) = m
    <2> HIDE DEF S, m
    <2> QED BY <1>5, <1>6, TableIsSeq
  <1>8. Needed = m
    <2>1. NewPlaces = {j \in 1..Len(docs) : docs[j].vector = NoVector}
      BY <1>2 DEF NewPlaces
    <2> QED BY <2>1 DEF Needed, Turn
  <1>9. \A i \in NewPlaces : Turn(i) = Counts(NewPlaces)[i]
    <2> SUFFICES ASSUME NEW i \in NewPlaces PROVE Turn(i) = Counts(NewPlaces)[i]
      OBVIOUS
    <2>1. i \in 1..n /\ \A j \in 1..n : j <= i => j \in 1..i
      BY <1>2 DEF NewPlaces
    <2>2. \A j \in 1..i : j \in 1..n /\ j <= i
      BY <1>1, <2>1
    <2>3. {j \in 1..i : docs[j].vector = NoVector} = {j \in NewPlaces : j <= i}
      BY <1>2, <2>1, <2>2 DEF NewPlaces
    <2>4. Counts(NewPlaces)[i] = Cardinality({j \in NewPlaces : j <= i})
      BY DEF Counts
    <2> QED BY <2>3, <2>4 DEF Turn
  <1>10. \A i \in NewPlaces : Counts(NewPlaces)[i] \in 1..m /\ place[Counts(NewPlaces)[i]] = i
    BY <1>3 DEF Picks, place
  <1>11. \A i \in NewPlaces : Turn(i) \in 1..m /\ Fresh(docs)[Turn(i)] = docs[i].text
    BY <1>4, <1>9, <1>10
  <1> QED BY <1>1, <1>2, <1>5, <1>7, <1>8, <1>11

\* The fields of a batch after its answer, and after a try that failed.
Left(st, ts, k, v) == [state |-> st, texts |-> ts, tries |-> k, vectors |-> v]

SettledAs(x, st, v) == [[x EXCEPT !.state = st] EXCEPT !.vectors = v]
TriedAgain(x, k, st) == [[x EXCEPT !.tries = k] EXCEPT !.state = st]

\* What Settle and TryFails make of a batch.
LEMMA SettledFields ==
    ASSUME NEW st, NEW ts, NEW k, NEW v, NEW x, x = Left(st, ts, k, v), NEW st2, NEW k2, NEW v2
    PROVE  /\ SettledAs(x, st2, v2) = Left(st2, ts, k, v2)
           /\ TriedAgain(x, k2, st2) = Left(st2, ts, k2, v)
  <1>1. x = [state |-> st, texts |-> ts, tries |-> k, vectors |-> v]
    BY DEF Left
  <1>2. PICK y : y = [state |-> st2, texts |-> ts, tries |-> k, vectors |-> v]
    OBVIOUS
  <1>3. [x EXCEPT !.state = st2] = y
    BY <1>1, <1>2
  <1>4. [y EXCEPT !.vectors = v2] = [state |-> st2, texts |-> ts, tries |-> k, vectors |-> v2]
    BY <1>2
  <1>5. PICK z : z = [state |-> st, texts |-> ts, tries |-> k2, vectors |-> v]
    OBVIOUS
  <1>6. [x EXCEPT !.tries = k2] = z
    BY <1>1, <1>5
  <1>7. [z EXCEPT !.state = st2] = [state |-> st2, texts |-> ts, tries |-> k2, vectors |-> v]
    BY <1>5
  <1> QED BY <1>3, <1>4, <1>6, <1>7 DEF Left, SettledAs, TriedAgain

\* A step of a request leaves the other batches and the documents as they are.
LEMMA RequestKeeps ==
    ASSUME DocInv, NEW b \in DOMAIN batches, Request(b)
    PROVE  DocInv'
  <1>1. /\ batches[b].state \in {"queued", "sent"}
        /\ UNCHANGED <<vars, stage, header, skips, docs, symbols, edges, stored, runs>>
        /\ shared => shared'
    BY DEF Request, Send, Answer, AnswerOneObject, AnswerTooShort, Refuse, TryFails, InService, Sent
  <1>2. stage = "embed"
    <2>1. ~AllSettled
      BY <1>1 DEF AllSettled
    <2>2. batches # <<>>
      OBVIOUS
    <2> QED BY <2>1, <2>2 DEF DocInv, Quiet
  <1>3. PICK T : T = Sliced(Fresh(docs))
    OBVIOUS
  <1>4. b \in DOMAIN T /\ batches = [a \in DOMAIN T |-> batches[a]]
        /\ \A a \in DOMAIN T : Served(batches[a], T[a])
    BY <1>2, <1>3 DEF DocInv, Batched
  <1>5. PICK x : x = batches[b]
    OBVIOUS
  <1>6. x = [state |-> x.state, texts |-> T[b], tries |-> x.tries, vectors |-> x.vectors] /\ x.tries \in Nat
    BY <1>4, <1>5 DEF Served
  <1>7. \E y : Served(y, T[b])' /\ batches' = [batches EXCEPT ![b] = y]
    <2>0. batches[b] = Left(x.state, T[b], x.tries, x.vectors)
      BY <1>5, <1>6 DEF Left
    <2>10. x = Left(x.state, T[b], x.tries, x.vectors)
      BY <1>6 DEF Left
    <2>1. ASSUME NEW st, NEW v, Settle(b, st, v) PROVE batches' = [batches EXCEPT ![b] = Left(st, T[b], x.tries, v)]
      <3>1. batches' = [batches EXCEPT ![b] = SettledAs(x, st, v)]
        BY <1>4, <1>5, <2>1 DEF Settle, SettledAs
      <3>2. SettledAs(x, st, v) = Left(st, T[b], x.tries, v)
        BY <2>10, SettledFields
      <3> QED BY <3>1, <3>2
    <2>12. \A y : Served(y, T[b]) => Served(y, T[b])'
      BY <1>1, ServedStays
    <2>2. \A st, k, v : /\ Left(st, T[b], k, v).state = st /\ Left(st, T[b], k, v).tries = k
                        /\ Left(st, T[b], k, v).vectors = v /\ Left(st, T[b], k, v).texts = T[b]
      BY DEF Left
    <2>3. \A st, k, v : Left(st, T[b], k, v) = [state |-> st, texts |-> T[b], tries |-> k, vectors |-> v]
      BY DEF Left
    <2>9. batches[b].texts = T[b] /\ batches[b].tries = x.tries
      BY <2>0 DEF Left
    <2>4. CASE Send(b)
      <3>1. PICK y : y = Left("sent", T[b], x.tries, <<>>)
        OBVIOUS
      <3>2. batches' = [batches EXCEPT ![b] = y]
        BY <2>1, <2>4, <3>1 DEF Send
      <3>3. Served(y, T[b])
        BY <1>6, <2>2, <2>3, <3>1 DEF Served
      <3> QED BY <2>12, <3>2, <3>3
    <2>5. CASE Answer(b)
      <3>4. PICK v : v = Own(T[b])
        OBVIOUS
      <3>1. PICK y : y = Left("done", T[b], x.tries, v)
        OBVIOUS
      <3>2. batches' = [batches EXCEPT ![b] = y]
        BY <2>1, <2>5, <2>9, <3>1, <3>4 DEF Answer
      <3>5. Answers(v, T[b])
        BY <3>4 DEF Answers, Own, VectorOf
      <3>3. Served(y, T[b])
        BY <1>6, <2>2, <2>3, <3>1, <3>5 DEF Served
      <3> QED BY <2>12, <3>2, <3>3
    <2>11. CASE AnswerOneObject(b)
      <3>4. PICK v : v = [i \in DOMAIN T[b] |-> ToSet(T[b])]
        OBVIOUS
      <3>1. PICK y : y = Left("done", T[b], x.tries, v)
        OBVIOUS
      <3>2. batches' = [batches EXCEPT ![b] = y] /\ shared'
        BY <2>1, <2>9, <2>11, <3>1, <3>4 DEF AnswerOneObject
      <3>5. Answers(v, T[b])'
        BY <3>2, <3>4 DEF Answers, VectorOf, ToSet
      <3>3. Served(y, T[b])'
        BY <1>6, <2>2, <2>3, <3>1, <3>5 DEF Served
      <3> QED BY <3>2, <3>3
    <2>6. CASE AnswerTooShort(b)
      <3>1. PICK i \in DOMAIN T[b] : Settle(b, "done", RemoveAt(Own(T[b]), i))
        BY <2>9, <2>6 DEF AnswerTooShort
      <3>2. PICK v : v = RemoveAt(Own(T[b]), i)
        OBVIOUS
      <3>3. PICK y : y = Left("done", T[b], x.tries, v)
        OBVIOUS
      <3>4. batches' = [batches EXCEPT ![b] = y]
        BY <2>1, <3>1, <3>2, <3>3
      <3>5. \E m \in Nat : m < Len(T[b]) /\ Len(v) = m /\ DOMAIN v = 1..m
        <4>1. T[b] \in Seq({docs[k].text : k \in DOMAIN docs})
          BY <1>2, <1>3, <1>4, FreshTexts, SlicesTile
        <4> DEFINE l == Len(T[b])
                   S == {{T[b][j]} : j \in 1..l}
        <4>2. l \in Nat /\ DOMAIN T[b] = 1..l
          BY <4>1
        <4>3. Own(T[b]) \in [1..l -> S]
          BY <4>2 DEF Own
        <4> HIDE DEF l, S
        <4>4. Own(T[b]) \in Seq(S) /\ Len(Own(T[b])) = l /\ DOMAIN Own(T[b]) = 1..l
          BY <4>2, <4>3, TableIsSeq
        <4>5. PICK q : q = Own(T[b])
          OBVIOUS
        <4>6. \E m \in Nat : m < Len(q) /\ Len(RemoveAt(q, i)) = m /\ DOMAIN RemoveAt(q, i) = 1..m
          BY <3>1, <4>2, <4>4, <4>5, RemovedOne
        <4> QED BY <3>2, <4>4, <4>5, <4>6 DEF l
      <3>6. Served(y, T[b])
        BY <1>6, <2>2, <2>3, <3>3, <3>5 DEF Served
      <3> QED BY <2>12, <3>4, <3>6
    <2>7. CASE Refuse(b)
      <3>1. PICK y : y = Left("refused", T[b], x.tries, <<>>)
        OBVIOUS
      <3>2. batches' = [batches EXCEPT ![b] = y]
        BY <2>1, <2>7, <3>1 DEF Refuse
      <3>3. Served(y, T[b])
        BY <1>6, <2>2, <2>3, <3>1 DEF Served
      <3> QED BY <2>12, <3>2, <3>3
    <2>8. CASE TryFails(b)
      <3>1. x.state = "sent"
        BY <1>5, <2>8 DEF TryFails, Sent
      <3>2. PICK st : st = IF x.tries + 1 = Attempts THEN "raised" ELSE "sent"
        OBVIOUS
      <3>3. PICK k \in Nat : k = x.tries + 1
        BY <1>6
      <3>4. PICK y : y = Left(st, T[b], k, x.vectors)
        OBVIOUS
      <3>5. batches' = [batches EXCEPT ![b] = TriedAgain(x, k, st)]
        BY <1>4, <1>5, <2>8, <3>1, <3>2, <3>3 DEF TryFails, LastTry, TriedAgain
      <3>8. TriedAgain(x, k, st) = Left(st, T[b], k, x.vectors)
        BY <2>10, SettledFields
      <3>6. batches' = [batches EXCEPT ![b] = y]
        BY <3>4, <3>5, <3>8
      <3>7. Served(y, T[b])
        BY <2>2, <2>3, <3>2, <3>3, <3>4 DEF Served
      <3> QED BY <2>12, <3>6, <3>7
    <2> QED BY <2>4, <2>5, <2>6, <2>7, <2>8, <2>11 DEF Request
  <1>8. Batched'
    <2>1. PICK y : Served(y, T[b])' /\ batches' = [batches EXCEPT ![b] = y]
      BY <1>7
    <2>2. (Sliced(Fresh(docs)))' = T
      BY <1>1, <1>3
    <2>4. PICK bs, was : bs = batches' /\ was = batches
      OBVIOUS
    <2>5. \A a \in DOMAIN T : Served(was[a], T[a])'
      BY <1>1, <1>4, <2>4, ServedStays
    <2>6. bs = [was EXCEPT ![b] = y] /\ was = [a \in DOMAIN T |-> was[a]]
      BY <1>4, <2>1, <2>4
    <2>7. bs = [a \in DOMAIN T |-> bs[a]] /\ \A a \in DOMAIN T : bs[a] = IF a = b THEN y ELSE was[a]
      BY <2>6
    <2>8. \A a \in DOMAIN T : Served(bs[a], T[a])'
      BY <2>1, <2>5, <2>7
    <2> QED BY <2>2, <2>4, <2>7, <2>8 DEF Batched, Served, Answers, VectorOf, Attempts, Larger
  <1>9. Built'
    BY <1>1, <1>2, SameChunksSameDocs DEF DocInv
  <1>10. StoredFiled'
    BY <1>1, StoredStays DEF vars, DocInv
  <1>11. ChunkInv'
    BY <1>1, ChunkInvKept DEF DocInv
  <1> QED BY <1>1, <1>2, <1>8, <1>9, <1>10, <1>11
          DEF DocInv, Quiet, LinksResolve, IndexLosesOnlyPieces, FailureHasCause


-----------------------------------------------------------------------------
(* From the answers to the vectors.                                            *)

\* Counting those that come no later, the places P have the ranks `flat' gives them.
Ranks(P, flat) ==
    /\ IsFiniteSet(P)
    /\ [r \in P |-> flat[r]] \in Injection(P, 1..Cardinality(P))
    /\ \A r \in P : Cardinality({s \in P : Before(s, r)}) = flat[r]

\* The places of texts are as many as the texts, and each is preceded by as many as its text.
LEMMA TilesCount ==
    ASSUME NEW S, NEW ts \in Seq(S), NEW flat, Tiles(ts, flat), NEW P, P = TextPlaces(Sliced(ts))
    PROVE  IsFiniteSet(P) /\ Cardinality(P) = Len(ts) /\ Ranks(P, flat)
  <1>1. Len(ts) \in Nat
    OBVIOUS
  <1> DEFINE n == Len(ts)
  <1>2. /\ \A r \in P : flat[r] \in 1..n
        /\ \A k \in 1..n : \E r \in P : flat[r] = k
        /\ \A r, s \in P : Before(s, r) <=> flat[s] <= flat[r]
        /\ \A r, s \in P : flat[s] = flat[r] => s = r
        /\ DOMAIN flat = P
    BY DEF Tiles
  <1>3. ASSUME NEW k \in 0..n
        PROVE  IsFiniteSet({s \in P : flat[s] <= k}) /\ Cardinality({s \in P : flat[s] <= k}) = k
    <2> DEFINE A == {s \in P : flat[s] <= k}
               f == [s \in A |-> flat[s]]
    <2>1. k \in Nat /\ k <= n
      BY <1>1
    <2>2. IsFiniteSet(1..k) /\ Cardinality(1..k) = k
      BY <2>1, FS_Interval
    <2>3. f \in [A -> 1..k]
      <3>1. \A s \in A : flat[s] \in 1..n /\ flat[s] <= k
        BY <1>2
      <3>2. \A s \in A : flat[s] \in 1..k
        BY <1>1, <2>1, <3>1
      <3> HIDE DEF A
      <3> QED BY <3>2
    <2>4. \A j \in 1..k : \E s \in A : f[s] = j
      <3> SUFFICES ASSUME NEW j \in 1..k PROVE \E s \in A : f[s] = j
        OBVIOUS
      <3>1. j \in 1..n
        BY <1>1, <2>1
      <3>2. PICK s \in P : flat[s] = j
        BY <1>2, <3>1
      <3>3. s \in A
        BY <2>1, <3>2
      <3> HIDE DEF A
      <3> QED BY <3>2, <3>3
    <2>5. \A r, s \in A : f[r] = f[s] => r = s
      BY <1>2
    <2> HIDE DEF f
    <2>6. f \in Injection(A, 1..k) /\ f \in Surjection(A, 1..k)
      <3> HIDE DEF A
      <3>1. DOMAIN f = A
        BY <2>3
      <3> QED BY <2>3, <2>4, <2>5, <3>1 DEF Injection, Surjection, IsInjective
    <2>7. IsFiniteSet(A) /\ Cardinality(A) = Cardinality(1..k)
      <3> HIDE DEF A
      <3> QED BY <2>2, <2>6, FS_Injection
    <2> QED BY <2>2, <2>7
  <1>4. {s \in P : flat[s] <= n} = P
    BY <1>1, <1>2
  <1>5. IsFiniteSet(P) /\ Cardinality(P) = n
    <2>1. n \in 0..n
      BY <1>1
    <2> HIDE DEF n
    <2> QED BY <1>3, <1>4, <2>1
  <1>6. ASSUME NEW r \in P PROVE Cardinality({s \in P : Before(s, r)}) = flat[r]
    <2>1. {s \in P : Before(s, r)} = {s \in P : flat[s] <= flat[r]}
      BY <1>2
    <2>2. flat[r] \in 0..n
      BY <1>1, <1>2
    <2> HIDE DEF n
    <2> QED BY <1>3, <2>1, <2>2
  <1>7. [r \in P |-> flat[r]] \in Injection(P, 1..n)
    <2> DEFINE g == [r \in P |-> flat[r]]
    <2>1. g \in [P -> 1..n] /\ DOMAIN g = P /\ \A r \in P : g[r] = flat[r]
      BY <1>2
    <2> HIDE DEF g
    <2>2. \A r, s \in P : g[r] = g[s] => r = s
      BY <1>2, <2>1
    <2> QED BY <2>1, <2>2 DEF g, Injection, IsInjective
  <1> QED BY <1>5, <1>6, <1>7 DEF Ranks

\* All batches were answered: their results are at places of texts.
LEMMA ResultPlaces ==
    ASSUME DocInv, stage # "cut", AllSettled, ~Raised, NEW T, T = Sliced(Fresh(docs))
    PROVE  /\ DOMAIN batches = DOMAIN T
           /\ \A b \in DOMAIN T : /\ batches[b].texts = T[b] /\ batches[b].state = "done"
                                  /\ T[b] \in Seq({docs[i].text : i \in DOMAIN docs})
                                  /\ \/ Answers(batches[b].vectors, T[b])
                                     \/ \E m \in Nat : /\ m < Len(T[b]) /\ Len(batches[b].vectors) = m
                                                        /\ DOMAIN batches[b].vectors = 1..m
           /\ Results \in SUBSET TextPlaces(T) /\ IsFiniteSet(TextPlaces(T))
           /\ Cardinality(TextPlaces(T)) = Needed /\ Needed \in Nat
           /\ Len(Embedded) = Cardinality(Results) /\ Cardinality(Results) \in Nat
  <1> DEFINE S == {docs[i].text : i \in DOMAIN docs}
             ts == Fresh(docs)
  <1>1. ts \in Seq(S) /\ Needed \in Nat /\ Len(ts) = Needed
    BY FreshTexts
  <1> HIDE DEF S, ts
  <1>2. (\E flat : Tiles(ts, flat)) /\ \A b \in DOMAIN T : T[b] \in Seq(S)
    BY <1>1, SlicesTile DEF ts
  <1>3. PICK flat : Tiles(ts, flat)
    BY <1>2
  <1>4. IsFiniteSet(TextPlaces(T)) /\ Cardinality(TextPlaces(T)) = Needed
    <2>1. T = Sliced(ts)
      BY DEF ts
    <2> QED BY <1>1, <1>3, <2>1, TilesCount
  <1>5. DOMAIN batches = DOMAIN T /\ \A b \in DOMAIN T : Served(batches[b], T[b])
    <2>1. batches = [b \in DOMAIN T |-> batches[b]] /\ \A b \in DOMAIN T : Served(batches[b], T[b])
      BY DEF DocInv, Batched
    <2> QED BY <2>1
  <1>6. ASSUME NEW b \in DOMAIN T
        PROVE  /\ batches[b].texts = T[b] /\ batches[b].state = "done"
               /\ \/ Answers(batches[b].vectors, T[b])
                  \/ \E m \in Nat : /\ m < Len(T[b]) /\ Len(batches[b].vectors) = m
                                     /\ DOMAIN batches[b].vectors = 1..m
               /\ \A i \in DOMAIN batches[b].vectors : i \in DOMAIN T[b]
    <2>1. batches[b].state \in {"done", "refused", "raised"}
          /\ batches[b].state \notin {"refused", "raised"}
      BY <1>5 DEF AllSettled, Raised
    <2>2. batches[b].state = "done"
      BY <2>1
    <2>3. Served(batches[b], T[b])
      BY <1>5
    <2>4. \/ Answers(batches[b].vectors, T[b])
          \/ \E m \in Nat : /\ m < Len(T[b]) /\ Len(batches[b].vectors) = m
                             /\ DOMAIN batches[b].vectors = 1..m
      BY <2>2, <2>3 DEF Served
    <2>5. batches[b].texts = T[b]
      <3>1. PICK x : x = batches[b]
        OBVIOUS
      <3>2. x = [state |-> x.state, texts |-> T[b], tries |-> x.tries, vectors |-> x.vectors]
        BY <2>3, <3>1 DEF Served
      <3>3. x.texts = T[b]
        BY <3>2
      <3> QED BY <3>1, <3>3
    <2>6. DOMAIN T[b] = 1..Len(T[b]) /\ Len(T[b]) \in Nat
      BY <1>2
    <2> QED BY <2>2, <2>4, <2>5, <2>6 DEF Answers
  <1>7. Results \in SUBSET TextPlaces(T)
    <2> DEFINE V == [b \in DOMAIN T |-> batches[b].vectors]
    <2>1. Results = TextPlaces(V)
      BY <1>5 DEF Results, TextPlaces
    <2>2. DOMAIN V = DOMAIN T /\ \A b \in DOMAIN T : V[b] = batches[b].vectors
      OBVIOUS
    <2> HIDE DEF V
    <2>3. ASSUME NEW r \in TextPlaces(V) PROVE r \in TextPlaces(T)
      <3>1. PICK b \in DOMAIN V : \E i \in DOMAIN V[b] : r = <<b, i>>
        BY PlacePairs
      <3>2. PICK i \in DOMAIN V[b] : r = <<b, i>>
        BY <3>1
      <3>3. b \in DOMAIN T /\ i \in DOMAIN T[b]
        BY <1>6, <2>2
      <3>4. <<b, i>> \in TextPlaces(T)
        BY <3>3, PlacePairs
      <3> QED BY <3>2, <3>4
    <2> QED BY <2>1, <2>3
  <1>8. IsFiniteSet(Results) /\ Cardinality(Results) \in Nat
    BY <1>4, <1>7, FS_Subset, FS_CardinalityType
  <1>9. Len(Embedded) = Cardinality(Results)
    <2> DEFINE result == Placed([r \in Results |-> Cardinality(NoLater(r))])
               n == Cardinality(Results)
               val == [k \in 1..n |-> batches[result[k][1]].vectors[result[k][2]]]
    <2>1. Embedded = val
      BY DEF Embedded
    <2>2. val \in [1..n -> {val[k] : k \in 1..n}]
      OBVIOUS
    <2> HIDE DEF val, n
    <2>3. n \in Nat
      BY <1>8 DEF n
    <2>4. Len(val) = n
      BY <2>2, <2>3, TableIsSeq
    <2> QED BY <2>1, <2>4 DEF n
  <1> QED BY <1>1, <1>2, <1>4, <1>5, <1>6, <1>7, <1>8, <1>9 DEF S

\* If each batch has a vector for each of its texts then there are enough of them ...
LEMMA AllAnsweredIsEnough ==
    ASSUME DocInv, stage # "cut", AllSettled, ~Raised, Short
    PROVE  \E b \in DOMAIN batches : /\ batches[b].state = "done"
                                      /\ Len(batches[b].vectors) < Len(batches[b].texts)
  <1>1. PICK T : T = Sliced(Fresh(docs))
    OBVIOUS
  <1> SUFFICES ASSUME \A b \in DOMAIN T : DOMAIN batches[b].vectors = DOMAIN T[b] PROVE FALSE
    <2>1. PICK b \in DOMAIN T : DOMAIN batches[b].vectors # DOMAIN T[b]
      OBVIOUS
    <2>2. /\ batches[b].state = "done" /\ batches[b].texts = T[b] /\ b \in DOMAIN batches
          /\ \/ Answers(batches[b].vectors, T[b])
             \/ \E m \in Nat : m < Len(T[b]) /\ Len(batches[b].vectors) = m
      BY <1>1, ResultPlaces
    <2>3. ~Answers(batches[b].vectors, T[b])
      BY <2>1 DEF Answers
    <2> QED BY <2>2, <2>3
  <1>2. DOMAIN batches = DOMAIN T
    BY <1>1, ResultPlaces
  <1>3. Results = TextPlaces(T)
    BY <1>2 DEF Results, TextPlaces
  <1>4. Len(Embedded) = Needed /\ Needed \in Nat
    BY <1>1, <1>3, ResultPlaces
  <1> QED BY <1>4 DEF Short

\* ... and if there are enough, they are those of the texts that were asked for, in their order.
LEMMA EnoughIsAll ==
    ASSUME DocInv, stage # "cut", AllSettled, ~Raised, ~Short
    PROVE  \A k \in 1..Needed : VectorOf(Embedded[k], Fresh(docs)[k])
  <1> DEFINE S == {docs[i].text : i \in DOMAIN docs}
             ts == Fresh(docs)
  <1>1. PICK T : T = Sliced(Fresh(docs))
    OBVIOUS
  <1>2. PICK P : P = TextPlaces(T)
    OBVIOUS
  <1>3. ts \in Seq(S) /\ Needed \in Nat /\ Len(ts) = Needed
    BY FreshTexts
  <1> HIDE DEF S, ts
  <1>4. PICK flat : Tiles(ts, flat)
    BY <1>3, SlicesTile
  <1>5. Cardinality(P) = Needed /\ Ranks(P, flat)
    <2>1. T = Sliced(ts)
      BY <1>1 DEF ts
    <2> QED BY <1>2, <1>3, <1>4, <2>1, TilesCount
  <1>17. /\ IsFiniteSet(P)
         /\ [r \in P |-> flat[r]] \in Injection(P, 1..Cardinality(P))
         /\ \A r \in P : Cardinality({s \in P : Before(s, r)}) = flat[r]
    BY <1>5 DEF Ranks
  <1>6. Results = P
    <2>1. Results \in SUBSET P /\ Len(Embedded) = Cardinality(Results) /\ Cardinality(Results) \in Nat
      BY <1>1, <1>2, ResultPlaces
    <2>2. Cardinality(Results) >= Cardinality(P)
      BY <1>3, <1>5, <2>1 DEF Short
    <2>3. Cardinality(Results) <= Cardinality(P) /\ (Cardinality(Results) = Cardinality(P) => Results = P)
      BY <1>17, <2>1, FS_Subset
    <2> QED BY <1>3, <1>5, <2>1, <2>2, <2>3
  <1>7. \A r \in P : \E b \in DOMAIN T : \E i \in DOMAIN T[b] :
            r[1] = b /\ r[2] = i /\ VectorOf(batches[b].vectors[i], T[b][i])
    <2> SUFFICES ASSUME NEW r \in P
                 PROVE  \E b \in DOMAIN T : \E i \in DOMAIN T[b] :
                          r[1] = b /\ r[2] = i /\ VectorOf(batches[b].vectors[i], T[b][i])
      OBVIOUS
    <2>1. PICK b \in DOMAIN T : \E i \in DOMAIN T[b] : r = <<b, i>> /\ r[1] = b /\ r[2] = i
      BY <1>2, PlacePairs
    <2>2. PICK i \in DOMAIN T[b] : r = <<b, i>> /\ r[1] = b /\ r[2] = i
      BY <2>1
    <2>3. Answers(batches[b].vectors, T[b])
      <3> SUFFICES ASSUME NEW m \in Nat, m < Len(T[b]), DOMAIN batches[b].vectors = 1..m PROVE FALSE
        BY <1>1, ResultPlaces DEF Answers
      <3> DEFINE l == Len(T[b])
      <3>1. DOMAIN T[b] = 1..l /\ l \in Nat
        <4>1. T[b] \in Seq({docs[j].text : j \in DOMAIN docs})
          BY <1>1, ResultPlaces
        <4> QED BY <4>1
      <3> HIDE DEF l
      <3>2. l \in DOMAIN T[b] /\ l \notin 1..m
        BY <3>1 DEF l
      <3>3. <<b, l>> \in Results
        BY <1>2, <1>6, <3>2, PlacePairs
      <3> DEFINE V == [c \in DOMAIN batches |-> batches[c].vectors]
      <3>4. /\ Results = TextPlaces(V) /\ DOMAIN V = DOMAIN batches
            /\ \A c \in DOMAIN batches : V[c] = batches[c].vectors
        BY DEF Results, TextPlaces
      <3> HIDE DEF V
      <3>5. PICK x : x = <<b, l>>
        OBVIOUS
      <3>10. x[1] = b /\ x[2] = l
        BY <3>5
      <3>9. PICK c \in DOMAIN V : \E j \in DOMAIN V[c] : x[1] = c /\ x[2] = j
        BY <3>3, <3>4, <3>5, PlacePairs
      <3>11. c = b /\ l \in DOMAIN V[c]
        BY <3>9, <3>10
      <3>6. l \in DOMAIN V[b] /\ b \in DOMAIN batches
        BY <3>4, <3>9, <3>11
      <3>7. V[b] = batches[b].vectors
        BY <3>4, <3>6
      <3>8. l \in DOMAIN batches[b].vectors
        BY <3>6, <3>7
      <3> QED BY <3>2, <3>8
    <2> QED BY <2>2, <2>3 DEF Answers
  <1>8. \A r \in P : NoLater(r) = {s \in P : Before(s, r)}
    BY <1>6 DEF NoLater, Before
  <1> DEFINE rank == [r \in P |-> flat[r]]
             result == Placed(rank)
  <1>9. [r \in Results |-> Cardinality(NoLater(r))] = rank
    BY <1>17, <1>6, <1>8
  <1>10. Embedded = [k \in 1..Needed |-> batches[result[k][1]].vectors[result[k][2]]]
    <2> HIDE DEF rank
    <2> QED BY <1>5, <1>6, <1>9 DEF Embedded
  <1>11. \A k \in 1..Needed : result[k] \in P /\ rank[result[k]] = k
    <2> HIDE DEF rank
    <2> QED BY <1>5, <1>17, PlacedHasRank DEF rank
  <1>12. \A r \in P : rank[r] = flat[r]
    OBVIOUS
  <1> HIDE DEF rank, result
  <1> SUFFICES ASSUME NEW k \in 1..Needed PROVE VectorOf(Embedded[k], ts[k])
    BY DEF ts
  <1>13. PICK r \in P : r = result[k] /\ flat[r] = k
    BY <1>11, <1>12
  <1>14. PICK b \in DOMAIN T : \E i \in DOMAIN T[b] :
            r[1] = b /\ r[2] = i /\ VectorOf(batches[b].vectors[i], T[b][i])
    BY <1>7
  <1>15. VectorOf(batches[r[1]].vectors[r[2]], T[r[1]][r[2]])
    BY <1>14
  <1>16. T[r[1]][r[2]] = ts[flat[r]]
    BY <1>1, <1>2, <1>4 DEF Tiles, ts
  <1> QED BY <1>10, <1>13, <1>15, <1>16

-----------------------------------------------------------------------------
(* The end of a file's indexing.                                               *)

\* A file that is given up leaves the index as it is, and has a cause.
LEMMA FailKeeps == DocInv /\ Fail => DocInv'
  <1> SUFFICES ASSUME DocInv, Fail PROVE DocInv'
    OBVIOUS
  <1>1. /\ stage = "embed" /\ AllSettled /\ (Raised \/ Short) /\ stage' = "failed"
        /\ UNCHANGED <<vars, header, skips, docs, symbols, edges, batches, stored, shared>>
    BY DEF Fail, fileVars
  <1>2. ChunkInv'
    BY <1>1, ChunkInvKept DEF DocInv
  <1>3. Built'
    BY <1>1, SameChunksSameDocs DEF DocInv
  <1>4. Batched'
    BY <1>1, SameBatchesServed DEF DocInv
  <1>5. Quiet'
    BY <1>1 DEF Quiet, AllSettled
  <1>6. StoredFiled'
    BY <1>1, StoredStays DEF vars, DocInv
  <1>7. FailureHasCause'
    <2>1. \E b \in DOMAIN batches :
            \/ batches[b].state = "refused"
            \/ batches[b].state = "raised" /\ batches[b].tries = Attempts
            \/ batches[b].state = "done" /\ Len(batches[b].vectors) < Len(batches[b].texts)
      <3>1. CASE Raised
        <4>1. PICK b \in DOMAIN batches : batches[b].state \in {"refused", "raised"}
          BY <3>1 DEF Raised
        <4>2. PICK T : T = Sliced(Fresh(docs))
          OBVIOUS
        <4>3. batches = [a \in DOMAIN T |-> batches[a]] /\ \A a \in DOMAIN T : Served(batches[a], T[a])
          BY <1>1, <4>2 DEF DocInv, Batched
        <4>4. Served(batches[b], T[b])
          BY <4>3
        <4> QED BY <4>1, <4>4 DEF Served
      <3>2. CASE ~Raised
        BY <1>1, <3>2, AllAnsweredIsEnough
      <3> QED BY <3>1, <3>2
    <2> QED BY <1>1, <2>1 DEF FailureHasCause, Attempts, Larger
  <1> QED BY <1>1, <1>2, <1>3, <1>4, <1>5, <1>6, <1>7 DEF DocInv, LinksResolve, IndexLosesOnlyPieces

\* A chunk's parent is that of a class of the file with the name of the outermost around.
LEMMA ParentIsClass ==
    ASSUME ChunkInv, NEW c
    PROVE  \/ Parent(chunks, c) = NoId
           \/ ParentNames(c) # <<>>
              /\ \E a : /\ Known(file, a) /\ IsClass(a)
                        /\ Name(a) = ParentNames(c)[1] /\ Parent(chunks, c) = Id(a)
  <1> DEFINE named == {d \in ToSet(chunks) : IsClass(d) /\ ParentNames(c) # <<>>
                                             /\ Name(d) = ParentNames(c)[1]}
             place(d) == Max({i \in DOMAIN chunks : chunks[i] = d})
  <1>1. CASE named = {}
    BY <1>1 DEF Parent
  <1>2. CASE named # {}
    <2>1. Len(chunks) \in Nat /\ DOMAIN chunks = 1..Len(chunks)
      BY ChunkNumbers DEF ChunkInv, Inv
    <2>2. ASSUME NEW d \in named PROVE place(d) \in 1..Len(chunks)
      <3> DEFINE I == {i \in DOMAIN chunks : chunks[i] = d}
      <3>1. I \in SUBSET Nat /\ I # {} /\ \A i \in I : i <= Len(chunks)
        <4>1. d \in ToSet(chunks)
          OBVIOUS
        <4>2. PICK i \in DOMAIN chunks : chunks[i] = d
          BY <4>1 DEF ToSet
        <4> HIDE DEF named
        <4> QED BY <2>1, <4>2
      <3> HIDE DEF I
      <3>2. Max(I) \in I
        BY <2>1, <3>1, LargestOf
      <3> QED BY <2>1, <3>2 DEF I
    <2> DEFINE Q == {place(d) : d \in named}
    <2>3. Q \in SUBSET Nat /\ Q # {} /\ \A n \in Q : n <= Len(chunks)
      <3> HIDE DEF place, named
      <3>1. \A d \in named : place(d) \in Nat /\ place(d) <= Len(chunks)
        BY <2>1, <2>2
      <3> QED BY <1>2, <3>1
    <2>4. Max(Q) \in Q /\ \A n \in Q : n <= Max(Q)
      <3> HIDE DEF Q
      <3> QED BY <2>1, <2>3, LargestOf
    <2>5. \E d \in named : \A e \in named : place(e) <= place(d)
      <3> HIDE DEF place, named
      <3> QED BY <2>4
    <2> DEFINE a == CHOOSE d \in named : \A e \in named : place(e) <= place(d)
    <2>6. a \in named
      <3> HIDE DEF place, named
      <3> QED BY <2>5
    <2>7. Parent(chunks, c) = Id(a)
      BY <1>2 DEF Parent
    <2> HIDE DEF a
    <2>8. a \in ToSet(chunks) /\ IsClass(a) /\ ParentNames(c) # <<>> /\ Name(a) = ParentNames(c)[1]
      BY <2>6
    <2>9. Known(file, a)
      <3>1. PICK i \in DOMAIN chunks : chunks[i] = a
        BY <2>8 DEF ToSet
      <3> QED BY <2>1, <3>1 DEF ChunkInv, ChunksKnown
    <2> QED BY <2>7, <2>8, <2>9
  <1> QED BY <1>1, <1>2

\* What is stored for a chunk.
IsFull(d, c) == IsDoc(d, c) /\ VectorOf(d.vector, Text(c))

\* With its vector, reused or embedded, a document is the full one of its chunk.
LEMMA DocsInFull ==
    ASSUME DocInv, Replace, NEW i \in DOMAIN docs
    PROVE  IsFull(IF docs[i].vector = NoVector THEN [docs[i] EXCEPT !.vector = Embedded[Turn(i)]]
                                               ELSE docs[i],
                  chunks[Place[i]])
  <1>1. stage = "embed" /\ AllSettled /\ ~Raised /\ ~Short
    BY DEF Replace
  <1>2. PICK d, c : d = docs[i] /\ c = chunks[Place[i]]
    OBVIOUS
  <1>3. IsDoc(d, c)
    <2>1. /\ docs = [k \in 1..Cardinality(KeptPlaces) |-> docs[k]]
          /\ \A k \in 1..Cardinality(KeptPlaces) : IsDoc(docs[k], chunks[Place[k]])
      BY <1>1 DEF DocInv, Built
    <2>2. i \in 1..Cardinality(KeptPlaces)
      BY <2>1
    <2> QED BY <1>2, <2>1, <2>2
  <1>4. /\ d = [id |-> Id(c), text |-> Text(c), parent |-> Parent(chunks, c), class |-> IsClass(c),
                vector |-> d.vector]
        /\ d.vector = NoVector \/ VectorOf(d.vector, Text(c))
    BY <1>3 DEF IsDoc
  <1>5. CASE d.vector = NoVector
    <2>1. i \in NewPlaces
      BY <1>2, <1>5 DEF NewPlaces
    <2>2. VectorOf(Embedded[Turn(i)], d.text)
      BY <1>1, <1>2, <2>1, FreshTexts, EnoughIsAll
    <2>3. d.text = Text(c)
      BY <1>4
    <2>4. PICK v : v = Embedded[Turn(i)]
      OBVIOUS
    <2>5. [d EXCEPT !.vector = v] = [id |-> Id(c), text |-> Text(c), parent |-> Parent(chunks, c),
                                     class |-> IsClass(c), vector |-> v]
      BY <1>4
    <2>6. PICK e : e = [d EXCEPT !.vector = v]
      OBVIOUS
    <2>7. e.vector = v /\ VectorOf(v, Text(c))
      BY <2>2, <2>3, <2>4, <2>5, <2>6
    <2>8. IsFull(e, c)
      BY <2>5, <2>6, <2>7 DEF IsFull, IsDoc
    <2> QED BY <1>2, <1>5, <2>4, <2>6, <2>8
  <1>6. CASE d.vector # NoVector
    BY <1>2, <1>3, <1>4, <1>6 DEF IsFull
  <1> QED BY <1>5, <1>6

\* The index holds the last document of every id that was not dropped.
LEMMA StoredNow ==
    ASSUME DocInv, Replace
    PROVE  /\ \A d \in stored'.chunks :
                \E i \in DOMAIN chunks : IsFull(d, chunks[i])
           /\ \A i \in DOMAIN chunks :
                Id(chunks[i]) \notin Dropped(chunks) =>
                  \E j \in DOMAIN chunks : /\ j >= i /\ Id(chunks[j]) = Id(chunks[i])
                                          /\ \E d \in stored'.chunks : IsFull(d, chunks[j])
           /\ stored'.symbols = SymbolsOf(chunks) /\ stored'.edges = EdgesOf(chunks)
  <1> DEFINE n == Cardinality(KeptPlaces)
             full == [i \in DOMAIN docs |->
                        IF docs[i].vector = NoVector
                          THEN [docs[i] EXCEPT !.vector = Embedded[Turn(i)]] ELSE docs[i]]
             lasts == {k \in DOMAIN full : \A l \in DOMAIN full : full[l].id = full[k].id => l <= k}
  <1>1. /\ stored' = [chunks |-> {full[i] : i \in lasts}, symbols |-> symbols, edges |-> edges]
        /\ stage = "embed"
    BY DEF Replace
  <1>2. symbols = SymbolsOf(chunks) /\ edges = EdgesOf(chunks) /\ docs = [k \in 1..n |-> docs[k]]
    BY <1>1 DEF DocInv, Built
  <1>3. DOMAIN full = 1..n /\ \A k \in 1..n : IsFull(full[k], chunks[Place[k]])
    <2>1. DOMAIN full = DOMAIN docs /\ DOMAIN docs = 1..n
      BY <1>2
    <2> HIDE DEF n
    <2> QED BY <2>1, DocsInFull
  <1> HIDE DEF full, n
  <1>4. /\ Picks(chunks, KeptPlaces, Place) /\ KeptPlaces \in SUBSET (1..Len(chunks))
        /\ Len(chunks) \in Nat /\ DOMAIN chunks = 1..Len(chunks)
    BY Kept
  <1>5. \A d, c : IsFull(d, c) => d.id = Id(c)
    BY DEF IsFull, IsDoc
  <1>6. stored'.chunks = {full[i] : i \in lasts} /\ stored'.symbols = symbols /\ stored'.edges = edges
    <2> HIDE DEF lasts
    <2> QED BY <1>1
  <1>7. ASSUME NEW d \in stored'.chunks PROVE \E i \in DOMAIN chunks : IsFull(d, chunks[i])
    <2>1. PICK k \in lasts : d = full[k]
      <3> HIDE DEF lasts
      <3> QED BY <1>6
    <2>2. k \in 1..n
      BY <1>3
    <2>3. Place[k] \in DOMAIN chunks
      BY <1>4, <2>2 DEF Picks, n
    <2> QED BY <1>3, <2>1, <2>2, <2>3
  <1>8. ASSUME NEW i \in DOMAIN chunks, Id(chunks[i]) \notin Dropped(chunks)
        PROVE  \E j \in DOMAIN chunks : /\ j >= i /\ Id(chunks[j]) = Id(chunks[i])
                                       /\ \E d \in stored'.chunks : IsFull(d, chunks[j])
    <2> DEFINE I == {j \in DOMAIN chunks : Id(chunks[j]) = Id(chunks[i])}
    <2>1. i \in I /\ I \in SUBSET Nat /\ \A j \in I : j <= Len(chunks)
      BY <1>4
    <2>2. PICK j \in I : \A l \in I : l <= j
      <3> HIDE DEF I
      <3>1. Max(I) \in I /\ \A l \in I : l <= Max(I)
        BY <1>4, <2>1, LargestOf
      <3> QED BY <3>1
    <2>3. j \in DOMAIN chunks /\ j >= i /\ Id(chunks[j]) = Id(chunks[i])
      BY <1>4, <2>1, <2>2
    <2>4. j \in KeptPlaces
      BY <1>8, <2>3 DEF KeptPlaces
    <2>5. PICK k \in 1..n : Place[k] = j
      BY <1>4, <2>4 DEF Picks, n
    <2>6. ASSUME NEW l \in 1..n, full[l].id = full[k].id PROVE l <= k
      <3>1. Id(chunks[Place[l]]) = Id(chunks[j])
        BY <1>3, <1>5, <2>5, <2>6
      <3>2. Place[l] \in KeptPlaces
        BY <1>4 DEF Picks, n
      <3>3. Place[l] \in DOMAIN chunks
        BY <1>4, <3>2
      <3>4. Place[l] <= j /\ Place[l] \in Nat /\ j \in Nat
        BY <1>4, <2>2, <2>3, <3>1, <3>3
      <3>5. n \in Nat /\ (k < l => Place[k] < Place[l])
        BY <1>4 DEF Picks, n
      <3> QED BY <2>5, <3>4, <3>5
    <2>7. k \in lasts
      BY <1>3, <2>6
    <2>8. full[k] \in stored'.chunks
      <3> HIDE DEF lasts
      <3> QED BY <1>6, <2>7
    <2> QED BY <1>3, <2>3, <2>5, <2>8
  <1> QED BY <1>2, <1>6, <1>7, <1>8

\* Raw chunks are those of declarations, or of headings.
LEMMA ChunkOfDecl ==
    ASSUME NEW f \in Files, NEW i \in 1..Len(RawChunks(f)), RawChunks(f) # <<>>
    PROVE  i \in DOMAIN f.decls
  <1> DEFINE R == [name : Names \cup {NoName}, class : BOOLEAN, parents : Seq(Names)]
  <1>1. FileShape(f) /\ DeclShape(f)
    BY ChunkingAssumption, FileDocumentsAssumption DEF ChunkingAssumption, FileDocumentsAssumption
  <1>2. f.decls \in Seq(R) /\ Len(f.decls) = Len(f.marks)
    BY <1>1 DEF DeclShape
  <1> HIDE DEF R
  <1>3. Len(f.marks) \in Nat /\ DOMAIN f.marks = 1..Len(f.marks)
    BY <1>1 DEF FileShape
  <1>4. Len(RawChunks(f)) = Len(f.marks)
    <2>1. CASE f.kind = "markdown"
      <3> DEFINE m == Len(f.marks)
                 V == {Section(f, k) : k \in 1..m}
      <3>1. RawChunks(f) \in [1..m -> V]
        BY <1>3, <2>1 DEF RawChunks
      <3> HIDE DEF m, V
      <3>2. Len(RawChunks(f)) = m
        BY <1>3, <3>1, TableIsSeq DEF m
      <3> QED BY <3>2 DEF m
    <2>2. CASE f.kind # "markdown"
      BY <2>2 DEF RawChunks
    <2> QED BY <2>1, <2>2
  <1> QED BY <1>2, <1>4

\* Parents have names.
LEMMA DeclNames ==
    ASSUME NEW f \in Files, NEW i \in DOMAIN f.decls
    PROVE  /\ f.decls[i].parents \in Seq(Names)
           /\ f.decls[i].parents # <<>> => f.decls[i].parents[1] \in Names
  <1> DEFINE R == [name : Names \cup {NoName}, class : BOOLEAN, parents : Seq(Names)]
  <1>1. f.decls \in Seq(R)
    BY FileDocumentsAssumption DEF FileDocumentsAssumption, DeclShape
  <1> HIDE DEF R
  <1>2. f.decls[i] \in R
    BY <1>1
  <1>3. f.decls[i].parents \in Seq(Names)
    BY <1>2 DEF R
  <1>4. PICK q : q = f.decls[i].parents
    OBVIOUS
  <1>5. q \in Seq(Names) /\ (q # <<>> => q[1] \in Names)
    BY <1>3, <1>4
  <1> QED BY <1>4, <1>5

\* The name of a symbol is the last of its qualified name.
LEMMA LastIsName ==
    ASSUME ChunkInv, NEW i \in DOMAIN chunks
    PROVE  Last(Append(ParentNames(chunks[i]), Name(chunks[i]))) = Name(chunks[i])
  <1>1. PICK c : c = chunks[i]
    OBVIOUS
  <1>2. Known(file, c) /\ file \in Files
    BY <1>1, ChunkNumbers DEF ChunkInv, ChunksKnown, Inv, TypeOK
  <1>4. \E S : ParentNames(c) \in Seq(S)
    <2>1. CASE c.named
      <3>1. RawChunks(file) # <<>> /\ c.of \in 1..Len(RawChunks(file))
        BY <1>2, <2>1 DEF Known
      <3>2. file.decls[c.of].parents \in Seq(Names)
        BY <1>2, <3>1, ChunkOfDecl, DeclNames
      <3> QED BY <2>1, <3>2 DEF ParentNames, Decl
    <2>2. CASE ~c.named
      BY <2>2 DEF ParentNames
    <2> QED BY <2>1, <2>2
  <1>5. PICK S : ParentNames(c) \in Seq(S)
    BY <1>4
  <1>6. PICK q, n : q = ParentNames(c) /\ n = Name(c)
    OBVIOUS
  <1>7. q \in Seq(S \cup {n}) /\ n \in S \cup {n}
    BY <1>5, <1>6
  <1>8. Len(Append(q, n)) = Len(q) + 1 /\ Append(q, n)[Len(q) + 1] = n
    BY <1>7
  <1>9. Last(Append(q, n)) = n
    BY <1>8 DEF Last
  <1> QED BY <1>1, <1>6, <1>9

\* Two chunks have one id.
LEMMA SameIdSameChunk ==
    ASSUME ChunkInv, NEW i \in DOMAIN chunks, NEW j \in DOMAIN chunks, i < j,
           Id(chunks[i]) = Id(chunks[j]),
           ~\E c \in {chunks[i], chunks[j]} : ~c.named /\ c.of # 0
    PROVE  /\ chunks[i].named /\ chunks[j].named /\ Name(chunks[i]) = Name(chunks[j])
           /\ chunks[i].from = chunks[j].from /\ chunks[i].to = chunks[j].to
  <1>1. PICK c, d : c = chunks[i] /\ d = chunks[j]
    OBVIOUS
  <1>2. Known(file, c) /\ Known(file, d) /\ i \in 1..Len(chunks) /\ j \in 1..Len(chunks)
    BY <1>1, ChunkNumbers DEF ChunkInv, ChunksKnown, Inv
  <1>3. c.first = d.first /\ c.last = d.last /\ Name(c) = Name(d)
    <2>1. <<c.first, c.last, Name(c)>> = <<d.first, d.last, Name(d)>>
      BY <1>1 DEF Id
    <2> QED BY <2>1
  <1>4. (c.named \/ c.of = 0) /\ (d.named \/ d.of = 0)
    BY <1>1
  <1>5. RawChunks(file) # <<>>
    <2> SUFFICES ASSUME RawChunks(file) = <<>> PROVE FALSE
      OBVIOUS
    <2>1. c.of = 0 /\ d.of = 0
      BY <1>2 DEF Known
    <2>2. c.first < d.first
      BY <1>1, <1>2, <2>1 DEF ChunkInv, FileWindows
    <2>3. c.first \in Nat
      BY <1>1, <1>2, ChunkNumbers DEF ChunkInv, Inv
    <2> QED BY <1>3, <2>2, <2>3
  <1>6. c.named /\ d.named
    <2>1. c.of # 0 /\ d.of # 0
      BY <1>2, <1>5 DEF Known
    <2> QED BY <1>4, <2>1
  <1>7. c.from = c.first /\ c.to = c.last /\ d.from = d.first /\ d.to = d.last
    BY <1>2, <1>6 DEF Known
  <1> QED BY <1>1, <1>3, <1>6, <1>7

\* What replaces the stored documents is right about vectors, links and losses.
LEMMA ReplaceKeeps == DocInv /\ Replace => DocInv'
  <1> SUFFICES ASSUME DocInv, Replace PROVE DocInv'
    OBVIOUS
  <1>1. /\ stage = "embed" /\ AllSettled /\ stage' = "stored"
        /\ UNCHANGED <<vars, header, skips, docs, symbols, edges, batches, shared>>
    BY DEF Replace, fileVars
  <1>2. ChunkInv'
    BY <1>1, ChunkInvKept DEF DocInv
  <1>3. Built'
    BY <1>1, SameChunksSameDocs DEF DocInv
  <1>4. Batched'
    BY <1>1, SameBatchesServed DEF DocInv
  <1>5. Quiet'
    BY <1>1 DEF Quiet, AllSettled
  <1>6. file' = file /\ chunks' = chunks /\ header' = header /\ skips' = skips
    BY <1>1 DEF vars
  <1>7. /\ \A d \in stored'.chunks : \E i \in DOMAIN chunks : IsFull(d, chunks[i])
        /\ \A i \in DOMAIN chunks :
             Id(chunks[i]) \notin Dropped(chunks) =>
               \E j \in DOMAIN chunks : /\ j >= i /\ Id(chunks[j]) = Id(chunks[i])
                                       /\ \E d \in stored'.chunks : IsFull(d, chunks[j])
        /\ stored'.symbols = SymbolsOf(chunks) /\ stored'.edges = EdgesOf(chunks)
    BY StoredNow
  <1>8. \A d, c : IsFull(d, c) =>
               /\ d.id = Id(c) /\ d.text = Text(c) /\ VectorOf(d.vector, d.text)
               /\ d.parent = Parent(chunks, c) /\ d.class = IsClass(c)
               /\ d.text.lines = <<c.from, c.to>>
    <2> SUFFICES ASSUME NEW d, NEW c, IsFull(d, c)
                 PROVE  /\ d.id = Id(c) /\ d.text = Text(c) /\ VectorOf(d.vector, d.text)
                        /\ d.parent = Parent(chunks, c) /\ d.class = IsClass(c)
                        /\ d.text.lines = <<c.from, c.to>>
      OBVIOUS
    <2>1. /\ d = [id |-> Id(c), text |-> Text(c), parent |-> Parent(chunks, c),
                  class |-> IsClass(c), vector |-> d.vector]
          /\ VectorOf(d.vector, Text(c))
      BY DEF IsFull, IsDoc
    <2>2. d.id = Id(c) /\ d.text = Text(c) /\ d.parent = Parent(chunks, c) /\ d.class = IsClass(c)
      BY <2>1
    <2>3. Text(c).lines = <<c.from, c.to>>
      BY DEF Text
    <2> QED BY <2>1, <2>2, <2>3
  <1>9. StoredFiled'
    <2> SUFFICES ASSUME NEW d \in stored'.chunks PROVE VectorOf(d.vector, d.text) /\ Filed(d)'
      BY <1>1, VectorsStay DEF StoredFiled, VectorsMatchText
    <2>1. PICK i \in DOMAIN chunks : IsFull(d, chunks[i])
      BY <1>7
    <2>2. PICK c : c = chunks[i]
      OBVIOUS
    <2>3. Known(file, c)
      BY <2>2, ChunkNumbers DEF DocInv, ChunkInv, ChunksKnown, Inv
    <2>4. /\ d.id = Id(c) /\ d.text.lines = <<c.from, c.to>> /\ d.class = IsClass(c)
          /\ d.parent = Parent(chunks, c) /\ VectorOf(d.vector, d.text)
      BY <1>8, <2>1, <2>2
    <2>5. \/ d.parent = NoId
          \/ ParentNames(c) # <<>>
             /\ \E a : /\ Known(file, a) /\ IsClass(a)
                       /\ Name(a) = ParentNames(c)[1] /\ d.parent = Id(a)
      BY <2>4, ParentIsClass DEF DocInv
    <2>6. Filed(d)
      BY <2>3, <2>4, <2>5 DEF Filed
    <2> QED BY <1>6, <2>4, <2>6, FiledStays
  <1>10. PICK S : S = stored'
    OBVIOUS
  <1>11. ASSUME NEW i \in DOMAIN chunks, Id(chunks[i]) \notin Dropped(chunks)
         PROVE  \E d \in S.chunks : d.id = Id(chunks[i])
    BY <1>7, <1>8, <1>10, <1>11
  <1>12. LinksResolve'
    <2>1. ASSUME NEW s \in S.symbols
          PROVE  \E d \in S.chunks : d.id = s.chunk /\ d.id[3] = Last(s.fqn)
      <3>1. PICK i \in DOMAIN chunks :
              /\ Id(chunks[i]) \notin Dropped(chunks)
              /\ s = [fqn |-> Append(ParentNames(chunks[i]), Name(chunks[i])), chunk |-> Id(chunks[i])]
        BY <1>7, <1>10, <2>1 DEF SymbolsOf, DroppedFrom
      <3>2. PICK d \in S.chunks : d.id = Id(chunks[i])
        BY <1>11, <3>1
      <3>3. Last(s.fqn) = Name(chunks[i])
        BY <3>1, LastIsName DEF DocInv
      <3>4. Id(chunks[i])[3] = Name(chunks[i])
        BY DEF Id
      <3>5. s.chunk = Id(chunks[i])
        BY <3>1
      <3> QED BY <3>2, <3>3, <3>4, <3>5
    <2>2. ASSUME NEW e \in S.edges PROVE e \in {d.id : d \in S.chunks}
      <3>1. PICK c \in ToSet(chunks) : e = Id(c) /\ e \notin Dropped(chunks)
        BY <1>7, <1>10, <2>2 DEF EdgesOf, DroppedFrom
      <3>2. PICK i \in DOMAIN chunks : chunks[i] = c
        BY DEF ToSet
      <3>3. PICK d \in S.chunks : d.id = Id(chunks[i])
        BY <1>11, <3>1, <3>2
      <3> QED BY <3>1, <3>2, <3>3
    <2> QED BY <1>10, <2>1, <2>2 DEF LinksResolve
  <1>13. IndexLosesOnlyPieces'
    <2>1. ASSUME NEW i \in DOMAIN chunks
          PROVE  \/ \E d \in S.chunks : d.text = Text(chunks[i])
                 \/ Id(chunks[i]) \in Dropped(chunks)
                 \/ \E j \in DOMAIN chunks :
                      /\ Id(chunks[j]) = Id(chunks[i]) /\ j > i
                      /\ \/ \E c \in {chunks[i], chunks[j]} : ~c.named /\ c.of # 0
                         \/ /\ chunks[i].named /\ chunks[j].named
                            /\ Name(chunks[i]) = Name(chunks[j])
                            /\ \E d \in S.chunks : d.text.lines = <<chunks[i].from, chunks[i].to>>
      <3> SUFFICES ASSUME Id(chunks[i]) \notin Dropped(chunks), ~\E d \in S.chunks : d.text = Text(chunks[i])
                   PROVE  \E j \in DOMAIN chunks :
                            /\ Id(chunks[j]) = Id(chunks[i]) /\ j > i
                            /\ \/ \E c \in {chunks[i], chunks[j]} : ~c.named /\ c.of # 0
                               \/ /\ chunks[i].named /\ chunks[j].named
                                  /\ Name(chunks[i]) = Name(chunks[j])
                                  /\ \E d \in S.chunks : d.text.lines = <<chunks[i].from, chunks[i].to>>
        OBVIOUS
      <3>1. PICK j \in DOMAIN chunks : /\ j >= i /\ Id(chunks[j]) = Id(chunks[i])
                                       /\ \E d \in S.chunks : IsFull(d, chunks[j])
        BY <1>7, <1>10
      <3>2. i \in Nat /\ j \in Nat
        BY ChunkNumbers DEF DocInv, ChunkInv, Inv
      <3>3. j # i
        BY <1>8, <3>1
      <3>4. i < j /\ j > i
        BY <3>1, <3>2, <3>3
      <3>5. CASE \E c \in {chunks[i], chunks[j]} : ~c.named /\ c.of # 0
        BY <3>1, <3>4, <3>5
      <3>6. CASE ~\E c \in {chunks[i], chunks[j]} : ~c.named /\ c.of # 0
        <4>1. /\ chunks[i].named /\ chunks[j].named /\ Name(chunks[i]) = Name(chunks[j])
              /\ chunks[i].from = chunks[j].from /\ chunks[i].to = chunks[j].to
          BY <3>1, <3>4, <3>6, SameIdSameChunk DEF DocInv
        <4>2. \E d \in S.chunks : d.text.lines = <<chunks[i].from, chunks[i].to>>
          BY <1>8, <3>1, <4>1
        <4> QED BY <3>1, <3>4, <4>1, <4>2
      <3> QED BY <3>5, <3>6
    <2>2. \A c : /\ Name(c)' = Name(c) /\ Id(c)' = Id(c)
      BY <1>6, SameFileSaysTheSame
    <2>3. \A c : Text(c)' = Text(c)
      BY <1>6 DEF Text, Id, Name, Decl, ParentNames, Secret
    <2>4. Dropped(chunks)' = Dropped(chunks)
      BY <1>6 DEF Dropped, Id, Name, Decl, Secret
    <2> QED BY <1>6, <1>10, <2>1, <2>2, <2>3, <2>4 DEF IndexLosesOnlyPieces
  <1> QED BY <1>1, <1>2, <1>3, <1>4, <1>5, <1>9, <1>12, <1>13 DEF DocInv, FailureHasCause

-----------------------------------------------------------------------------
(* Theorems about a file's documents.                                          *)

\* Nothing is stored yet.
LEMMA DocInvBegins == DocInit => DocInv
  <1> SUFFICES ASSUME DocInit PROVE DocInv
    OBVIOUS
  <1>1. ChunkInv
    BY ChunkInvBegins DEF DocInit
  <1>2. stage = "cut" /\ batches = <<>> /\ stored.chunks = {} /\ stored.symbols = {} /\ stored.edges = {}
    BY DEF DocInit
  <1> QED BY <1>1, <1>2 DEF DocInv, Built, Batched, Quiet, StoredFiled, VectorsMatchText, LinksResolve,
                            IndexLosesOnlyPieces, FailureHasCause

\* Nothing changes.
LEMMA StutterKeeps == DocInv /\ UNCHANGED <<vars, docVars>> => DocInv'
  <1> SUFFICES ASSUME DocInv, UNCHANGED <<vars, docVars>> PROVE DocInv'
    OBVIOUS
  <1>1. UNCHANGED <<vars, stage, header, skips, docs, symbols, edges, batches, stored, shared>>
    BY DEF docVars, fileVars
  <1>2. ChunkInv'
    BY <1>1, ChunkInvKept DEF DocInv
  <1>3. Built'
    BY <1>1, SameChunksSameDocs DEF DocInv, Built
  <1>4. Batched'
    BY <1>1, SameBatchesServed DEF DocInv, Batched
  <1>5. Quiet'
    BY <1>1 DEF DocInv, Quiet, AllSettled
  <1>6. file' = file /\ chunks' = chunks /\ header' = header /\ skips' = skips
    BY <1>1 DEF vars
  <1>7. StoredFiled'
    BY <1>1, <1>6, StoredStays DEF DocInv
  <1>8. IndexLosesOnlyPieces'
    <2>1. \A c : /\ Name(c)' = Name(c) /\ Id(c)' = Id(c)
      BY <1>6, SameFileSaysTheSame
    <2>2. \A c : Text(c)' = Text(c)
      BY <1>6 DEF Text, Id, Name, Decl, ParentNames, Secret
    <2>3. Dropped(chunks)' = Dropped(chunks)
      BY <1>6 DEF Dropped, Id, Name, Decl, Secret
    <2> QED BY <1>1, <1>6, <2>1, <2>2, <2>3 DEF DocInv, IndexLosesOnlyPieces
  <1>9. LinksResolve' /\ FailureHasCause'
    BY <1>1 DEF DocInv, LinksResolve, FailureHasCause, Attempts, Larger
  <1> QED BY <1>1, <1>2, <1>3, <1>4, <1>5, <1>7, <1>8, <1>9 DEF DocInv

\* What a file's documents, requests and stored chunks are stays true in every step.
THEOREM DocInvariance == DocSpec => []DocInv
<1>1. DocInv /\ [DocNext]_<<vars, docVars>> => DocInv'
  BY CutKeeps, BuildKeeps, ReplaceKeeps, FailKeeps, AgainKeeps, RequestKeeps, StutterKeeps DEF DocNext
<1> QED
  BY <1>1, DocInvBegins, PTL DEF DocSpec

\* Every stored vector is the answer to the text it is stored with.
THEOREM VectorsOfTexts == DocSpec => []VectorsMatchText
<1>1. DocInv => VectorsMatchText
  BY DEF DocInv, StoredFiled, VectorsMatchText
<1> QED
  BY <1>1, DocInvariance, PTL

\* In the index, symbols and edges point at chunks that are there.
THEOREM LinksAlwaysResolve == DocSpec => []LinksResolve
  BY DocInvariance, PTL DEF DocInv

\* The index loses only pieces, and declarations whose lines it has under the same id.
THEOREM LosesOnlyPieces == DocSpec => []IndexLosesOnlyPieces
  BY DocInvariance, PTL DEF DocInv

\* A file is given up only for a request that was refused, failed at every attempt or was
\* answered with too few vectors.
THEOREM FailuresHaveCauses == DocSpec => []FailureHasCause
  BY DocInvariance, PTL DEF DocInv

\* Cutting loses no line when it is done again, and with documents made in between.
THEOREM DocumentsLoseNoLine == DocSpec => []NoLineLost
<1>1. DocInv => NoLineLost
  BY DEF DocInv, ChunkInv, Inv
<1> QED
  BY <1>1, DocInvariance, PTL

-----------------------------------------------------------------------------
(* Parents.                                                                    *)

\* Files are what the parsers make of trees; only code declares classes.
ParsedFiles ==
    \A f \in Files : \E kind, style, widths, nodes, secrets :
        /\ Tree(nodes)
        /\ kind # "code" => \A n \in DOMAIN nodes : nodes[n].kind # "class"
        /\ f = Parse(kind, style, widths, nodes, secrets)

\* The outermost parent of a declaration is a class declared around it.
Nests(f) ==
    \A n \in DOMAIN f.decls :
        f.decls[n].parents # <<>> =>
          /\ f.kind = "code"
          /\ \E m \in DOMAIN f.decls :
               /\ f.decls[m].class /\ f.decls[m].name = f.decls[n].parents[1]
               /\ f.marks[m].first <= f.marks[n].first /\ f.marks[n].last <= f.marks[m].last

\* Parsing a syntax tree finds the class of the outermost parent, around the declaration.
LEMMA ParsesNest ==
    ASSUME NEW kind, NEW style, NEW widths, NEW nodes, NEW secrets, Tree(nodes),
           kind # "code" => \A n \in DOMAIN nodes : nodes[n].kind # "class",
           NEW f, f = Parse(kind, style, widths, nodes, secrets)
    PROVE  Nests(f)
  <1>1. PICK size \in Nat : DOMAIN nodes = 1..size
    BY DEF Tree
  <1> DEFINE D == {n \in DOMAIN nodes : Declared(style, nodes, n)}
             at == Placed(Counts(D))
             Around(n) == {m \in nodes[n].around : style # "regex" /\ nodes[m].kind = "class"
                                                                  /\ nodes[m].name # NoName}
             ids == [n \in DOMAIN nodes |-> n]
             found == Picked(ids, D)
             k == Cardinality(D)
  <1>2. Picks(ids, D, at) /\ D \in SUBSET (1..size)
    <2>1. D \in SUBSET (1..size)
      BY <1>1
    <2> HIDE DEF D, ids
    <2> QED BY <2>1, PickedInOrder
  <1>3. k \in Nat /\ DOMAIN found = 1..k /\ \A i \in 1..k : found[i] = at[i] /\ at[i] \in D
    <2>1. k \in Nat /\ found = [i \in 1..k |-> ids[at[i]]] /\ \A i \in 1..k : at[i] \in D
      BY <1>2 DEF Picks
    <2>2. \A n \in D : ids[n] = n
      BY <1>1, <1>2
    <2> HIDE DEF D, at, ids, k, found
    <2> QED BY <2>1, <2>2
  <1>4. \A n \in D : \E i \in 1..k : at[i] = n
    BY <1>2 DEF Picks
  <1> HIDE DEF ids, found, at, k
  <1> DEFINE NamesOf(ns) == [i \in DOMAIN ns |-> ns[i].name]
  <1>5. /\ f.kind = kind
        /\ f.marks = [i \in DOMAIN found |-> [first |-> nodes[found[i]].first,
                                             last |-> LastLine(style, widths, nodes, found[i])]]
        /\ f.decls = [i \in DOMAIN found |-> [name |-> nodes[found[i]].name,
                                             class |-> nodes[found[i]].kind = "class",
                                             parents |-> NamesOf(Parents(style, nodes, found[i]))]]
    BY DEF Parse, found, ids, D
  <1>6. DOMAIN f.decls = 1..k /\ \A i \in 1..k :
          /\ f.decls[i].name = nodes[at[i]].name /\ f.decls[i].class = (nodes[at[i]].kind = "class")
          /\ f.decls[i].parents = NamesOf(Parents(style, nodes, at[i]))
          /\ f.marks[i].first = nodes[at[i]].first
          /\ f.marks[i].last = LastLine(style, widths, nodes, at[i])
    <2> HIDE DEF NamesOf, D
    <2> QED BY <1>3, <1>5
  <1> HIDE DEF NamesOf
  <1> SUFFICES ASSUME NEW i \in 1..k, f.decls[i].parents # <<>>
               PROVE  /\ kind = "code"
                      /\ \E j \in 1..k : /\ f.decls[j].class /\ f.decls[j].name = f.decls[i].parents[1]
                                         /\ f.marks[j].first <= f.marks[i].first
                                         /\ f.marks[i].last <= f.marks[j].last
    BY <1>5, <1>6 DEF Nests
  <1>7. PICK n : n = at[i]
    OBVIOUS
  <1>8. n \in DOMAIN nodes /\ Declared(style, nodes, n)
    BY <1>3, <1>7
  <1>9. PICK m \in Around(n) : f.decls[i].parents[1] = nodes[m].name
    <2> DEFINE A == Around(n)
               pl == Placed(Counts(A))
               c == Cardinality(A)
    <2>1. A \in SUBSET (1..size)
      BY <1>1, <1>8 DEF Tree
    <2> HIDE DEF A
    <2>2. Picks(nodes, A, pl)
      BY <2>1, PickedInOrder
    <2>3. Parents(style, nodes, n) = Picked(nodes, A)
      BY DEF Parents, A
    <2>4. c \in Nat /\ Parents(style, nodes, n) = [x \in 1..c |-> nodes[pl[x]]]
      BY <2>2, <2>3 DEF Picks
    <2> HIDE DEF pl
    <2>5. f.decls[i].parents = [x \in 1..c |-> nodes[pl[x]].name]
      <3>1. f.decls[i].parents = NamesOf(Parents(style, nodes, n))
        BY <1>6, <1>7
      <3>2. PICK ps : ps = Parents(style, nodes, n)
        OBVIOUS
      <3>3. DOMAIN ps = 1..c /\ \A x \in 1..c : ps[x] = nodes[pl[x]]
        BY <2>4, <3>2
      <3>4. NamesOf(ps) = [x \in 1..c |-> nodes[pl[x]].name]
        BY <3>3 DEF NamesOf
      <3> QED BY <3>1, <3>2, <3>4
    <2>6. c # 0
      <3> SUFFICES ASSUME c = 0 PROVE FALSE
        OBVIOUS
      <3>1. 1..c = {}
        OBVIOUS
      <3>2. f.decls[i].parents = <<>>
        BY <2>5, <3>1
      <3> QED BY <3>2
    <2>7. 1 \in 1..c
      BY <2>4, <2>6
    <2>8. pl[1] \in A /\ f.decls[i].parents[1] = nodes[pl[1]].name
      BY <2>2, <2>5, <2>7 DEF Picks, pl
    <2> QED BY <2>8 DEF A
  <1>10. /\ m \in nodes[n].around /\ style # "regex" /\ nodes[m].kind = "class"
         /\ nodes[m].name # NoName
    OBVIOUS
  <1>11. /\ m \in DOMAIN nodes /\ nodes[m].around \subseteq nodes[n].around
         /\ nodes[m].first <= nodes[n].first /\ nodes[n].last <= nodes[m].last
    BY <1>8, <1>10 DEF Tree
  <1>12. Declared(style, nodes, m)
    BY <1>8, <1>10, <1>11 DEF Declared
  <1>13. PICK j \in 1..k : at[j] = m
    BY <1>4, <1>11, <1>12
  <1>14. \A x : LastLine(style, widths, nodes, x) = nodes[x].last
    BY <1>10 DEF LastLine
  <1>15. kind = "code"
    BY <1>10, <1>11
  <1>16. f.decls[j].class
    <2>1. f.decls[j].class = (nodes[m].kind = "class")
      BY <1>6, <1>13
    <2> QED BY <1>10, <2>1
  <1>17. f.decls[j].name = f.decls[i].parents[1]
    BY <1>6, <1>9, <1>13
  <1>18. /\ f.marks[j].first = nodes[m].first /\ f.marks[j].last = nodes[m].last
         /\ f.marks[i].first = nodes[n].first /\ f.marks[i].last = nodes[n].last
    BY <1>6, <1>7, <1>13, <1>14
  <1>19. f.marks[j].first <= f.marks[i].first /\ f.marks[i].last <= f.marks[j].last
    BY <1>11, <1>18
  <1> QED BY <1>13, <1>15, <1>16, <1>17, <1>19

\* The marks of a named chunk's declaration.
LEMMA KnownMarks ==
    ASSUME NEW f \in Files, NEW c, Known(f, c), c.named, f.kind = "code"
    PROVE  /\ c.of \in DOMAIN f.decls /\ c.of \in DOMAIN f.marks /\ DOMAIN f.decls = DOMAIN f.marks
           /\ c.from = f.marks[c.of].first /\ c.first = f.marks[c.of].first
           /\ c.to = f.marks[c.of].last /\ c.last = f.marks[c.of].last
  <1>1. RawChunks(f) = f.marks
    BY DEF RawChunks
  <1>2. FileShape(f) /\ DeclShape(f)
    BY ChunkingAssumption, FileDocumentsAssumption DEF ChunkingAssumption, FileDocumentsAssumption
  <1>3. DOMAIN f.marks = 1..Len(f.marks)
    BY <1>2 DEF FileShape
  <1> DEFINE R == [name : Names \cup {NoName}, class : BOOLEAN, parents : Seq(Names)]
  <1>4. f.decls \in Seq(R) /\ Len(f.decls) = Len(f.marks)
    BY <1>2 DEF DeclShape
  <1> HIDE DEF R
  <1>5. DOMAIN f.decls = 1..Len(f.marks)
    BY <1>4
  <1>6. f.marks # <<>> /\ c.of \in 1..Len(f.marks)
    BY <1>1 DEF Known
  <1>7. c.from = f.marks[c.of].first /\ c.first = f.marks[c.of].first
        /\ c.to = f.marks[c.of].last /\ c.last = f.marks[c.of].last
    BY <1>1 DEF Known
  <1> QED BY <1>3, <1>5, <1>6, <1>7

\* If declarations nest, so do the stored chunks, by way of their ids.
LEMMA StoredNest ==
    ASSUME ChunkInv, StoredFiled, Nests(file)
    PROVE  ParentsEnclose
  <1> SUFFICES ASSUME \A i, j \in DOMAIN file.decls :
                        i # j /\ file.decls[i].class /\ file.decls[j].name = file.decls[i].name
                          => ~file.decls[j].class /\ file.marks[j] # file.marks[i],
                      NEW d \in stored.chunks, NEW p \in stored.chunks, d.parent = p.id
               PROVE  p.class /\ p.text.lines[1] <= d.text.lines[1] /\ d.text.lines[2] <= p.text.lines[2]
    BY DEF ParentsEnclose
  <1>1. file \in Files
    BY DEF ChunkInv, Inv, TypeOK
  <1>2. PICK q : Known(file, q) /\ p.id = Id(q) /\ p.text.lines = <<q.from, q.to>> /\ p.class = IsClass(q)
    BY DEF StoredFiled, Filed
  <1>3. PICK c : /\ Known(file, c) /\ d.text.lines = <<c.from, c.to>>
                 /\ \/ d.parent = NoId
                    \/ ParentNames(c) # <<>>
                       /\ \E a : /\ Known(file, a) /\ IsClass(a)
                                 /\ Name(a) = ParentNames(c)[1] /\ d.parent = Id(a)
    BY DEF StoredFiled, Filed
  <1>4. p.id # NoId
    BY <1>2 DEF Id, NoId
  <1>5. ParentNames(c) # <<>> /\ c.named
    BY <1>3, <1>4 DEF ParentNames
  <1>6. PICK a : Known(file, a) /\ IsClass(a) /\ Name(a) = ParentNames(c)[1] /\ Id(q) = Id(a)
    BY <1>2, <1>3, <1>4
  <1>7. a.named /\ file.decls[a.of].class /\ file.decls[a.of].name = Name(a)
    BY <1>6 DEF IsClass, Decl, Name
  <1>8. q.first = a.first /\ q.last = a.last /\ Name(q) = Name(a)
    <2>1. <<q.first, q.last, Name(q)>> = <<a.first, a.last, Name(a)>>
      BY <1>6 DEF Id
    <2> QED BY <2>1
  <1>9. file.decls[c.of].parents = ParentNames(c)
    BY <1>5 DEF ParentNames, Decl
  <1>10. c.of \in DOMAIN file.decls
    <2>1. RawChunks(file) # <<>>
      BY <1>3, <1>5 DEF Known
    <2>2. c.of \in 1..Len(RawChunks(file))
      BY <1>3, <2>1 DEF Known
    <2> QED BY <2>2, <1>1, ChunkOfDecl
  <1>11. PICK m \in DOMAIN file.decls :
           /\ file.kind = "code" /\ file.decls[m].class /\ file.decls[m].name = ParentNames(c)[1]
           /\ file.marks[m].first <= file.marks[c.of].first /\ file.marks[c.of].last <= file.marks[m].last
    BY <1>5, <1>9, <1>10 DEF Nests
  <1>12. m = a.of
    <2>1. a.of \in DOMAIN file.decls
      BY <1>1, <1>6, <1>7, <1>11, KnownMarks
    <2> QED BY <1>6, <1>7, <1>11, <2>1
  <1>13. q.named
    <2>1. ParentNames(c)[1] \in Names
      BY <1>1, <1>5, <1>9, <1>10, DeclNames
    <2>2. NoName \notin Names
      BY FileDocumentsAssumption DEF FileDocumentsAssumption
    <2> QED BY <1>6, <1>8, <2>1, <2>2 DEF Name
  <1>14. q.of = m
    <2>1. /\ q.of \in DOMAIN file.decls /\ q.of \in DOMAIN file.marks /\ m \in DOMAIN file.marks
          /\ file.marks[q.of].first = file.marks[m].first /\ file.marks[q.of].last = file.marks[m].last
      BY <1>1, <1>2, <1>6, <1>7, <1>8, <1>11, <1>12, <1>13, KnownMarks
    <2>2. file.marks[q.of] = file.marks[m]
      <3>1. FileShape(file)
        BY <1>1, ChunkingAssumption DEF ChunkingAssumption
      <3>2. file.marks[q.of] \in Interval /\ file.marks[m] \in Interval
        BY <2>1, <3>1 DEF FileShape
      <3>3. PICK x, y : x = file.marks[q.of] /\ y = file.marks[m]
        OBVIOUS
      <3>4. x \in [first : Nat, last : Nat] /\ y \in [first : Nat, last : Nat]
            /\ x.first = y.first /\ x.last = y.last
        BY <2>1, <3>2, <3>3 DEF Interval
      <3> QED BY <3>3, <3>4
    <2>3. file.decls[q.of].name = file.decls[m].name
      BY <1>6, <1>8, <1>11, <1>13 DEF Name, Decl
    <2> QED BY <1>11, <2>1, <2>2, <2>3
  <1>15. IsClass(q)
    BY <1>11, <1>13, <1>14 DEF IsClass, Decl
  <1>16. /\ q.from = file.marks[m].first /\ q.to = file.marks[m].last
         /\ c.from = file.marks[c.of].first /\ c.to = file.marks[c.of].last
    BY <1>1, <1>2, <1>3, <1>5, <1>11, <1>13, <1>14, KnownMarks
  <1>17. q.from <= c.from /\ c.to <= q.to
    BY <1>11, <1>16
  <1> QED BY <1>2, <1>3, <1>15, <1>17

\* A chunk's parent is a class around it: for files whose declarations come from a syntax
\* tree, as those of a language with a parser do.
THEOREM ParentsAreAround == ParsedFiles => (DocSpec => []ParentsEnclose)
<1> SUFFICES ASSUME ParsedFiles PROVE DocSpec => []ParentsEnclose
  OBVIOUS
<1>1. DocInv => ParentsEnclose
  <2>1. \A f \in Files : Nests(f)
    BY ParsesNest DEF ParsedFiles
  <2>2. ChunkInv => file \in Files
    BY DEF ChunkInv, Inv, TypeOK
  <2> QED BY <2>1, <2>2, StoredNest DEF DocInv
<1> QED
  BY <1>1, DocInvariance, PTL
=============================================================================
