------------------------------- MODULE Chunking -------------------------------
(***************************************************************************)
(* How the text of one file is cut into chunks: the chunks of its          *)
(* declarations or sections, the splitting of those that are too long, and *)
(* the windows over files that have neither. A line is its width; a chunk  *)
(* is the numbers it carries and the lines of the file that are its text.  *)
(***************************************************************************)
EXTENDS Integers, Sequences, FiniteSets

CONSTANTS
    Files,       \* what a file may be: see FileShape
    Overlaps,    \* values of chunk_overlap_lines
    MaxChars     \* max_chunk_chars

VARIABLES
    file,        \* the file being chunked
    overlap,     \* the setting in force
    step,        \* "raw", "split", "window" or "done"
    next,        \* the next raw chunk to split
    text,        \* the lines fixed_size_chunks windows over
    start,       \* ... and how many of them the next window skips
    chunks       \* the result

vars == <<file, overlap, step, next, text, start, chunks>>

\* The kind decides what is extracted. `marks' is what the parser found: the lines
\* of each declaration in the order in which the parser visits them, or of each
\* markdown heading. A file that does not parse has none.
Interval == [first : Nat, last : Nat]
FileShape(f) ==
    /\ f.kind \in {"code", "markdown", "text"}
    /\ f.widths \in Seq(Nat)
    /\ f.marks \in Seq(Interval)
    /\ \A i \in DOMAIN f.marks :
          1 <= f.marks[i].first /\ f.marks[i].first <= f.marks[i].last
                                /\ f.marks[i].last <= Len(f.widths)
    /\ f.kind = "markdown" =>
          \A i \in 2..Len(f.marks) : f.marks[i - 1].first < f.marks[i].first

ASSUME ChunkingAssumption ==
    /\ MaxChars \in Nat \ {0}
    /\ Overlaps \subseteq Int
    /\ \A f \in Files : FileShape(f)

Lines(f) == Len(f.widths)

\* `first' and `last' are the numbers the chunk carries, from..to the lines that are
\* its text, `named' whether it carries its symbol or section title. `of' is
\* history: the raw chunk it was made from, 0 for the whole file.
Chunk == [first : Nat, last : Nat, from : Nat, to : Nat, named : BOOLEAN, of : Nat]

\* Type correctness.
TypeOK ==
    /\ file \in Files
    /\ overlap \in Overlaps
    /\ step \in {"raw", "split", "window", "done"}
    /\ next \in Nat
    /\ text \in [first : Nat, last : Nat, of : Nat]
    /\ start \in Nat
    /\ chunks \in Seq(Chunk)

NoText == [first |-> 1, last |-> 0, of |-> 0]

Init ==
    /\ file \in Files
    /\ overlap \in Overlaps
    /\ step = "raw"
    /\ next = 1
    /\ text = NoText
    /\ start = 0
    /\ chunks = <<>>

-----------------------------------------------------------------------------
(* The raw chunks of a file.                                               *)

\* A section ends before the next heading; what precedes the first belongs to none.
Section(f, i) ==
    [first |-> f.marks[i].first,
     last  |-> IF i < Len(f.marks) THEN f.marks[i + 1].first - 1 ELSE Lines(f)]

RawChunks(f) ==
    CASE f.kind = "code"     -> f.marks
      [] f.kind = "markdown" -> [i \in DOMAIN f.marks |-> Section(f, i)]
      [] OTHER               -> <<>>

WholeFile(f) == [first |-> 1, last |-> Lines(f), of |-> 0]

\* Without declarations or sections the whole file is cut into windows.
Extract ==
    /\ step = "raw"
    /\ IF RawChunks(file) = <<>>
         THEN step' = "window" /\ text' = WholeFile(file)
         ELSE step' = "split"  /\ UNCHANGED text
    /\ UNCHANGED <<file, overlap, next, start, chunks>>

-----------------------------------------------------------------------------
(* split_large_chunks.                                                     *)

\* How many characters the lines have.
Width(from, to) == Cardinality(UNION {{l} \X (1..file.widths[l]) : l \in from..to})

\* The length of the lines joined by newlines.
Joined(r) == Width(r.first, r.last) + (r.last - r.first)

\* A chunk that fits is kept as it is ...
Keep ==
    /\ step = "split"
    /\ next <= Len(RawChunks(file))
    /\ LET r == RawChunks(file)[next] IN
       /\ Joined(r) <= MaxChars
       /\ chunks' = Append(chunks, [first |-> r.first, last |-> r.last, from |-> r.first,
                                    to |-> r.last, named |-> TRUE, of |-> next])
    /\ next' = next + 1
    /\ UNCHANGED <<file, overlap, step, text, start>>

\* splitlines() of a text joined from lines: an empty last line is not seen again.
SplitLast(r) == IF file.widths[r.last] = 0 THEN r.last - 1 ELSE r.last

\* ... and a longer one is cut into windows, which know neither its symbol nor
\* where in the file it began.
Split ==
    /\ step = "split"
    /\ next <= Len(RawChunks(file))
    /\ LET r == RawChunks(file)[next] IN
       /\ Joined(r) > MaxChars
       /\ text' = [first |-> r.first, last |-> SplitLast(r), of |-> next]
    /\ start' = 0
    /\ step' = "window"
    /\ next' = next + 1
    /\ UNCHANGED <<file, overlap, chunks>>

-----------------------------------------------------------------------------
(* fixed_size_chunks.                                                      *)

TextLines == text.last - text.first + 1

\* The characters of a window, a newline for each line.
Chars(s, e) == IF e = s THEN 0 ELSE Width(text.first + s, text.first + e - 1) + (e - s)

\* A window takes lines until it has reached the limit or the text ends.
IsWindow(s, e) ==
    /\ e \in s..TextLines
    /\ e = TextLines \/ Chars(s, e) >= MaxChars
    /\ \A x \in s..(e - 1) : Chars(s, x) < MaxChars

NumberedFromZero(s) == s
Numbered(s) == s + 1

Larger(x, y) == IF x > y THEN x ELSE y

WindowChunk(s, e) ==
    [first |-> Numbered(s), last |-> Larger(s + 1, e),
     from |-> text.first + s, to |-> text.first + e - 1, named |-> FALSE, of |-> text.of]

NextStartUnchecked(s, e) == e - Larger(0, overlap)
NextStartStuck(s, e)     == Larger(s, e - Larger(0, overlap))
NextStartTooFar(s, e)    == e + 1
NextStart(s, e) == Larger(s + 1, e - Larger(0, overlap))

\* The next window begins `overlap' lines before the end of this one, but at least
\* a line after its start.
Window ==
    /\ step = "window"
    /\ start < TextLines
    /\ \E e \in start..TextLines :
         /\ IsWindow(start, e)
         /\ chunks' = Append(chunks, WindowChunk(start, e))
         /\ start' = NextStart(start, e)
    /\ UNCHANGED <<file, overlap, step, next, text>>

EndText ==
    /\ step = "window"
    /\ start >= TextLines
    /\ step' = IF text.of = 0 THEN "done" ELSE "split"
    /\ UNCHANGED <<file, overlap, next, text, start, chunks>>

Finish ==
    /\ step = "split"
    /\ next > Len(RawChunks(file))
    /\ step' = "done"
    /\ UNCHANGED <<file, overlap, next, text, start, chunks>>

Next == Extract \/ Keep \/ Split \/ Window \/ EndText \/ Finish

Spec == Init /\ [][Next]_vars

-----------------------------------------------------------------------------
(* Properties.                                                             *)

InSomeChunk(l) == \E i \in DOMAIN chunks : chunks[i].from <= l /\ l <= chunks[i].to

\* Lines that must end up in a chunk: all of a file that is cut into windows, else
\* those of its declarations or sections.
Wanted(f, l) ==
    \/ RawChunks(f) = <<>>
    \/ \E i \in DOMAIN RawChunks(f) : RawChunks(f)[i].first <= l /\ l <= RawChunks(f)[i].last

\* Cutting loses no text: in the end every line that is not empty is part of a chunk,
\* for any overlap, also one longer than a window.
NoLineLost ==
    step = "done" =>
      \A l \in 1..Lines(file) : Wanted(file, l) /\ file.widths[l] > 0 => InSomeChunk(l)

\* The lines "#L..-L.." of a chunk's link are the lines of its text, for every chunk
\* that was not split out of a declaration or a section.
NumbersNameTheText ==
    \A i \in DOMAIN chunks :
        chunks[i].named \/ chunks[i].of = 0 =>
          chunks[i].first = chunks[i].from /\ chunks[i].last = chunks[i].to

\* No overlap makes the chunker window over the same lines for ever: each window begins
\* after the one before it, and ends no earlier.
WindowsAdvance ==
    [][Window => /\ start' > start
                 /\ \A i \in DOMAIN chunks :
                      chunks[i].of = text.of => chunks[i].to <= chunks'[Len(chunks')].to]_vars
=============================================================================
