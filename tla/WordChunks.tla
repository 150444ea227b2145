------------------------------ MODULE WordChunks ------------------------------
(***************************************************************************)
(* How the two chunkers cut one run of words into overlapping chunks: the  *)
(* sliding window of FixedChunker.Chunk (internal/chunker/fixed.go) and    *)
(* RecursiveChunker.hardWordSplit (internal/chunker/recursive.go), to      *)
(* which the recursive chunker comes down when headings, paragraphs and    *)
(* sentences are still too long. Words are their positions, and a chunk is *)
(* the interval from its first word to its last.                           *)
(***************************************************************************)
EXTENDS Integers, Sequences

CONSTANTS MaxWords,     \* bound on the words of a run
          MaxSize,      \* bound on the configured chunk size
          MaxOverlap    \* bound on the configured overlap

ASSUME ChunkAssumption ==
    /\ MaxWords \in Nat
    /\ MaxSize \in Nat \ {0}
    /\ MaxOverlap \in Nat

Strategies == {"fixed", "recursive"}

VARIABLES strategy,     \* which chunker
          size,         \* its Size or MaxSize
          overlap,      \* its Overlap, after the constructor corrected it
          total,        \* words in the run
          cutter,       \* "read" a word, "emit" a full window, "done"
          from,         \* the first word of the window
          read,         \* words read so far
          chunks        \* chunks sent to chunkCh

config  == <<strategy, size, overlap, total>>
cutVars == <<config, cutter, from, read, chunks>>

-----------------------------------------------------------------------------
(* Faulty variants of the operators below, one plausible slip each. No      *)
(* specification uses them: they show which property notices which slip.    *)

EndsAtTotalMinusOne(l) == l >= total - 1

-----------------------------------------------------------------------------
\* NewFixedChunker and NewRecursiveChunker keep the overlap below the size.
Corrected(s, sz, o) == IF o < sz THEN o
                       ELSE IF s = "fixed" THEN sz - 1 ELSE sz \div 5

Step == size - overlap

\* len(window) > 0 at the end of the document.
WindowHasWords == read >= from

\* end == len(allWords)
AtEnd(l) == l = total

Emit(first, end) == chunks' = Append(chunks, [first |-> first, last |-> end])

CutInit ==
    /\ strategy \in Strategies
    /\ size \in 1..MaxSize
    /\ \E o \in 0..MaxOverlap : overlap = Corrected(strategy, size, o)
    /\ total \in 0..MaxWords
    /\ cutter = "read"
    /\ from = 1 /\ read = 0 /\ chunks = <<>>

\* for _, word := range words { window = append(window, word) ...
ReadWord ==
    /\ strategy = "fixed" /\ cutter = "read"
    /\ read < total
    /\ read' = read + 1
    /\ cutter' = IF read' - from + 1 >= size THEN "emit" ELSE "read"
    /\ UNCHANGED <<config, from, chunks>>

\* ... for len(window) >= c.Size { send it; window = window[step:] }
EmitWindow ==
    /\ cutter = "emit"
    /\ Emit(from, from + size - 1)
    /\ from' = from + Step
    /\ cutter' = IF read - from' + 1 >= size THEN "emit" ELSE "read"
    /\ UNCHANGED <<config, read>>

EmitRest ==
    /\ strategy = "fixed" /\ cutter = "read"
    /\ read = total
    /\ IF WindowHasWords THEN Emit(from, read) ELSE UNCHANGED chunks
    /\ cutter' = "done"
    /\ UNCHANGED <<config, from, read>>

\* hardWordSplit has all the words from the start.
SplitWords ==
    /\ strategy = "recursive" /\ cutter = "read"
    /\ LET end == IF from + size - 1 < total THEN from + size - 1 ELSE total
       IN /\ IF total = 0 THEN UNCHANGED chunks ELSE Emit(from, end)
          /\ read' = end
          /\ IF AtEnd(end) THEN cutter' = "done" /\ UNCHANGED from
                           ELSE cutter' = "read" /\ from' = from + Step
    /\ UNCHANGED config

Done == cutter = "done" /\ UNCHANGED cutVars

CutNext == ReadWord \/ EmitWindow \/ EmitRest \/ SplitWords \/ Done

CutSpec == CutInit /\ [][CutNext]_cutVars

-----------------------------------------------------------------------------
Interval == [first : 1..MaxWords, last : 1..MaxWords]

CutTypeOK ==
    /\ strategy \in Strategies
    /\ size \in 1..MaxSize
    /\ overlap \in 0..(size - 1)
    /\ total \in 0..MaxWords
    /\ cutter \in {"read", "emit", "done"}
    /\ from \in 1..(MaxWords + 1)
    /\ read \in 0..total
    /\ chunks \in Seq(Interval)

WordsOf(c) == c.first..c.last

\* Nothing of the text is lost: when the chunker is done, every word is in some
\* chunk, and no chunk is longer than the size it was configured with.
EveryWordInAChunk ==
    cutter = "done" =>
        /\ \A p \in 1..total : \E i \in 1..Len(chunks) : p \in WordsOf(chunks[i])
        /\ \A i \in 1..Len(chunks) :
               chunks[i].last - chunks[i].first < size

\* Neighbouring chunks share exactly the configured overlap, so a retrieved
\* chunk never misses context it was meant to carry, nor carries more.
NeighboursOverlap ==
    \A i \in 1..(Len(chunks) - 1) :
        chunks[i].last - chunks[i + 1].first + 1 = overlap

\* The chunks one expects: every Step words a window of size words, until one
\* reaches the end.
Window(i) == LET before == (i - 1) * Step
             IN  [first |-> before + 1,
                  last  |-> IF before + size < total THEN before + size ELSE total]

Windows(n) == [i \in 1..n |-> Window(i)]

ReachesEnd(s) == IF s = <<>> THEN total = 0 ELSE s[Len(s)].last = total

\* n windows reach the end, and fewer do not.
ShortestToEnd(n) == ReachesEnd(Windows(n)) /\ (n > 1 => ~ReachesEnd(Windows(n - 1)))

\* Both chunkers cut as expected; the fixed one may add a single chunk after the
\* one that reached the end, with no word that is not in it already.
CutAsExpected ==
    cutter = "done" =>
        \E n \in 0..Len(chunks) :
            /\ ShortestToEnd(n)
            /\ \/ chunks = Windows(n)
               \/ strategy = "fixed" /\ chunks = Windows(n + 1)

-----------------------------------------------------------------------------
(* The inductive invariant behind these, proved in IndexJobProofs.          *)

\* The window holds the words from..read and is never overfull; hardWordSplit
\* has words left whenever it goes round.
WindowOK ==
    /\ cutter = "emit" => strategy = "fixed" /\ read - from + 1 = size
    /\ strategy = "fixed" => from <= read + 1
    /\ strategy = "fixed" /\ cutter = "read" => read - from + 1 < size
    /\ strategy = "recursive" /\ cutter = "read" => from <= total \/ from = 1

\* The words before the window are in chunks, and the last chunk goes on for the
\* overlap into it.
CutSoFar ==
    /\ \A p \in 1..(from - 1) : \E i \in 1..Len(chunks) : p \in WordsOf(chunks[i])
    /\ \A i \in 1..Len(chunks) : chunks[i].last - chunks[i].first < size
    /\ cutter # "done" /\ Len(chunks) > 0 => chunks[Len(chunks)].last = from + overlap - 1

\* What was cut are the first windows expected, and the next one begins where it
\* should; hardWordSplit goes round only while the end is not reached.
OnGrid ==
    /\ chunks = Windows(Len(chunks))
    /\ cutter # "done" => from = Len(chunks) * Step + 1
    /\ strategy = "recursive" /\ cutter = "read" /\ Len(chunks) > 0 => chunks[Len(chunks)].last < total

CutInv == /\ CutTypeOK /\ WindowOK /\ CutSoFar /\ OnGrid
        /\ EveryWordInAChunk /\ NeighboursOverlap /\ CutAsExpected
=============================================================================
