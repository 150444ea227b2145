---------------------------- MODULE IndexDocument ----------------------------
(***************************************************************************)
(* One document of an index job: processFile and embedAndStore             *)
(* (internal/workflow/index_worker.go), the chunker's goroutine that feeds *)
(* it through chunkCh and errCh (internal/chunker), and the deadline that  *)
(* RunIndexing puts on both.                                               *)
(*                                                                         *)
(* Chunks are numbered in the order the chunker makes them. chunkCh has no *)
(* buffer: a chunk moves when both sides are ready. errCh holds one error, *)
(* and the only error a chunker of this program reports is that of its     *)
(* context, since Markdown is parsed before the chunker starts.            *)
(***************************************************************************)
EXTENDS Naturals, FiniteSets

CONSTANTS N,            \* chunks in the document
          BatchSize,    \* chunks embedded and stored together
          DocTimeouts,  \* values of IndexArgs.DocTimeout; only 0 matters
          Faults        \* what may go wrong: a subset of FaultKinds

\* "parse": the file cannot be read. "service": an embedding or an upsert fails.
\* "deadline": the document's time is up, or the job is cancelled.
FaultKinds == {"parse", "service", "deadline"}

ASSUME DocumentAssumption ==
    /\ N \in Nat
    /\ BatchSize \in Nat \ {0}
    /\ DocTimeouts \subseteq Nat
    /\ Faults \subseteq FaultKinds

VARIABLES ctxDone,      \* docCtx is done
          chunker,      \* the chunker's goroutine
          offered,      \* chunks it has made
          chunkErr,     \* errCh holds an error nobody has received
          file,         \* processFile
          last,         \* processFile: the batch is the rest of a closed chunkCh
          received,     \* chunks received from chunkCh
          chunksCount,  \* chunks stored, as processFile counts them
          points,       \* chunks whose point is in the collection
          result        \* what processFile returned: "none" yet, "ok", "failed"

chunkVars == <<chunker, offered, chunkErr>>
fileVars  == <<file, last, received, chunksCount, points, result>>
vars      == <<ctxDone, chunkVars, fileVars>>

Chunks == 1..N

-----------------------------------------------------------------------------
(* Faulty variants of the operators below, one plausible slip each. No      *)
(* specification uses them: they show which property notices which slip.    *)

StartIgnoringContext(pc) == file' = pc /\ UNCHANGED result
NeverCancelled == UNCHANGED ctxDone
SomeChunks == chunksCount > 0

-----------------------------------------------------------------------------
Return(r) == file' = "returned" /\ result' = r

\* embedAndStore makes a call next: with a done context it fails at once, and
\* one under way when the context ends may succeed or fail.
Start(pc) == IF ctxDone THEN Return("failed")
             ELSE file' = pc /\ UNCHANGED result

\* len(batch) >= batchSize, after a chunk was appended.
BatchFull == received' - chunksCount >= BatchSize

\* len(batch) = 0
BatchEmpty == received = chunksCount

Batch == (chunksCount + 1)..received

\* cancel(), deferred by the function RunIndexing runs for the document.
Cancel == ctxDone' = TRUE

\* context.WithTimeout(ctx, 0) is done when it is made.
Init ==
    /\ \E t \in DocTimeouts : ctxDone = (t = 0)
    /\ chunker = "none" /\ offered = 0 /\ chunkErr = FALSE
    /\ file = "parse" /\ last = FALSE
    /\ received = 0 /\ chunksCount = 0 /\ points = {} /\ result = "none"

-----------------------------------------------------------------------------
(* The chunker's goroutine *)

\* It has words for another chunk.
MakeChunk ==
    /\ chunker = "split"
    /\ offered < N
    /\ offered' = offered + 1
    /\ chunker' = "offer"
    /\ UNCHANGED <<ctxDone, chunkErr, fileVars>>

\* errCh is closed before chunkCh is.
EndOfDocument ==
    /\ chunker = "split"
    /\ offered = N
    /\ chunker' = "closing"
    /\ UNCHANGED <<ctxDone, offered, chunkErr, fileVars>>

\* It looks at its context between words or blocks, and while it waits for
\* chunkCh to take a chunk.
ChunkerCancelled ==
    /\ chunker \in {"split", "offer"}
    /\ ctxDone
    /\ chunkErr' = TRUE
    /\ chunker' = "closing"
    /\ UNCHANGED <<ctxDone, offered, fileVars>>

CloseChunks ==
    /\ chunker = "closing"
    /\ chunker' = "done"
    /\ UNCHANGED <<ctxDone, offered, chunkErr, fileVars>>

-----------------------------------------------------------------------------
(* processFile *)

Parse ==
    /\ file = "parse"
    /\ \/ file' = "receive" /\ chunker' = "split" /\ UNCHANGED result
       \/ "parse" \in Faults /\ Return("failed") /\ UNCHANGED chunker
    /\ UNCHANGED <<ctxDone, offered, chunkErr, last, received, chunksCount, points>>

ReceiveChunk ==
    /\ file = "receive" /\ chunker = "offer"
    /\ received' = received + 1
    /\ chunker' = "split"
    /\ IF BatchFull THEN Start("embed") ELSE UNCHANGED <<file, result>>
    /\ UNCHANGED <<ctxDone, offered, chunkErr, last, chunksCount, points>>

\* chunkCh is closed. The select may take it though errCh is ready as well.
ChunksClosed ==
    /\ file = "receive" /\ chunker = "done"
    /\ IF BatchEmpty THEN Return("ok") /\ UNCHANGED last
                     ELSE Start("embed") /\ last' = TRUE
    /\ UNCHANGED <<ctxDone, chunkVars, received, chunksCount, points>>

\* A closed errCh without an error makes the loop go round.
ReceiveError ==
    /\ file = "receive" /\ chunkErr
    /\ chunkErr' = FALSE
    /\ Return("failed")
    /\ UNCHANGED <<ctxDone, chunker, offered, last, received, chunksCount, points>>

Embed ==
    /\ file = "embed"
    /\ \/ Start("store")
       \/ ("service" \in Faults \/ ctxDone) /\ Return("failed")
    /\ UNCHANGED <<ctxDone, chunkVars, last, received, chunksCount, points>>

\* The points of a batch are upserted in groups, each of which may be stored
\* although an error is reported for it.
Store ==
    /\ file = "store"
    /\ \/ /\ points' = points \union Batch
          /\ chunksCount' = received
          /\ IF last THEN Return("ok") ELSE file' = "receive" /\ UNCHANGED result
       \/ /\ "service" \in Faults \/ ctxDone
          /\ \E k \in chunksCount..received :
                 points' = points \union ((chunksCount + 1)..k)
          /\ Return("failed")
          /\ UNCHANGED chunksCount
    /\ UNCHANGED <<ctxDone, chunkVars, last, received>>

-----------------------------------------------------------------------------
(* RunIndexing *)

LeaveDocument ==
    /\ file = "returned"
    /\ file' = "left"
    /\ Cancel
    /\ UNCHANGED <<chunkVars, last, received, chunksCount, points, result>>

Deadline ==
    /\ "deadline" \in Faults
    /\ ~ctxDone
    /\ ctxDone' = TRUE
    /\ UNCHANGED <<chunkVars, fileVars>>

Over == file = "left" /\ chunker \in {"none", "done"} /\ UNCHANGED vars

ChunkerStep == MakeChunk \/ EndOfDocument \/ ChunkerCancelled \/ CloseChunks
FileStep == \/ Parse \/ ReceiveChunk \/ ChunksClosed \/ ReceiveError
            \/ Embed \/ Store \/ LeaveDocument

Next == ChunkerStep \/ FileStep \/ Deadline \/ Over

Spec == Init /\ [][Next]_vars

-----------------------------------------------------------------------------
TypeOK ==
    /\ ctxDone \in BOOLEAN /\ chunkErr \in BOOLEAN /\ last \in BOOLEAN
    /\ chunker \in {"none", "split", "offer", "closing", "done"}
    /\ file \in {"parse", "receive", "embed", "store", "returned", "left"}
    /\ offered \in 0..N /\ received \in 0..N /\ chunksCount \in 0..N
    /\ points \subseteq Chunks
    /\ result \in {"none", "ok", "failed"}

\* RunIndexing counts a document as indexed; one without chunks is skipped.
Indexed == result = "ok" /\ chunksCount > 0

WholeBatches == \E k \in 0..N : chunksCount = k * BatchSize

\* A document reported as indexed has in the collection exactly as many chunks,
\* from its beginning, as the log says: no batch is missing or counted twice.
ReportedCountIsStored ==
    result = "ok" => points = 1..chunksCount

\* When a document is reported as indexed though a part of it is missing, the
\* chunker's error lies unread in errCh and the context ended exactly between
\* two batches: in any other place the batch under way fails and reports it.
PartialOnlyBetweenBatches ==
    Indexed /\ points # Chunks => chunkErr /\ ctxDone /\ WholeBatches

\* What is in the collection is always a beginning of the document, and never
\* more than was received, whichever batch failed half-way.
StoredIsPrefix ==
    \E k \in chunksCount..received : points = 1..k

\* What one would expect, and TLC refutes with the constants of the run (README,
\* Findings): a document reported as indexed is indexed whole.
IndexedIsWhole == Indexed => points = Chunks

-----------------------------------------------------------------------------
(* The inductive invariant behind these, proved in IndexJobProofs.          *)

\* A chunk is offered, or in the batch, or stored.
CountersOK ==
    /\ chunksCount <= received
    /\ received - chunksCount <= BatchSize
    /\ file = "receive" => received - chunksCount < BatchSize
    /\ file \in {"embed", "store"} /\ ~last => received - chunksCount = BatchSize
    /\ chunker = "offer" => offered = received + 1
    /\ chunker = "split" => offered = received
    /\ file = "parse" => chunker = "none" /\ offered = 0 /\ received = 0
    /\ ~last => WholeBatches

\* Only a done context makes the chunker stop before the end, and it says so.
EndOK ==
    /\ chunkErr => ctxDone /\ chunker \in {"closing", "done"}
    /\ chunker \in {"closing", "done"} /\ ~chunkErr /\ result # "failed" =>
           received = N
    /\ last => chunker = "done"
    /\ last /\ result # "failed" => ~chunkErr

\* Until processFile fails, exactly the batches it counted are stored.
PointsOK ==
    /\ StoredIsPrefix
    /\ result # "failed" => points = 1..chunksCount
    /\ result = "ok" => received = chunksCount /\ chunker = "done"
    /\ file \in {"returned", "left"} <=> result # "none"

IInv == TypeOK /\ CountersOK /\ EndOK /\ PointsOK
=============================================================================
