--------------------------- MODULE IndexJobProofs ---------------------------
(* For any number of chunks, batch size, timeout and faults: what           *)
(* processFile reports about a document is what is in the collection, up to *)
(* the one error it can lose.                                               *)
(* For any documents, pool, attempts and faults: a document that the index  *)
(* of a completed job lacks was not listed, is named as skipped, went with  *)
(* its collection, or was cut between two batches.                          *)
(* For every size, overlap and length of a text: neither chunker loses a   *)
(* word, exceeds its size, or gets the overlap wrong.  A chunker is a       *)
(* system of its own here, beside the one of the job.                       *)
EXTENDS IndexJob, WordChunks, TLAPS

-----------------------------------------------------------------------------
(* One document: IndexDocument.                                             *)

\* The invariant holds before the file is parsed: nothing has been made yet.
LEMMA InitInv == Init => IInv
<1> SUFFICES ASSUME Init PROVE IInv
  OBVIOUS
<1> USE DocumentAssumption DEF Init
<1>1. TypeOK
  <2>1. ctxDone \in BOOLEAN
    BY Zenon
  <2>2. chunkErr \in BOOLEAN /\ last \in BOOLEAN
    BY Zenon
  <2>3. offered \in 0..N /\ received \in 0..N /\ chunksCount \in 0..N
    OBVIOUS
  <2> QED
    BY <2>1, <2>2, <2>3, Zenon DEF TypeOK
<1>2. WholeBatches
  <2>1. chunksCount = 0 * BatchSize
    OBVIOUS
  <2> QED
    BY <2>1 DEF WholeBatches
<1>3. CountersOK
  BY <1>2 DEF CountersOK
<1>4. EndOK
  BY DEF EndOK
<1>5. PointsOK
  BY DEF PointsOK, StoredIsPrefix
<1> QED
  BY <1>1, <1>3, <1>4, <1>5 DEF IInv

\* WholeBatches and StoredIsPrefix read only the variables they name, so a step
\* that leaves these alone preserves them.
LEMMA StoredUnchanged ==
  ASSUME UNCHANGED <<chunksCount, received, points>>
  PROVE  /\ WholeBatches' <=> WholeBatches
         /\ StoredIsPrefix => StoredIsPrefix'
BY DEF WholeBatches, StoredIsPrefix

\* A full batch, stored, leaves whole batches stored.
LEMMA OneMoreBatch ==
  ASSUME TypeOK, WholeBatches, chunksCount' = received, received \in 0..N,
         received - chunksCount = BatchSize
  PROVE  WholeBatches'
<1> USE DocumentAssumption
<1>1. PICK k \in 0..N : chunksCount = k * BatchSize
  BY DEF WholeBatches
<1>2. received = (k + 1) * BatchSize
  BY <1>1 DEF TypeOK
<1>3. k + 1 <= (k + 1) * BatchSize
  BY <1>1
<1>4. k + 1 \in 0..N
  BY <1>1, <1>2, <1>3
<1> QED
  BY <1>2, <1>4 DEF WholeBatches

\* The steps of the chunker's goroutine touch neither the batch nor the points.
LEMMA ChunkerInv ==
  ASSUME IInv, ChunkerStep
  PROVE  IInv'
<1> USE DocumentAssumption DEF IInv
<1>0. UNCHANGED fileVars
  BY DEF ChunkerStep, MakeChunk, EndOfDocument, ChunkerCancelled, CloseChunks
<1>1. /\ WholeBatches' <=> WholeBatches
      /\ StoredIsPrefix => StoredIsPrefix'
  BY <1>0, StoredUnchanged DEF fileVars
<1>2. TypeOK'
  <2>1. offered' \in 0..N
    BY DEF ChunkerStep, MakeChunk, EndOfDocument, ChunkerCancelled, CloseChunks,
           TypeOK
  <2> QED
    BY <1>0, <2>1, Zenon DEF fileVars, ChunkerStep, MakeChunk, EndOfDocument,
           ChunkerCancelled, CloseChunks, TypeOK
<1>3. CountersOK'
  BY <1>0, <1>1 DEF fileVars, ChunkerStep, MakeChunk, EndOfDocument,
              ChunkerCancelled, CloseChunks, TypeOK, CountersOK
<1>4. EndOK'
  BY <1>0 DEF fileVars, ChunkerStep, MakeChunk, EndOfDocument, ChunkerCancelled,
              CloseChunks, TypeOK, CountersOK, EndOK
<1>5. PointsOK'
  BY <1>0, <1>1 DEF fileVars, ChunkerStep, MakeChunk, EndOfDocument,
              ChunkerCancelled, CloseChunks, TypeOK, EndOK, PointsOK
<1> QED
  BY <1>2, <1>3, <1>4, <1>5

\* The steps of processFile that store nothing.
LEMMA ReceiveInv ==
  ASSUME IInv, Parse \/ ReceiveChunk \/ ChunksClosed \/ ReceiveError \/ Embed
  PROVE  IInv'
<1> USE DocumentAssumption DEF IInv, Return, Start
<1>1. CASE ReceiveChunk
  <2> USE <1>1 DEF ReceiveChunk, BatchFull
  <2>1. WholeBatches' <=> WholeBatches
    BY DEF WholeBatches
  <2>2. received' \in 0..N
    BY DEF CountersOK, TypeOK
  <2>3. TypeOK'
    BY <2>2 DEF TypeOK
  <2>4. CountersOK'
    BY <2>1 DEF CountersOK, TypeOK
  <2>5. EndOK'
    BY DEF EndOK, CountersOK, TypeOK
  <2>6. StoredIsPrefix'
    BY DEF PointsOK, StoredIsPrefix, TypeOK
  <2>7. PointsOK'
    BY <2>6 DEF PointsOK, TypeOK
  <2> QED
    BY <2>3, <2>4, <2>5, <2>7
<1>2. CASE Parse \/ ChunksClosed \/ ReceiveError \/ Embed
  <2> USE <1>2 DEF Parse, ChunksClosed, ReceiveError, Embed
  <2>1. UNCHANGED <<chunksCount, received, points>>
    OBVIOUS
  <2>2. /\ WholeBatches' <=> WholeBatches
        /\ StoredIsPrefix => StoredIsPrefix'
    BY <2>1, StoredUnchanged
  <2>3. TypeOK'
    BY DEF TypeOK, chunkVars
  <2>4. CountersOK'
    BY <2>2 DEF CountersOK, TypeOK, chunkVars
  <2>5. EndOK'
    BY DEF EndOK, CountersOK, PointsOK, TypeOK, BatchEmpty, chunkVars
  <2>6. PointsOK'
    BY <2>2 DEF PointsOK, TypeOK, BatchEmpty, chunkVars
  <2> QED
    BY <2>3, <2>4, <2>5, <2>6
<1> QED
  BY <1>1, <1>2

\* A batch is stored whole, or a beginning of it is and the document fails.
LEMMA StoreInv ==
  ASSUME IInv, Store
  PROVE  IInv'
<1> USE DocumentAssumption DEF IInv, Return, Store, Batch, chunkVars
<1>1. points = 1..chunksCount /\ result = "none"
  BY DEF PointsOK, TypeOK
<1>2. EndOK'
  BY <1>1 DEF EndOK, TypeOK
<1>3. CASE chunksCount' = received /\ points' = points \union Batch
           /\ IF last THEN Return("ok") ELSE file' = "receive" /\ UNCHANGED result
  <2>1. points' = 1..received
    BY <1>1, <1>3 DEF CountersOK, TypeOK
  <2>2. TypeOK'
    BY <1>3, <2>1 DEF TypeOK, Chunks
  <2>3. ~last' => WholeBatches'
    <3> SUFFICES ASSUME ~last PROVE WholeBatches'
      OBVIOUS
    <3>1. received - chunksCount = BatchSize /\ WholeBatches
      BY DEF CountersOK
    <3> QED
      BY <1>3, <3>1, OneMoreBatch DEF TypeOK
  <2>4. CountersOK'
    BY <1>3, <2>3 DEF CountersOK, TypeOK
  <2>5. StoredIsPrefix'
    BY <1>3, <2>1 DEF StoredIsPrefix, TypeOK
  <2>6. PointsOK'
    BY <1>1, <1>3, <2>1, <2>5 DEF PointsOK, EndOK, TypeOK
  <2> QED
    BY <1>2, <2>2, <2>4, <2>6
<1>4. CASE /\ \E k \in chunksCount..received :
                points' = points \union ((chunksCount + 1)..k)
           /\ Return("failed")
           /\ UNCHANGED chunksCount
  <2>1. PICK k \in chunksCount..received : points' = 1..k
    BY <1>1, <1>4 DEF CountersOK, TypeOK
  <2>2. TypeOK'
    BY <1>4, <2>1 DEF TypeOK, Chunks
  <2>3. WholeBatches' <=> WholeBatches
    BY <1>4 DEF WholeBatches
  <2>4. CountersOK'
    BY <1>4, <2>3 DEF CountersOK, TypeOK
  <2>5. StoredIsPrefix'
    BY <1>4, <2>1 DEF StoredIsPrefix
  <2>6. PointsOK'
    BY <1>4, <2>5 DEF PointsOK
  <2> QED
    BY <1>2, <2>2, <2>4, <2>6
<1> QED
  BY <1>3, <1>4

\* The caller's cancel, the deadline and a finished document.
LEMMA ContextInv ==
  ASSUME IInv, LeaveDocument \/ Deadline \/ UNCHANGED vars
  PROVE  IInv'
<1> USE DEF IInv, LeaveDocument, Cancel, Deadline, vars, chunkVars, fileVars
<1>1. /\ WholeBatches' <=> WholeBatches
      /\ StoredIsPrefix => StoredIsPrefix'
  BY StoredUnchanged
<1>2. TypeOK'
  BY DEF TypeOK
<1>3. CountersOK'
  BY <1>1 DEF CountersOK, TypeOK
<1>4. EndOK'
  BY DEF EndOK, TypeOK
<1>5. PointsOK'
  BY <1>1 DEF PointsOK, TypeOK
<1> QED
  BY <1>2, <1>3, <1>4, <1>5

LEMMA StepInv == IInv /\ [Next]_vars => IInv'
<1> SUFFICES ASSUME IInv, [Next]_vars PROVE IInv'
  OBVIOUS
<1>1. CASE ChunkerStep
  BY <1>1, ChunkerInv
<1>2. CASE Parse \/ ReceiveChunk \/ ChunksClosed \/ ReceiveError \/ Embed
  BY <1>2, ReceiveInv
<1>3. CASE Store
  BY <1>3, StoreInv
<1>4. CASE LeaveDocument \/ Deadline \/ UNCHANGED vars
  BY <1>4, ContextInv
<1> QED
  BY <1>1, <1>2, <1>3, <1>4 DEF Next, FileStep, Over

\* The invariant of processFile and the chunker holds throughout.
THEOREM Invariance == Spec => []IInv
<1>1. Init => IInv
  BY InitInv
<1>2. IInv /\ [Next]_vars => IInv'
  BY StepInv
<1> QED
  BY <1>1, <1>2, PTL DEF Spec

\* Variables have their types.
THEOREM TypeCorrect == Spec => []TypeOK
BY Invariance, PTL DEF IInv

\* The count reported for an indexed document is that of its stored chunks.
THEOREM CountReported == Spec => []ReportedCountIsStored
<1>1. IInv => ReportedCountIsStored
  BY DEF IInv, PointsOK, ReportedCountIsStored
<1> QED
  BY <1>1, Invariance, PTL

\* What a document has in the collection is a beginning of it.
THEOREM PrefixStored == Spec => []StoredIsPrefix
BY Invariance, PTL DEF IInv, PointsOK

LEMMA PartialFromIInv == IInv => PartialOnlyBetweenBatches
<1> SUFFICES ASSUME IInv, result = "ok", points # Chunks
             PROVE  chunkErr /\ ctxDone /\ WholeBatches
  BY DEF PartialOnlyBetweenBatches, Indexed
<1>1. points = 1..received /\ chunker = "done"
  BY DEF IInv, PointsOK
<1>2. chunkErr /\ ctxDone
  BY <1>1 DEF IInv, EndOK, Chunks
<1>3. ~last
  BY <1>2 DEF IInv, EndOK
<1> QED
  BY <1>2, <1>3 DEF IInv, CountersOK

\* A document is reported as indexed and indexed in part only if the chunker's
\* error was passed over between two whole batches.
THEOREM PartialBetweenBatches == Spec => []PartialOnlyBetweenBatches
BY Invariance, PartialFromIInv, PTL

-----------------------------------------------------------------------------
(* The job over all documents: IndexJob.                                    *)

\* A document that has not begun, or whose goroutines are gone, has the
\* invariant of IndexDocument when its counters have.
LEMMA DocInit == JobInit => IInv
<1> SUFFICES ASSUME JobInit PROVE IInv
  OBVIOUS
<1> USE DocumentAssumption DEF JobInit
<1>1. ctxDone \in BOOLEAN /\ chunkErr \in BOOLEAN /\ last \in BOOLEAN
  BY Zenon
<1>2. offered \in 0..N /\ received \in 0..N /\ chunksCount \in 0..N
  OBVIOUS
<1>3. TypeOK
  BY <1>1, <1>2, Zenon DEF TypeOK
<1>4. chunksCount = 0 * BatchSize /\ 0 \in 0..N
  OBVIOUS
<1>5. WholeBatches
  BY <1>4 DEF WholeBatches
<1>6. CountersOK
  BY <1>5 DEF CountersOK
<1>7. EndOK
  BY DEF EndOK
<1>8. points = 1..0 /\ 0 \in chunksCount..received
  OBVIOUS
<1>9. PointsOK
  BY <1>8 DEF PointsOK, StoredIsPrefix
<1> QED
  BY <1>3, <1>6, <1>7, <1>9 DEF IInv

LEMMA DocStart == ASSUME IndexJobAssumption, StartFocus PROVE IInv'
<1> USE DocumentAssumption DEF StartFocus
<1>1. ctxDone' \in BOOLEAN /\ chunkErr' \in BOOLEAN /\ last' \in BOOLEAN
  BY Zenon
<1>2. offered' \in 0..N /\ received' \in 0..N /\ chunksCount' \in 0..N
  OBVIOUS
<1>3. TypeOK'
  BY <1>1, <1>2, Zenon DEF TypeOK
<1>4. chunksCount' = 0 * BatchSize /\ 0 \in 0..N
  OBVIOUS
<1>5. WholeBatches'
  BY <1>4 DEF WholeBatches
<1>6. CountersOK'
  BY <1>5 DEF CountersOK
<1>7. EndOK'
  BY DEF EndOK
<1>8. points' = 1..0 /\ 0 \in chunksCount'..received'
  OBVIOUS
<1>9. PointsOK'
  BY <1>8 DEF PointsOK, StoredIsPrefix
<1> QED
  BY <1>3, <1>6, <1>7, <1>9 DEF IInv

\* The end of its context and a crash leave a document's counters alone.
LEMMA DocStopped == ASSUME IInv, CancelJob \/ Crash PROVE IInv'
<1> USE DEF IInv, chunkVars, fileVars
<1>1. UNCHANGED <<offered, last, received, chunksCount, points>>
  BY DEF CancelJob, Crash
<1>2. /\ WholeBatches' <=> WholeBatches
      /\ StoredIsPrefix => StoredIsPrefix'
  BY <1>1, StoredUnchanged
<1>3. ASSUME CancelJob PROVE IInv'
  <2>1. ctxDone' = TRUE /\ UNCHANGED <<chunker, chunkErr, file, result>>
    BY <1>3 DEF CancelJob
  <2>2. TypeOK'
    BY <1>1, <2>1 DEF TypeOK
  <2>3. CountersOK'
    BY <1>1, <1>2, <2>1 DEF CountersOK
  <2>4. EndOK'
    BY <1>1, <2>1 DEF EndOK
  <2>5. PointsOK'
    BY <1>1, <1>2, <2>1 DEF PointsOK
  <2> QED
    BY <2>2, <2>3, <2>4, <2>5
<1>4. ASSUME Crash PROVE IInv'
  <2>1. /\ ctxDone' = TRUE /\ chunker' = "done" /\ chunkErr' = FALSE
        /\ file' = "left" /\ result' = "failed"
    BY <1>4 DEF Crash
  <2>2. TypeOK'
    BY <1>1, <2>1 DEF TypeOK
  <2>3. CountersOK'
    BY <1>1, <1>2, <2>1 DEF CountersOK
  <2>4. EndOK'
    BY <1>1, <2>1 DEF EndOK
  <2>5. PointsOK'
    BY <1>1, <1>2, <2>1 DEF PointsOK
  <2> QED
    BY <2>2, <2>3, <2>4, <2>5
<1> QED
  BY <1>3, <1>4

\* Every other step is one of IndexDocument, or none of its.
LEMMA DocInv == ASSUME IndexJobAssumption, IInv, [JobNext]_allVars PROVE IInv'
<1>1. ASSUME [Next]_vars PROVE IInv'
  BY <1>1, StepInv
<1>2. CASE FocusStep
  BY <1>2, <1>1 DEF FocusStep, Next
<1>3. CASE ChunkerGoesOn \/ DocDeadline
  BY <1>3, <1>1 DEF ChunkerGoesOn, DocDeadline, Next
<1>4. CASE StartFocus
  BY <1>4, DocStart
<1>5. CASE CancelJob \/ Crash
  BY <1>5, DocStopped
<1>6. CASE \/ Fetch \/ List \/ Ensure \/ Create \/ StartFails \/ Complete \/ SkipFocus
           \/ \E d \in Others : StartOther(d) \/ FinishOther(d)
           \/ DropCollection \/ OtherJobCreates \/ JobOver \/ UNCHANGED allVars
  BY <1>6, <1>1 DEF Fetch, List, Ensure, Create, StartFails, Complete, SkipFocus,
                    StartOther, FinishOther, DropCollection, OtherJobCreates,
                    JobOver, allVars
<1> QED
  BY <1>2, <1>3, <1>4, <1>5, <1>6 DEF JobNext, RunIndexing, Outside

-----------------------------------------------------------------------------
LEMMA PoolInit == ASSUME IndexJobAssumption, JobInit PROVE JobTypeOK /\ PoolOK
<1> USE DEF JobInit, Untouched, Docs
<1>1. collection \in {"none", "fits", "unfit"}
  OBVIOUS
<1>2. doc \in [Docs -> {"waiting", "running", "indexed", "skipped"}]
  OBVIOUS
<1>3. attempt \in 0..MaxAttempts
  BY DEF IndexJobAssumption
<1>4. jobDone \in BOOLEAN /\ dropped \in BOOLEAN /\ listed \subseteq Docs /\ kept \subseteq Chunks
  BY Zenon
<1>5. JobTypeOK
  BY <1>1, <1>2, <1>3, <1>4 DEF JobTypeOK
<1>6. doc[Focus] = "waiting"
  OBVIOUS
<1>7. PoolOK
  BY <1>6 DEF PoolOK
<1> QED
  BY <1>5, <1>7

\* An attempt that failed leaves no document begun, and River retries it only
\* while there are attempts left.
LEMMA FailedAttempt ==
  ASSUME JobTypeOK, AttemptFails
  PROVE  /\ doc' \in [Docs -> {"waiting", "running", "indexed", "skipped"}]
         /\ doc'[Focus] = "waiting"
         /\ state' \in {"available", "discarded"} /\ pc' = "idle"
         /\ attempt' = attempt /\ jobDone' = jobDone
BY DEF AttemptFails, Untouched, Docs, Retried

\* What a step of processFile stores is in the collection.
LEMMA PointsKept ==
  ASSUME IInv, FocusStep
  PROVE  /\ kept' = kept \union (points' \ points)
         /\ points' \subseteq Chunks
<1>1. [Next]_vars
  BY DEF FocusStep, Next
<1>2. IInv'
  BY <1>1, StepInv
<1>3. points' \subseteq Chunks
  BY <1>2 DEF IInv, TypeOK
<1> QED
  BY <1>3 DEF FocusStep

LEMMA FocusStepInv ==
  ASSUME IndexJobAssumption, JobIInv, FocusStep
  PROVE  JobTypeOK' /\ PoolOK'
<1> USE DEF JobIInv
<1>1. /\ doc[Focus] = "running" /\ pc = "index" /\ state = "running"
      /\ UNCHANGED <<state, attempt, pc, jobDone, listed, collection, dropped>>
  BY DEF FocusStep, PoolOK
<1>2. Focus \in Docs /\ doc \in [Docs -> {"waiting", "running", "indexed", "skipped"}]
  BY DEF Docs, JobTypeOK
<1>3. \/ file' # "left" /\ doc' = doc
      \/ /\ file' = "left"
         /\ doc' = [doc EXCEPT ![Focus] = IF Indexed THEN "indexed" ELSE "skipped"]
  BY DEF FocusStep
<1>4. doc' \in [Docs -> {"waiting", "running", "indexed", "skipped"}]
  BY <1>2, <1>3
<1>5. JobTypeOK'
  BY <1>1, <1>4, PointsKept DEF JobTypeOK, Chunks
<1>6. file' = "left" => LeaveDocument
  BY <1>1 DEF FocusStep, FileStep, Parse, ReceiveChunk, ChunksClosed, ReceiveError,
              Embed, Store, Start, Return, PoolOK, IInv, TypeOK
<1>7. LeaveDocument => Indexed' = Indexed
  BY DEF LeaveDocument, Indexed
<1>8. doc'[Focus] = "indexed" => Indexed'
  BY <1>1, <1>2, <1>3, <1>6, <1>7
<1>9. doc'[Focus] = "running" \/ file' = "left"
  BY <1>1, <1>2, <1>3
<1>10. ~dropped' => points' \subseteq kept'
  BY <1>1, PointsKept DEF PoolOK
<1> QED
  BY <1>1, <1>5, <1>8, <1>9, <1>10 DEF PoolOK

\* The steps of the pool other than those within Focus.
LEMMA PoolStepInv ==
  ASSUME IndexJobAssumption, JobIInv,
         StartFocus \/ SkipFocus \/ (\E d \in Others : StartOther(d) \/ FinishOther(d))
  PROVE  JobTypeOK' /\ PoolOK'
<1> USE DEF JobIInv
<1> DEFINE States == {"waiting", "running", "indexed", "skipped"}
<1>1. Focus \in Docs /\ Others \subseteq Docs /\ Focus \notin Others /\ doc \in [Docs -> States]
  BY DEF Docs, JobTypeOK, IndexJobAssumption
<1>2. /\ pc = "index" /\ state = "running"
      /\ UNCHANGED <<state, attempt, pc, jobDone, listed, collVars>>
  BY DEF StartFocus, SkipFocus, StartOther, FinishOther, HasPlace, PoolOK
<1>3. CASE StartFocus
  <2>1. /\ doc' = [doc EXCEPT ![Focus] = "running"]
        /\ points' = {}
    BY <1>3 DEF StartFocus
  <2>2. doc' \in [Docs -> States] /\ doc'[Focus] = "running"
    BY <1>1, <2>1
  <2>3. Focus \in listed
    BY <1>3 DEF StartFocus, HasPlace
  <2> QED
    BY <1>2, <2>1, <2>2, <2>3 DEF JobTypeOK, PoolOK, collVars, Chunks
<1>4. CASE SkipFocus
  <2>1. /\ doc' = [doc EXCEPT ![Focus] = "skipped"]
        /\ doc[Focus] = "waiting" /\ UNCHANGED vars
    BY <1>4 DEF SkipFocus, HasPlace
  <2>2. doc' \in [Docs -> States] /\ doc'[Focus] = "skipped"
    BY <1>1, <2>1
  <2>3. file' = "left"
    BY <2>1 DEF vars, fileVars, PoolOK
  <2> QED
    BY <1>2, <2>2, <2>3 DEF JobTypeOK, PoolOK, collVars, Chunks
<1>5. ASSUME NEW d \in Others, StartOther(d) \/ FinishOther(d)
      PROVE  JobTypeOK' /\ PoolOK'
  <2>1. \E o \in States : doc' = [doc EXCEPT ![d] = o]
    BY <1>5 DEF StartOther, FinishOther
  <2>2. doc' \in [Docs -> States] /\ doc'[Focus] = doc[Focus]
    BY <1>1, <2>1
  <2>3. UNCHANGED <<file, points, result, chunksCount>>
    BY <1>5 DEF StartOther, FinishOther, vars, fileVars
  <2>4. Indexed' = Indexed
    BY <2>3 DEF Indexed
  <2> QED
    BY <1>2, <2>2, <2>3, <2>4 DEF JobTypeOK, PoolOK, collVars, Chunks
<1> QED
  BY <1>3, <1>4, <1>5

\* Where only the job moves: an attempt begins, opens its dependencies, or ends
\* with every listed document accounted for.
LEMMA AttemptInv ==
  ASSUME IndexJobAssumption, JobIInv, Fetch \/ List \/ Ensure \/ Create \/ Complete
  PROVE  JobTypeOK' /\ PoolOK'
<1> USE DEF JobIInv
<1>1. UNCHANGED vars /\ doc' = doc /\ kept' = kept
  BY DEF Fetch, List, Ensure, Create, Complete, collVars
<1>2. UNCHANGED <<file, points, result, chunksCount>> /\ Indexed' = Indexed
  BY <1>1 DEF vars, fileVars, Indexed
<1>3. CASE Fetch
  <2>1. attempt' \in 0..MaxAttempts /\ doc[Focus] = "waiting"
    <3>1. attempt < MaxAttempts
      BY <1>3 DEF Fetch, PoolOK
    <3>2. attempt \in 0..MaxAttempts /\ MaxAttempts \in Nat
      BY DEF JobTypeOK, IndexJobAssumption
    <3> QED
      BY <1>3, <3>1, <3>2 DEF Fetch, PoolOK
  <2> QED
    BY <1>1, <1>2, <1>3, <2>1 DEF Fetch, JobTypeOK, PoolOK, collVars, Chunks
<1>4. CASE List
  <2>1. /\ pc = "open" /\ state = "running" /\ doc[Focus] = "waiting"
        /\ pc' \in {"index", "ensure"} /\ listed' \subseteq Docs
        /\ UNCHANGED <<state, attempt, jobDone, collection, dropped>>
    BY <1>4 DEF List, collVars, PoolOK
  <2> QED
    BY <1>1, <1>2, <2>1 DEF JobTypeOK, PoolOK, Chunks
<1>5. CASE Ensure \/ Create
  <2>1. /\ pc \in {"ensure", "create"} /\ state = "running" /\ doc[Focus] = "waiting"
        /\ pc' \in {"index", "create"} /\ dropped' = FALSE
        /\ collection' \in {"none", "fits", "unfit"}
        /\ UNCHANGED <<state, attempt, jobDone, listed>>
    BY <1>5 DEF Ensure, Create, JobTypeOK, PoolOK
  <2> QED
    BY <1>1, <1>2, <2>1 DEF JobTypeOK, PoolOK, Chunks
<1>6. CASE Complete
  <2>1. /\ pc' = "idle" /\ state' = "completed"
        /\ \A d \in listed : doc[d] \in {"indexed", "skipped"}
        /\ UNCHANGED <<attempt, jobDone, listed, collection, dropped>>
    BY <1>6 DEF Complete, collVars
  <2>2. listed \subseteq Docs /\ (doc[Focus] = "running" => Focus \in listed)
    BY DEF JobTypeOK, PoolOK
  <2> QED
    BY <1>1, <1>2, <2>1, <2>2 DEF JobTypeOK, PoolOK, Chunks
<1> QED
  BY <1>3, <1>4, <1>5, <1>6

LEMMA EndedInv ==
  ASSUME IndexJobAssumption, JobIInv, StartFails \/ Crash
  PROVE  JobTypeOK' /\ PoolOK'
<1> USE DEF JobIInv
<1>1. AttemptFails /\ UNCHANGED <<listed, dropped>>
  BY DEF StartFails, Crash
<1>2. /\ doc' \in [Docs -> {"waiting", "running", "indexed", "skipped"}]
      /\ doc'[Focus] = "waiting"
      /\ state' \in {"available", "discarded"} /\ pc' = "idle"
      /\ attempt' = attempt /\ jobDone' = jobDone
  BY <1>1, FailedAttempt
<1>3. state' = "available" => attempt' < MaxAttempts
  BY <1>1, <1>2 DEF AttemptFails, Retried
<1>4. collection' \in {"none", "fits", "unfit"}
  BY DEF StartFails, Crash, JobTypeOK
<1>5. kept' \subseteq Chunks
  <2>1. kept \subseteq Chunks
    BY DEF JobTypeOK
  <2>2. CASE StartFails
    BY <2>1, <2>2 DEF StartFails, Chunks
  <2>3. CASE Crash
    <3>1. PICK k \in chunksCount..received : kept' = kept \union ((chunksCount + 1)..k)
      BY <2>3 DEF Crash
    <3>2. chunksCount \in 0..N /\ received \in 0..N /\ N \in Nat
      BY DocumentAssumption DEF IInv, TypeOK
    <3>3. (chunksCount + 1)..k \subseteq Chunks
      BY <3>1, <3>2 DEF Chunks
    <3> QED
      BY <2>1, <3>1, <3>3 DEF Chunks
  <2> QED
    BY <2>2, <2>3
<1>6. file' = "left"
  <2>1. CASE StartFails
    <3>1. doc[Focus] = "waiting"
      BY <2>1 DEF StartFails, PoolOK
    <3> QED
      BY <2>1, <3>1 DEF StartFails, PoolOK, vars, fileVars
  <2>2. CASE Crash
    BY <2>2 DEF Crash
  <2> QED
    BY <2>1, <2>2
<1>7. JobTypeOK'
  BY <1>1, <1>2, <1>4, <1>5 DEF JobTypeOK, Chunks
<1>8. PoolOK'
  BY <1>2, <1>3, <1>6 DEF PoolOK
<1> QED
  BY <1>7, <1>8

\* Steps that leave the pool as it is.
LEMMA OutsideInv ==
  ASSUME IndexJobAssumption, JobIInv,
         \/ ChunkerGoesOn \/ DocDeadline \/ CancelJob
         \/ DropCollection \/ OtherJobCreates \/ JobOver \/ UNCHANGED allVars
  PROVE  JobTypeOK' /\ PoolOK'
<1> USE DEF JobIInv
<1>1. UNCHANGED <<state, attempt, pc, listed, doc>>
  BY DEF ChunkerGoesOn, DocDeadline, CancelJob, DropCollection, OtherJobCreates,
         JobOver, allVars, jobVars, poolVars
<1>2. UNCHANGED <<file, points, result, chunksCount>>
  BY DEF ChunkerGoesOn, ChunkerStep, MakeChunk, EndOfDocument, ChunkerCancelled,
         CloseChunks, DocDeadline, Deadline, CancelJob, DropCollection,
         OtherJobCreates, JobOver, allVars, vars, fileVars
<1>3. Indexed' = Indexed
  BY <1>2 DEF Indexed
<1>4. jobDone' \in BOOLEAN
  <2>1. jobDone' = TRUE \/ jobDone' = jobDone
    BY DEF ChunkerGoesOn, DocDeadline, CancelJob, DropCollection, OtherJobCreates,
           JobOver, allVars, jobVars, poolVars
  <2> QED
    BY <2>1, Zenon DEF JobTypeOK
<1>5. \/ UNCHANGED <<collection, dropped, kept>>
      \/ collection' = "none" /\ dropped' = TRUE /\ kept' = {}
      \/ collection' \in {"fits", "unfit"} /\ UNCHANGED <<dropped, kept>>
  BY DEF ChunkerGoesOn, DocDeadline, CancelJob, DropCollection, OtherJobCreates,
         JobOver, allVars, jobVars, collVars
<1>6. JobTypeOK'
  BY <1>1, <1>4, <1>5 DEF JobTypeOK, Chunks
<1>7. PoolOK'
  BY <1>1, <1>2, <1>3, <1>5 DEF PoolOK
<1> QED
  BY <1>6, <1>7

LEMMA JobStepInv == JobIInv /\ [JobNext]_allVars => JobIInv'
<1> SUFFICES ASSUME JobIInv, [JobNext]_allVars PROVE JobIInv'
  OBVIOUS
<1> USE IndexJobAssumption
<1>1. IInv'
  BY DocInv DEF JobIInv
<1>2. JobTypeOK' /\ PoolOK'
  BY FocusStepInv, PoolStepInv, AttemptInv, EndedInv, OutsideInv
     DEF JobNext, RunIndexing, Outside
<1> QED
  BY <1>1, <1>2 DEF JobIInv

\* The job's bookkeeping, and IndexDocument's for the document looked at, hold
\* for any documents, pool and faults, over all attempts.
THEOREM JobInvariance == JobSpec => []JobIInv
<1>1. JobInit => JobIInv
  BY IndexJobAssumption, DocInit, PoolInit DEF JobIInv
<1>2. JobIInv /\ [JobNext]_allVars => JobIInv'
  BY JobStepInv
<1> QED
  BY <1>1, <1>2, PTL DEF JobSpec

\* Also within a job that is retried, whose time ends and whose collection goes,
\* a document is reported and cut only between two of its batches.
THEOREM PartialInJob == JobSpec => []PartialOnlyBetweenBatches
<1>1. JobIInv => PartialOnlyBetweenBatches
  BY PartialFromIInv DEF JobIInv
<1> QED
  BY <1>1, JobInvariance, PTL

\* What a document missing from the index of a completed job goes back to.
THEOREM MissingExplained == JobSpec => []CompletedIsExplained
<1>1. JobIInv => CompletedIsExplained
  <2> SUFFICES ASSUME JobIInv, state = "completed", kept # Chunks, Focus \in listed,
                      doc[Focus] # "skipped", ~dropped
               PROVE  chunkErr /\ ctxDone /\ WholeBatches
    BY DEF CompletedIsExplained
  <2>1. doc[Focus] = "indexed" /\ Indexed /\ points \subseteq kept
    BY DEF JobIInv, PoolOK
  <2>2. kept \subseteq Chunks /\ IInv
    BY DEF JobIInv, JobTypeOK
  <2>3. points # Chunks
    BY <2>1, <2>2
  <2> QED
    BY <2>1, <2>2, <2>3, PartialFromIInv DEF PartialOnlyBetweenBatches
<1> QED
  BY <1>1, JobInvariance, PTL

-----------------------------------------------------------------------------
(* The chunkers: WordChunks, for every size, overlap and length of the text. *)

USE ChunkAssumption

LEMMA CutInitInv == CutInit => CutInv
<1> SUFFICES ASSUME CutInit PROVE CutInv
  OBVIOUS
<1>1. overlap \in 0..(size - 1)
  <2>1. PICK o \in 0..MaxOverlap : overlap = Corrected(strategy, size, o)
    BY DEF CutInit
  <2>2. size \in Nat \ {0} /\ size \div 5 \in 0..(size - 1)
    BY DEF CutInit
  <2> QED
    BY <2>1, <2>2 DEF Corrected
<1>2. CutTypeOK
  BY <1>1 DEF CutInit, CutTypeOK
<1>3. WindowOK /\ CutSoFar /\ EveryWordInAChunk /\ NeighboursOverlap
  BY <1>2 DEF CutInit, CutTypeOK, WindowOK, CutSoFar, EveryWordInAChunk, NeighboursOverlap
<1>4. OnGrid /\ CutAsExpected
  <2>1. Windows(0) = <<>> /\ Step \in Int /\ Len(chunks) = 0 /\ chunks = <<>>
    BY <1>2 DEF CutInit, CutTypeOK, Windows, Step
  <2>2. 0 * Step + 1 = 1
    BY <2>1
  <2> QED
    BY <2>1, <2>2 DEF CutInit, OnGrid, CutAsExpected
<1> QED
  BY <1>2, <1>3, <1>4 DEF CutInv

-----------------------------------------------------------------------------
(* The windows one expects.                                                 *)

Record == [first : Int, last : Int]

LEMMA WindowType ==
  ASSUME CutTypeOK, NEW i \in Nat
  PROVE  /\ Step \in 1..size /\ (i - 1) * Step \in Int
         /\ Window(i) \in Record
<1>1. Step \in 1..size /\ size \in Nat /\ total \in Nat /\ i - 1 \in Int
  BY DEF CutTypeOK, Step
<1>2. (i - 1) * Step \in Int
  BY <1>1
<1> QED
  BY <1>1, <1>2 DEF Window, Record

LEMMA WindowsType ==
  ASSUME CutTypeOK, NEW n \in Nat
  PROVE  /\ Windows(n) \in Seq(Record) /\ Len(Windows(n)) = n
         /\ \A i \in 1..n : Windows(n)[i] = Window(i)
<1>1. \A i \in 1..n : Window(i) \in Record
  BY WindowType
<1> QED
  BY <1>1 DEF Windows

\* One window more, at the next place of the grid.
LEMMA WindowsGrow ==
  ASSUME CutTypeOK, NEW n \in Nat
  PROVE  Append(Windows(n), Window(n + 1)) = Windows(n + 1)
<1>1. Window(n + 1) \in Record
  BY WindowType
<1>2. /\ Windows(n) \in Seq(Record) /\ Len(Windows(n)) = n
      /\ \A i \in 1..n : Windows(n)[i] = Window(i)
  BY WindowsType
<1>3. /\ Windows(n + 1) \in Seq(Record) /\ Len(Windows(n + 1)) = n + 1
      /\ \A i \in 1..(n + 1) : Windows(n + 1)[i] = Window(i)
  BY WindowsType
<1> DEFINE a == Append(Windows(n), Window(n + 1))
<1>4. /\ a \in Seq(Record) /\ Len(a) = n + 1
      /\ \A i \in 1..(n + 1) : a[i] = Window(i)
  BY <1>1, <1>2
<1> HIDE DEF a
<1>5. a = Windows(n + 1)
  BY <1>3, <1>4
<1> QED
  BY <1>5 DEF a

\* A window that reaches the end, the first one to do so.
LEMMA FirstToReach ==
  ASSUME CutTypeOK, NEW n \in Nat \ {0},
         Window(n).last = total,
         n > 1 => Window(n - 1).last < total
  PROVE  ShortestToEnd(n)
<1>1. Len(Windows(n)) = n /\ Windows(n) # <<>> /\ Windows(n)[n] = Window(n)
  BY WindowsType
<1>2. ReachesEnd(Windows(n))
  BY <1>1 DEF ReachesEnd
<1>3. ASSUME n > 1 PROVE ~ReachesEnd(Windows(n - 1))
  <2>1. n - 1 \in Nat \ {0}
    BY <1>3
  <2>2. Len(Windows(n - 1)) = n - 1 /\ Windows(n - 1) # <<>>
        /\ Windows(n - 1)[n - 1] = Window(n - 1)
    BY <2>1, WindowsType
  <2>3. Windows(n - 1)[n - 1].last < total /\ total \in Int
    BY <1>3, <2>2 DEF CutTypeOK
  <2> QED
    BY <2>2, <2>3 DEF ReachesEnd
<1> QED
  BY <1>2, <1>3 DEF ShortestToEnd

\* How far the windows before the one at the end go.
LEMMA WindowBefore ==
  ASSUME CutTypeOK, NEW n \in Nat \ {0}
  PROVE  /\ (n - 1) * Step = (n - 2) * Step + Step
         /\ n * Step = (n - 1) * Step + Step
         /\ (n - 1) * Step + size <= total => Window(n).last = (n - 1) * Step + size
         /\ (n - 1) * Step + size >= total => Window(n).last = total
         /\ n > 1 /\ (n - 1) * Step + size <= total =>
                Window(n - 1).last < total
<1>1. Step \in 1..size /\ size \in Nat /\ total \in Nat
  BY DEF CutTypeOK, Step
<1>2. (n - 1) * Step = (n - 2) * Step + Step
  BY <1>1
<1>3. n * Step = (n - 1) * Step + Step
  BY <1>1
<1>4. (n - 1) * Step \in Int /\ (n - 2) * Step \in Int
  BY <1>1
<1>5. (n - 1) - 1 = n - 2
  OBVIOUS
<1> DEFINE b == (n - 1) * Step
           c == (n - 2) * Step
<1> HIDE DEF b, c
<1>6. b \in Int /\ c \in Int /\ b = c + Step
  BY <1>2, <1>4 DEF b, c
<1>7. /\ Window(n).last = IF b + size < total THEN b + size ELSE total
      /\ Window(n - 1).last = IF c + size < total THEN c + size ELSE total
  BY <1>5 DEF Window, b, c
<1>8. /\ b + size <= total => Window(n).last = b + size
      /\ b + size >= total => Window(n).last = total
      /\ b + size <= total => Window(n - 1).last < total
  BY <1>1, <1>6, <1>7
<1> QED
  BY <1>2, <1>3, <1>8 DEF b

\* A chunk that is sent from the window as far as the size and the text allow
\* is the next one of the grid.
LEMMA EmitOnGrid ==
  ASSUME CutInv, cutter # "done", NEW end \in Int, Emit(from, end),
         end = IF from + size - 1 < total THEN from + size - 1 ELSE total
  PROVE  chunks' = Windows(Len(chunks) + 1) /\ end = Window(Len(chunks) + 1).last
<1> DEFINE k == Len(chunks)
<1>1. k \in Nat /\ chunks = Windows(k) /\ from = k * Step + 1 /\ CutTypeOK
  BY DEF CutInv, OnGrid, CutTypeOK
<1> HIDE DEF k
<1>2. (k + 1) - 1 = k
  BY <1>1
<1>3. k * Step \in Int /\ size \in Int /\ total \in Int
  BY <1>1, WindowType, <1>2 DEF CutTypeOK, Step
<1>4. Window(k + 1) = [first |-> k * Step + 1,
                       last  |-> IF k * Step + size < total THEN k * Step + size ELSE total]
  BY <1>2 DEF Window
<1>5. from + size - 1 = k * Step + size
  BY <1>1, <1>3
<1>6. Window(k + 1) = [first |-> from, last |-> end]
  BY <1>1, <1>4, <1>5
<1>7. chunks' = Append(Windows(k), Window(k + 1))
  BY <1>1, <1>6 DEF Emit
<1>8. chunks' = Windows(k + 1)
  BY <1>1, <1>7, WindowsGrow
<1>9. end = Window(k + 1).last
  BY <1>6
<1> QED
  BY <1>8, <1>9 DEF k

-----------------------------------------------------------------------------
\* Before the end every chunk is a full window, also the last one.
LEMMA FullBefore ==
  ASSUME CutInv, cutter # "done", Len(chunks) > 0
  PROVE  /\ (Len(chunks) - 1) * Step + size <= total
         /\ chunks[Len(chunks)] = Window(Len(chunks))
         /\ Len(chunks) > 1 => Window(Len(chunks) - 1).last < total
<1> DEFINE k == Len(chunks)
<1>1. /\ k \in Nat \ {0} /\ chunks = Windows(k) /\ from = k * Step + 1
      /\ chunks[k].last = from + overlap - 1 /\ CutTypeOK
  BY DEF CutInv, OnGrid, CutSoFar, CutTypeOK
<1> HIDE DEF k
<1>2. chunks[k] = Window(k)
  BY <1>1, WindowsType
<1>3. /\ k * Step = (k - 1) * Step + Step
      /\ k > 1 /\ (k - 1) * Step + size <= total => Window(k - 1).last < total
  BY <1>1, WindowBefore
<1>4. /\ (k - 1) * Step \in Int /\ size \in Int /\ overlap \in Int /\ total \in Int
      /\ Step = size - overlap
  BY <1>1, WindowType DEF CutTypeOK, Step
<1> DEFINE b == (k - 1) * Step
<1> HIDE DEF b
<1>5. chunks[k].last = b + size /\ b \in Int
  BY <1>1, <1>3, <1>4 DEF b
<1>6. chunks[k].last <= total
  BY <1>2, <1>4, <1>5 DEF Window, b
<1>7. b + size <= total
  BY <1>5, <1>6
<1> QED
  BY <1>1, <1>2, <1>3, <1>7 DEF b, k

\* Nothing but the constants of a behaviour is in the expected windows.
LEMMA ConfigKept ==
  ASSUME UNCHANGED config
  PROVE  /\ Step' = Step
         /\ \A n \in Nat : Windows(n)' = Windows(n)
         /\ \A n \in Nat : ShortestToEnd(n)' <=> ShortestToEnd(n)
<1> USE DEF config
<1>1. Step' = Step
  BY DEF Step
<1>2. \A n : Windows(n)' = Windows(n)
  BY <1>1 DEF Windows, Window
<1>3. \A n : ShortestToEnd(n)' <=> ShortestToEnd(n)
  BY <1>2 DEF ShortestToEnd, ReachesEnd
<1> QED
  BY <1>1, <1>2, <1>3

\* When the chunker is done, the number of windows that reach the end is the witness.
LEMMA DoneAsExpected ==
  ASSUME UNCHANGED config, NEW n \in 0..Len(chunks'), Len(chunks') \in Nat, ShortestToEnd(n),
         \/ chunks' = Windows(n)
         \/ strategy = "fixed" /\ chunks' = Windows(n + 1)
  PROVE  CutAsExpected'
<1>1. n \in Nat /\ n + 1 \in Nat
  OBVIOUS
<1>2. /\ Windows(n)' = Windows(n) /\ Windows(n + 1)' = Windows(n + 1)
      /\ ShortestToEnd(n)'
  BY <1>1, ConfigKept
<1> QED
  BY <1>2 DEF CutAsExpected, config

-----------------------------------------------------------------------------
\* What sending one chunk, from the first word of the window to the word `end`,
\* does to the facts about chunks.
LEMMA EmitOne ==
  ASSUME CutInv, cutter # "done",
         NEW end \in from..total, end - from < size,
         Emit(from, end)
  PROVE  /\ chunks' \in Seq(Interval)
         /\ Len(chunks') = Len(chunks) + 1
         /\ chunks'[Len(chunks')].last = end
         /\ \A p \in 1..end : \E i \in 1..Len(chunks') : p \in WordsOf(chunks'[i])
         /\ \A i \in 1..Len(chunks') : chunks'[i].last - chunks'[i].first < size
         /\ \A i \in 1..(Len(chunks') - 1) :
                chunks'[i].last - chunks'[i + 1].first + 1 = overlap
<1> DEFINE c == [first |-> from, last |-> end]
<1>1. chunks \in Seq(Interval) /\ c \in Interval /\ chunks' = Append(chunks, c)
  BY DEF CutInv, CutTypeOK, Interval, Emit
<1>2. /\ chunks' \in Seq(Interval)
      /\ Len(chunks') = Len(chunks) + 1
      /\ chunks'[Len(chunks) + 1] = c
      /\ \A i \in 1..Len(chunks) : chunks'[i] = chunks[i]
  BY <1>1
<1>3. \A p \in 1..end : \E i \in 1..Len(chunks') : p \in WordsOf(chunks'[i])
  <2> SUFFICES ASSUME NEW p \in 1..end
               PROVE  \E i \in 1..Len(chunks') : p \in WordsOf(chunks'[i])
    OBVIOUS
  <2>1. CASE p < from
    <3>1. PICK i \in 1..Len(chunks) : p \in WordsOf(chunks[i])
      BY <2>1 DEF CutInv, CutSoFar, CutTypeOK
    <3> QED
      BY <1>1, <1>2, <3>1
  <2>2. CASE p >= from
    <3>1. p \in WordsOf(c)
      BY <2>2 DEF WordsOf, CutInv, CutTypeOK
    <3> QED
      BY <1>1, <1>2, <3>1
  <2> QED
    BY <2>1, <2>2 DEF CutInv, CutTypeOK
<1>4. \A i \in 1..Len(chunks') : chunks'[i].last - chunks'[i].first < size
  BY <1>1, <1>2 DEF CutInv, CutSoFar
<1>5. ASSUME NEW i \in 1..(Len(chunks') - 1)
      PROVE  chunks'[i].last - chunks'[i + 1].first + 1 = overlap
  <2>1. CASE i < Len(chunks)
    BY <1>1, <1>2, <2>1 DEF CutInv, NeighboursOverlap
  <2>2. CASE i = Len(chunks)
    BY <1>1, <1>2, <2>2 DEF CutInv, CutSoFar, CutTypeOK
  <2> QED
    BY <1>1, <1>2, <2>1, <2>2
<1>6. chunks'[Len(chunks')].last = end
  <2>1. Len(chunks) + 1 = Len(chunks') /\ c.last = end
    BY <1>2
  <2> QED
    BY <1>2, <2>1
<1> HIDE DEF c
<1> QED
  BY <1>2, <1>3, <1>4, <1>5, <1>6

LEMMA ReadWordInv ==
  ASSUME CutInv, ReadWord
  PROVE  CutInv'
<1> USE DEF ReadWord, config
<1>1. CutTypeOK'
  BY DEF CutInv, CutTypeOK
<1>2. WindowOK'
  BY DEF CutInv, CutTypeOK, WindowOK
<1>3. CutSoFar' /\ EveryWordInAChunk' /\ NeighboursOverlap'
  BY DEF CutInv, CutTypeOK, CutSoFar, EveryWordInAChunk, NeighboursOverlap, WordsOf
<1>4. OnGrid' /\ CutAsExpected'
  <2>1. Windows(Len(chunks))' = Windows(Len(chunks)) /\ Step' = Step
    BY DEF Windows, Window, Step
  <2> QED
    BY <2>1 DEF CutInv, OnGrid, CutAsExpected
<1> QED
  BY <1>1, <1>2, <1>3, <1>4 DEF CutInv

LEMMA EmitWindowInv ==
  ASSUME CutInv, EmitWindow
  PROVE  CutInv'
<1> USE DEF EmitWindow, config, Step
<1> DEFINE end == from + size - 1
<1>1. end \in from..total /\ end - from < size /\ end = read
  BY DEF CutInv, CutTypeOK, WindowOK
<1>2. cutter # "done" /\ Emit(from, end)
  OBVIOUS
<1> HIDE DEF end
<1>3. /\ chunks' \in Seq(Interval)
      /\ Len(chunks') = Len(chunks) + 1
      /\ chunks'[Len(chunks')].last = end
      /\ \A p \in 1..end : \E i \in 1..Len(chunks') : p \in WordsOf(chunks'[i])
      /\ \A i \in 1..Len(chunks') : chunks'[i].last - chunks'[i].first < size
      /\ \A i \in 1..(Len(chunks') - 1) :
             chunks'[i].last - chunks'[i + 1].first + 1 = overlap
  BY <1>1, <1>2, EmitOne
<1>4. from' \in 1..(end + 1) /\ from' + overlap - 1 = end
  BY DEF CutInv, CutTypeOK, end
<1>5. CutTypeOK'
  BY <1>1, <1>3, <1>4 DEF CutInv, CutTypeOK
<1>6. WindowOK'
  BY <1>1, <1>4 DEF CutInv, CutTypeOK, WindowOK
<1>7. CutSoFar'
  <2>1. \A p \in 1..(from' - 1) : p \in 1..end
    BY <1>1, <1>4
  <2>2. \A p \in 1..(from' - 1) : \E i \in 1..Len(chunks') : p \in WordsOf(chunks'[i])
    BY <1>3, <2>1
  <2> QED
    BY <1>3, <1>4, <2>2 DEF CutSoFar, WordsOf
<1>8. EveryWordInAChunk' /\ NeighboursOverlap'
  BY <1>3 DEF EveryWordInAChunk, NeighboursOverlap
<1>9. OnGrid' /\ CutAsExpected'
  <2> DEFINE k == Len(chunks)
  <2>1. /\ k \in Nat /\ k + 1 \in Nat \ {0} /\ from = k * Step + 1 /\ CutTypeOK
        /\ Step \in Int /\ from \in Int
    BY DEF CutInv, OnGrid, CutTypeOK
  <2>2. end = IF from + size - 1 < total THEN from + size - 1 ELSE total
    BY <1>1 DEF CutInv, CutTypeOK, end
  <2>3. chunks' = Windows(k + 1)
    BY <1>1, <1>2, <2>2, EmitOnGrid
  <2>4. (k + 1) * Step = k * Step + Step /\ k * Step \in Int
    BY <2>1
  <2>5. from' = (k + 1) * Step + 1
    BY <2>1, <2>4
  <2>6. Len(chunks') = k + 1 /\ UNCHANGED config /\ strategy' = "fixed" /\ cutter' # "done"
    BY <1>3 DEF CutInv, WindowOK
  <2>7. Windows(Len(chunks))' = Windows(k + 1) /\ Step' = Step
    BY <2>6 DEF Windows, Window
  <2> QED
    BY <2>3, <2>5, <2>6, <2>7 DEF OnGrid, CutAsExpected
<1> QED
  BY <1>5, <1>6, <1>7, <1>8, <1>9 DEF CutInv

LEMMA EmitRestInv ==
  ASSUME CutInv, EmitRest
  PROVE  CutInv'
<1> USE DEF EmitRest, config
<1>1. CASE WindowHasWords
  <2>1. read \in from..total /\ read - from < size /\ read = total
    BY <1>1 DEF CutInv, CutTypeOK, WindowOK, WindowHasWords
  <2>2. cutter # "done" /\ Emit(from, read)
    BY <1>1
  <2>3. /\ chunks' \in Seq(Interval)
        /\ Len(chunks') = Len(chunks) + 1
        /\ chunks'[Len(chunks')].last = read
        /\ \A p \in 1..read : \E i \in 1..Len(chunks') : p \in WordsOf(chunks'[i])
        /\ \A i \in 1..Len(chunks') : chunks'[i].last - chunks'[i].first < size
        /\ \A i \in 1..(Len(chunks') - 1) :
               chunks'[i].last - chunks'[i + 1].first + 1 = overlap
    BY <2>1, <2>2, EmitOne
  <2>4. CutTypeOK'
    BY <2>3 DEF CutInv, CutTypeOK
  <2>5. WindowOK'
    BY <2>1 DEF CutInv, CutTypeOK, WindowOK
  <2>6. CutSoFar' /\ EveryWordInAChunk' /\ NeighboursOverlap'
    BY <2>1, <2>3 DEF CutInv, CutTypeOK, CutSoFar, EveryWordInAChunk, NeighboursOverlap
  <2>7. OnGrid' /\ CutAsExpected'
    <3> DEFINE k == Len(chunks)
    <3>1. k \in Nat /\ k + 1 \in Nat \ {0} /\ (k + 1) - 1 = k /\ CutTypeOK
          /\ UNCHANGED config /\ Len(chunks') = k + 1 /\ cutter' = "done"
      BY <2>3 DEF CutInv, CutTypeOK
    <3>2. chunks' = Windows(k + 1) /\ total = Window(k + 1).last
      <4>1. read = IF from + size - 1 < total THEN from + size - 1 ELSE total
        BY <2>1 DEF CutInv, CutTypeOK
      <4> QED
        BY <2>1, <2>2, <4>1, EmitOnGrid
    <3>3. OnGrid'
      <4>1. Windows(Len(chunks))' = Windows(k + 1)
        BY <3>1 DEF Windows, Window, Step
      <4> QED
        BY <3>1, <3>2, <4>1 DEF OnGrid
    <3>4. CASE k > 0 /\ Window(k).last = total
      <4>1. ShortestToEnd(k)
        BY <2>2, <3>1, <3>4, FullBefore, FirstToReach
      <4> QED
        BY <3>1, <3>2, <3>3, <4>1, DoneAsExpected
    <3>5. CASE k > 0 => Window(k).last < total
      <4>1. ShortestToEnd(k + 1)
        <5> HIDE DEF k
        <5> QED
          BY <3>1, <3>2, <3>5, FirstToReach
      <4> QED
        BY <3>1, <3>2, <3>3, <4>1, DoneAsExpected
    <3>6. k > 0 => Window(k).last <= total /\ Window(k).last \in Int /\ total \in Int
      <4>1. k > 0 => /\ (k - 1) * Step \in Int /\ size \in Int /\ total \in Int
        BY <3>1, WindowType DEF CutTypeOK
      <4> QED
        BY <4>1 DEF Window
    <3> QED
      BY <3>1, <3>4, <3>5, <3>6
  <2> QED
    BY <2>4, <2>5, <2>6, <2>7 DEF CutInv
<1>2. CASE ~WindowHasWords
  <2>1. chunks' = chunks /\ from = total + 1
    BY <1>2 DEF CutInv, CutTypeOK, WindowOK, WindowHasWords
  <2>2. CutTypeOK' /\ WindowOK'
    BY <2>1 DEF CutInv, CutTypeOK, WindowOK
  <2>3. CutSoFar' /\ EveryWordInAChunk' /\ NeighboursOverlap'
    BY <2>1 DEF CutInv, CutTypeOK, CutSoFar, EveryWordInAChunk, NeighboursOverlap, WordsOf
  <2>4. OnGrid' /\ CutAsExpected'
    <3> DEFINE k == Len(chunks)
    <3>1. k \in Nat /\ CutTypeOK /\ UNCHANGED config /\ chunks' = Windows(k)
          /\ Len(chunks') = k /\ cutter' = "done" /\ cutter # "done"
      BY <2>1 DEF CutInv, CutTypeOK, OnGrid
    <3>2. OnGrid'
      <4>1. Windows(Len(chunks))' = Windows(k)
        BY <3>1 DEF Windows, Window, Step
      <4> QED
        BY <3>1, <4>1 DEF OnGrid
    <3>3. ShortestToEnd(k)
      <4>1. CASE k > 0
        <5>1. /\ chunks[k] = Window(k) /\ (k > 1 => Window(k - 1).last < total)
              /\ (k - 1) * Step + size <= total
          BY <3>1, <4>1, FullBefore
        <5>2. Window(k).last = total
          <6>1. chunks[k].last = total + overlap /\ total \in Int /\ overlap \in Nat
            BY <2>1, <3>1, <4>1 DEF CutInv, CutSoFar, CutTypeOK
          <6>2. Window(k).last <= total
            <7>1. (k - 1) * Step \in Int /\ size \in Int /\ total \in Int
              BY <3>1, WindowType DEF CutTypeOK
            <7> QED
              BY <7>1 DEF Window
          <6> QED
            BY <5>1, <6>1, <6>2
        <5> QED
          BY <3>1, <4>1, <5>1, <5>2, FirstToReach
      <4>2. CASE k = 0
        <5>1. Windows(k) = <<>>
          BY <4>2, <3>1 DEF CutInv, CutTypeOK
        <5>2. Step \in Int /\ 0 * Step = 0
          BY DEF Step, CutInv, CutTypeOK
        <5>3. from = 1
          BY <3>1, <4>2, <5>2 DEF CutInv, OnGrid
        <5>4. total = 0
          BY <2>1, <5>3 DEF CutInv, CutTypeOK
        <5> QED
          BY <4>2, <5>1, <5>4 DEF ShortestToEnd, ReachesEnd
      <4> QED
        BY <3>1, <4>1, <4>2
    <3> QED
      BY <3>1, <3>2, <3>3, DoneAsExpected
  <2> QED
    BY <2>2, <2>3, <2>4 DEF CutInv
<1> QED
  BY <1>1, <1>2

LEMMA SplitWordsInv ==
  ASSUME CutInv, SplitWords
  PROVE  CutInv'
<1> USE DEF SplitWords, config, Step, AtEnd
<1> DEFINE end == IF from + size - 1 < total THEN from + size - 1 ELSE total
<1>1. CASE total = 0
  <2>1. chunks' = chunks /\ read' = 0 /\ cutter' = "done" /\ from' = from
    BY <1>1 DEF CutInv, CutTypeOK
  <2>2. CutTypeOK' /\ WindowOK'
    BY <1>1, <2>1 DEF CutInv, CutTypeOK, WindowOK
  <2>3. CutSoFar' /\ EveryWordInAChunk' /\ NeighboursOverlap'
    BY <1>1, <2>1 DEF CutInv, CutTypeOK, CutSoFar, EveryWordInAChunk, NeighboursOverlap, WordsOf
  <2>4. OnGrid' /\ CutAsExpected'
    <3>1. chunks = <<>> /\ Len(chunks) = 0
      <4>1. Len(chunks) > 0 => chunks[Len(chunks)].last < total
        BY DEF CutInv, OnGrid
      <4>2. ASSUME Len(chunks) > 0 PROVE chunks[Len(chunks)].last \in 1..MaxWords
        <5>1. chunks \in Seq(Interval) /\ Len(chunks) \in 1..Len(chunks)
          BY <4>2 DEF CutInv, CutTypeOK
        <5>2. chunks[Len(chunks)] \in Interval
          BY <5>1
        <5> QED
          BY <5>2 DEF Interval
      <4> QED
        BY <1>1, <4>1, <4>2 DEF CutInv, CutTypeOK
    <3>2. Windows(0) = <<>> /\ Windows(0)' = <<>>
      BY DEF Windows
    <3>3. OnGrid'
      BY <2>1, <3>1, <3>2 DEF OnGrid
    <3>4. ShortestToEnd(0) /\ UNCHANGED config
      BY <1>1, <3>2 DEF ShortestToEnd, ReachesEnd
    <3>5. chunks' = Windows(0) /\ Len(chunks') = 0 /\ 0 \in 0..Len(chunks')
      BY <2>1, <3>1, <3>2
    <3> QED
      BY <3>3, <3>4, <3>5, DoneAsExpected
  <2> QED
    BY <2>2, <2>3, <2>4 DEF CutInv
<1>2. CASE total # 0
  <2>1. end \in from..total /\ end \in Nat /\ end - from < size
    BY <1>2 DEF CutInv, CutTypeOK, WindowOK
  <2>2. /\ cutter # "done" /\ Emit(from, end)
        /\ read' = end
        /\ IF end = total THEN cutter' = "done" /\ from' = from
                          ELSE cutter' = "read" /\ from' = from + (size - overlap)
    BY <1>2
  <2>3. end # total => end = from + size - 1 /\ end < total
    BY DEF CutInv, CutTypeOK
  <2> HIDE DEF end
  <2>4. /\ chunks' \in Seq(Interval)
        /\ Len(chunks') = Len(chunks) + 1
        /\ chunks'[Len(chunks')].last = end
        /\ \A p \in 1..end : \E i \in 1..Len(chunks') : p \in WordsOf(chunks'[i])
        /\ \A i \in 1..Len(chunks') : chunks'[i].last - chunks'[i].first < size
        /\ \A i \in 1..(Len(chunks') - 1) :
               chunks'[i].last - chunks'[i + 1].first + 1 = overlap
    BY <2>1, <2>2, EmitOne
  <2>5. PICK f \in 1..(end + 1) :
            from' = f /\ (cutter' # "done" => f + overlap - 1 = end)
    BY <2>1, <2>2, <2>3 DEF CutInv, CutTypeOK
  <2>6. CutTypeOK'
    <3>1. from' \in 1..(MaxWords + 1) /\ read' \in 0..total
      BY <2>1, <2>2, <2>5 DEF CutInv, CutTypeOK
    <3> QED
      BY <2>2, <2>4, <3>1 DEF CutInv, CutTypeOK
  <2>7. WindowOK'
    BY <2>1, <2>2, <2>3, <2>5 DEF CutInv, CutTypeOK, WindowOK
  <2>8. CutSoFar'
    <3> HIDE DEF SplitWords
    <3>1. \A p \in 1..(from' - 1) : p \in 1..end
      BY <2>1, <2>5
    <3>2. size' = size /\ overlap' = overlap
      BY DEF SplitWords
    <3>3. \A p \in 1..(from' - 1) : \E i \in 1..Len(chunks') : p \in WordsOf(chunks'[i])
      BY <2>4, <3>1
    <3> QED
      BY <2>4, <2>5, <3>2, <3>3 DEF CutSoFar
  <2>9. EveryWordInAChunk'
    <3>1. cutter' = "done" => end = total /\ total' = total
      BY <2>2
    <3> QED
      BY <2>4, <3>1 DEF EveryWordInAChunk
  <2>10. NeighboursOverlap'
    BY <2>4 DEF NeighboursOverlap
  <2>11. OnGrid' /\ CutAsExpected'
    <3> DEFINE k == Len(chunks)
    <3>1. /\ k \in Nat /\ k + 1 \in Nat \ {0} /\ (k + 1) - 1 = k /\ CutTypeOK
          /\ UNCHANGED config /\ Len(chunks') = k + 1
          /\ from = k * Step + 1 /\ Step \in Int /\ from \in Int /\ total \in Int
      BY <2>2, <2>4 DEF CutInv, CutTypeOK, OnGrid
    <3>2. chunks' = Windows(k + 1) /\ end = Window(k + 1).last
      <4>1. end = IF from + size - 1 < total THEN from + size - 1 ELSE total
        BY DEF end
      <4> QED
        BY <2>1, <2>2, <4>1, EmitOnGrid
    <3>3. OnGrid'
      <4>1. Windows(Len(chunks))' = Windows(k + 1) /\ Step' = Step
        BY <3>1 DEF Windows, Window
      <4>2. (k + 1) * Step = k * Step + Step /\ k * Step \in Int
        <5> HIDE DEF k, Step, SplitWords
        <5> QED
          BY <3>1
      <4>3. cutter' # "done" => from' = (k + 1) * Step + 1 /\ end < total
        BY <2>2, <2>3, <3>1, <4>2
      <4>4. chunks'[Len(chunks')].last = end /\ total' = total
        BY <2>4
      <4> QED
        BY <3>1, <3>2, <4>1, <4>3, <4>4 DEF OnGrid
    <3>4. CASE end = total
      <4>1. k > 0 => Window(k).last < total
        <5>1. k > 0 => chunks[k].last < total
          BY DEF CutInv, OnGrid
        <5> QED
          BY <2>2, <3>1, <5>1, FullBefore
      <4>2. ShortestToEnd(k + 1)
        <5> HIDE DEF k
        <5> QED
          BY <3>1, <3>2, <3>4, <4>1, FirstToReach
      <4> QED
        BY <3>1, <3>2, <3>3, <4>2, DoneAsExpected
    <3>5. CASE end # total
      BY <2>2, <3>3, <3>5 DEF CutAsExpected
    <3> QED
      BY <3>4, <3>5
  <2> QED
    BY <2>6, <2>7, <2>8, <2>9, <2>10, <2>11 DEF CutInv
<1> QED
  BY <1>1, <1>2

LEMMA CutStepInv == CutInv /\ [CutNext]_cutVars => CutInv'
<1> SUFFICES ASSUME CutInv, [CutNext]_cutVars PROVE CutInv'
  OBVIOUS
<1>1. CASE Done \/ UNCHANGED cutVars
  <2>1. UNCHANGED cutVars
    BY <1>1 DEF Done
  <2>2. (CutTypeOK /\ WindowOK /\ CutSoFar /\ EveryWordInAChunk /\ NeighboursOverlap)'
    BY <2>1 DEF cutVars, config, CutInv, CutTypeOK, WindowOK, CutSoFar,
                EveryWordInAChunk, NeighboursOverlap, WordsOf
  <2>3. OnGrid' /\ CutAsExpected'
    <3>1. /\ chunks' = chunks /\ cutter' = cutter /\ from' = from /\ Len(chunks) \in Nat
          /\ UNCHANGED config
      BY <2>1 DEF cutVars, CutInv, CutTypeOK
    <3>2. Windows(Len(chunks))' = Windows(Len(chunks)) /\ Step' = Step
      BY <3>1 DEF config, Windows, Window, Step
    <3>3. OnGrid'
      BY <3>1, <3>2 DEF config, CutInv, OnGrid
    <3>4. CASE cutter = "done"
      <4>1. PICK n \in 0..Len(chunks) :
                /\ ShortestToEnd(n)
                /\ \/ chunks = Windows(n)
                   \/ strategy = "fixed" /\ chunks = Windows(n + 1)
        BY <3>4 DEF CutInv, CutAsExpected
      <4> QED
        BY <3>1, <3>3, <4>1, DoneAsExpected
    <3>5. CASE cutter # "done"
      BY <3>1, <3>3, <3>5 DEF CutAsExpected
    <3> QED
      BY <3>4, <3>5
  <2> QED
    BY <2>2, <2>3 DEF CutInv
<1> QED
  BY <1>1, ReadWordInv, EmitWindowInv, EmitRestInv, SplitWordsInv DEF CutNext

\* The invariant of both chunkers.
THEOREM CutInvariance == CutSpec => []CutInv
<1> QED
  BY CutInitInv, CutStepInv, PTL DEF CutSpec

\* No word is lost and no chunk is too long.
THEOREM NothingLost == CutSpec => []EveryWordInAChunk
BY CutInvariance, PTL DEF CutInv

\* Whatever the size, the overlap and the length, both chunkers cut the windows one
\* expects, up to the one chunk of nothing new that the fixed one may add.
THEOREM CutIsExpected == CutSpec => []CutAsExpected
BY CutInvariance, PTL DEF CutInv

\* Neighbouring chunks share the configured overlap.
THEOREM OverlapKept == CutSpec => []NeighboursOverlap
BY CutInvariance, PTL DEF CutInv
=============================================================================
