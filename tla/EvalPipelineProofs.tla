------------------------- MODULE EvalPipelineProofs -------------------------
(***************************************************************************)
(* Proofs about EvalPipeline for every number of questions, every finite   *)
(* pool of subscribers, every batch size and every set of faults: the      *)
(* inductive invariant IInv, the safety properties that follow from it,    *)
(* and that the pipeline implements EvalAttempt.                           *)
(***************************************************************************)
EXTENDS EvalPipeline, TLAPS

\* The groupings of variables and the one-line abbreviations are expanded
\* everywhere; an invariant or an action only where it is cited.
USE PipelineAssumption
    DEF Questions, Closed, Busy, Call, DBFault, InsertResults, Record,
        CanPublish, QuestionChanClosed, WorkChanClosed, AllWorkersEnded,
        Appended, Processed, Truncated,
        group, pubVars, embVars, subVars, batches, db, collVars

LEMMA InitInv == Init => IInv
<1> SUFFICES ASSUME Init PROVE IInv
  OBVIOUS
<1>1. TypeOK
  <2>1. hand \in [Workers -> 0..N] /\ 0 \in 0..N
    BY DEF Init
  <2>2. rows \in [Questions -> Nat]
    BY DEF Init
  <2>3. QED
    BY <2>1, <2>2 DEF Init, TypeOK
<1>2. CountersOrdered /\ HandsOK
  BY DEF Init, CountersOrdered, HandsOK
<1>3. OnePlace /\ RowsOK /\ MetricsOK
  BY DEF Init, OnePlace, Held, RowsOK, RowsExact, NoDuplicateRows, MetricsOK
<1>4. EndsOK
  BY DEF Init, EndsOK
<1>5. QED
  BY <1>1, <1>2, <1>3, <1>4 DEF IInv

-----------------------------------------------------------------------------
(* Steps of publishQuestions. *)

LEMMA PubSendInv ==
  ASSUME IInv, PubSend
  PROVE  IInv'
<1>1. TypeOK'
  BY DEF PubSend, IInv, TypeOK
<1>2. CountersOrdered'
  BY <1>1 DEF PubSend, IInv, TypeOK, CountersOrdered
<1>3. EndsOK'
  BY <1>1 DEF PubSend, IInv, TypeOK, CountersOrdered, HandsOK, OnePlace, Held, MetricsOK, Drained, EndsOK
<1>4. HandsOK' /\ OnePlace' /\ RowsOK' /\ MetricsOK'
  BY DEF PubSend, IInv, HandsOK, Held, OnePlace, NoDuplicateRows, RowsExact, RowsOK, RowsExact, Drained, MetricsOK
<1>5. QED
  BY <1>1, <1>2, <1>3, <1>4 DEF IInv

LEMMA PubReturnInv ==
  ASSUME IInv, PubReturn
  PROVE  IInv'
<1>1. TypeOK'
  BY DEF PubReturn, IInv, TypeOK
<1>2. EndsOK'
  BY <1>1 DEF PubReturn, IInv, TypeOK, CountersOrdered, HandsOK, OnePlace, Held, MetricsOK, Drained, EndsOK
<1>3. CountersOrdered' /\ HandsOK' /\ OnePlace' /\ RowsOK' /\ MetricsOK'
  BY DEF PubReturn, IInv, CountersOrdered, HandsOK, Held, OnePlace, NoDuplicateRows, RowsExact, RowsOK, RowsExact, Drained, MetricsOK
<1>4. QED
  BY <1>1, <1>2, <1>3 DEF IInv

-----------------------------------------------------------------------------
(* Steps of embedQuestions. *)

LEMMA EmbReceiveInv ==
  ASSUME IInv, EmbReceive
  PROVE  IInv'
<1>1. TypeOK'
  BY DEF EmbReceive, IInv, TypeOK
<1>2. CountersOrdered'
  BY <1>1 DEF EmbReceive, IInv, TypeOK, CountersOrdered
<1>3. EndsOK'
  BY <1>1 DEF EmbReceive, IInv, TypeOK, CountersOrdered, HandsOK, OnePlace, Held, MetricsOK, Drained, EndsOK
<1>4. HandsOK' /\ OnePlace' /\ RowsOK' /\ MetricsOK'
  BY DEF EmbReceive, IInv, HandsOK, Held, OnePlace, NoDuplicateRows, RowsExact, RowsOK, RowsExact, Drained, MetricsOK
<1>5. QED
  BY <1>1, <1>2, <1>3, <1>4 DEF IInv

LEMMA EmbDrainedInv ==
  ASSUME IInv, EmbDrained
  PROVE  IInv'
<1>1. TypeOK'
  BY DEF EmbDrained, IInv, TypeOK
<1>2. CountersOrdered'
  BY <1>1 DEF EmbDrained, IInv, TypeOK, CountersOrdered
<1>3. EndsOK'
  BY <1>1 DEF EmbDrained, IInv, TypeOK, CountersOrdered, HandsOK, OnePlace, Held, MetricsOK, Drained, EndsOK
<1>4. HandsOK' /\ OnePlace' /\ RowsOK' /\ MetricsOK'
  BY DEF EmbDrained, IInv, HandsOK, Held, OnePlace, NoDuplicateRows, RowsExact, RowsOK, RowsExact, Drained, MetricsOK
<1>5. QED
  BY <1>1, <1>2, <1>3, <1>4 DEF IInv

LEMMA EmbedInv ==
  ASSUME IInv, Embed
  PROVE  IInv'
<1>1. TypeOK'
  BY DEF Embed, IInv, TypeOK
<1>2. CountersOrdered'
  BY <1>1 DEF Embed, IInv, TypeOK, CountersOrdered
<1>3. EndsOK'
  BY <1>1 DEF Embed, IInv, TypeOK, CountersOrdered, HandsOK, OnePlace, Held, MetricsOK, Drained, EndsOK
<1>4. HandsOK' /\ OnePlace' /\ RowsOK' /\ MetricsOK'
  BY DEF Embed, IInv, HandsOK, Held, OnePlace, NoDuplicateRows, RowsExact, RowsOK, RowsExact, Drained, MetricsOK
<1>5. QED
  BY <1>1, <1>2, <1>3, <1>4 DEF IInv

LEMMA EmbSendInv ==
  ASSUME IInv, EmbSend
  PROVE  IInv'
<1>1. TypeOK'
  BY DEF EmbSend, IInv, TypeOK, CountersOrdered
<1>2. CountersOrdered'
  BY <1>1 DEF EmbSend, IInv, TypeOK, CountersOrdered
<1>3. EndsOK'
  BY <1>1 DEF EmbSend, IInv, TypeOK, CountersOrdered, HandsOK, OnePlace, Held, MetricsOK, Drained, EndsOK
<1>4. HandsOK' /\ OnePlace' /\ RowsOK' /\ MetricsOK'
  BY DEF EmbSend, IInv, HandsOK, Held, OnePlace, NoDuplicateRows, RowsExact, RowsOK, RowsExact, Drained, MetricsOK
<1>5. QED
  BY <1>1, <1>2, <1>3, <1>4 DEF IInv

LEMMA EmbCancelledInv ==
  ASSUME IInv, EmbCancelled
  PROVE  IInv'
<1>1. TypeOK'
  BY DEF EmbCancelled, IInv, TypeOK
<1>2. CountersOrdered'
  BY <1>1 DEF EmbCancelled, IInv, TypeOK, CountersOrdered
<1>3. EndsOK'
  BY <1>1 DEF EmbCancelled, IInv, TypeOK, CountersOrdered, HandsOK, OnePlace, Held, MetricsOK, Drained, EndsOK
<1>4. HandsOK' /\ OnePlace' /\ RowsOK' /\ MetricsOK'
  BY DEF EmbCancelled, IInv, HandsOK, Held, OnePlace, NoDuplicateRows, RowsExact, RowsOK, RowsExact, Drained, MetricsOK
<1>5. QED
  BY <1>1, <1>2, <1>3, <1>4 DEF IInv

-----------------------------------------------------------------------------
(* Steps of evaluateQuestions. *)

LEMMA ReceiveInv ==
  ASSUME IInv, NEW w \in Workers, Receive(w)
  PROVE  IInv'
<1>1. TypeOK'
  BY DEF Receive, IInv, TypeOK
<1>2. CountersOrdered'
  BY <1>1 DEF Receive, IInv, TypeOK, CountersOrdered
<1>3. HandsOK'
  BY <1>1 DEF Receive, IInv, TypeOK, CountersOrdered, HandsOK
<1>4. OnePlace'
  BY <1>1 DEF Receive, IInv, TypeOK, CountersOrdered, HandsOK, OnePlace, Held, MetricsOK, Drained
<1>5. MetricsOK'
  BY <1>1 DEF Receive, IInv, TypeOK, OnePlace, RowsOK, RowsExact, MetricsOK, Drained, EndsOK
<1>6. EndsOK'
  <2>1. worker'[w] \notin Closed /\ worker'[w] # "err"
    BY DEF Receive, IInv, TypeOK
  <2>2. Held' = Held \cup {received + 1}
    BY DEF Receive, IInv, TypeOK, HandsOK, Held
  <2>3. ~groupErr /\ (\A x \in Workers : worker'[x] # "err") =>
            1..received' \subseteq Held' \cup resultChan \cup results \cup allResults
    <3>1. \A x \in Workers : worker'[x] # "err" => worker[x] # "err"
      BY DEF Receive, IInv, TypeOK
    <3>2. received' = received + 1 /\ received \in Nat
      BY DEF Receive, IInv, TypeOK
    <3> QED
      BY <2>2, <3>1, <3>2 DEF IInv, EndsOK
  <2> QED
    BY <2>1, <2>3 DEF Receive, IInv, TypeOK, CountersOrdered, EndsOK
<1>7. RowsOK'
  BY DEF Receive, IInv, NoDuplicateRows, RowsExact, RowsOK
<1>8. QED
  BY <1>1, <1>2, <1>3, <1>4, <1>5, <1>6, <1>7 DEF IInv

LEMMA EvaluateInv ==
  ASSUME IInv, NEW w \in Workers, Evaluate(w)
  PROVE  IInv'
<1>1. TypeOK'
  BY DEF Evaluate, IInv, TypeOK
<1>2. HandsOK'
  BY <1>1 DEF Evaluate, IInv, TypeOK, CountersOrdered, HandsOK
<1>3. MetricsOK'
  BY <1>1 DEF Evaluate, IInv, TypeOK, OnePlace, RowsOK, RowsExact, MetricsOK, Drained, EndsOK
<1>4. EndsOK'
  BY <1>1 DEF Evaluate, IInv, TypeOK, CountersOrdered, HandsOK, OnePlace, Held, MetricsOK, Drained, EndsOK
<1>5. CountersOrdered' /\ OnePlace' /\ RowsOK'
  BY DEF Evaluate, IInv, CountersOrdered, Held, OnePlace, NoDuplicateRows, RowsExact, RowsOK
<1>6. QED
  BY <1>1, <1>2, <1>3, <1>4, <1>5 DEF IInv

LEMMA SendResultInv ==
  ASSUME IInv, NEW w \in Workers, SendResult(w)
  PROVE  IInv'
<1>1. TypeOK'
  <2>1. hand[w] \in Questions
    BY DEF SendResult, IInv, TypeOK, HandsOK
  <2>2. worker' \in [Workers -> {"recv", "work", "send", "sendFailed"} \union Closed]
    BY DEF SendResult, IInv, TypeOK
  <2>3. hand' \in [Workers -> 0..N]
    BY DEF SendResult, IInv, TypeOK
  <2>4. QED
    BY <2>1, <2>2, <2>3 DEF SendResult, IInv, TypeOK
<1>2. HandsOK'
  BY <1>1 DEF SendResult, IInv, TypeOK, CountersOrdered, HandsOK
<1>3. OnePlace'
  <2>1. hand[w] \in Held /\ hand[w] \in 1..received
    BY DEF SendResult, IInv, TypeOK, HandsOK, Held
  <2>2. Held' = Held \ {hand[w]}
    BY DEF SendResult, IInv, TypeOK, HandsOK, Held
  <2>3. QED
    BY <2>1, <2>2 DEF SendResult, IInv, OnePlace
<1>4. MetricsOK'
  BY <1>1 DEF SendResult, IInv, TypeOK, OnePlace, RowsOK, RowsExact, MetricsOK, Drained, EndsOK
<1>5. EndsOK'
  BY <1>1 DEF SendResult, IInv, TypeOK, CountersOrdered, HandsOK, OnePlace, Held, MetricsOK, Drained, EndsOK
<1>6. CountersOrdered' /\ RowsOK'
  BY DEF SendResult, IInv, CountersOrdered, NoDuplicateRows, RowsExact, RowsOK
<1>7. QED
  BY <1>1, <1>2, <1>3, <1>4, <1>5, <1>6 DEF IInv

LEMMA WorkerDrainedInv ==
  ASSUME IInv, NEW w \in Workers, WorkerDrained(w)
  PROVE  IInv'
<1>1. TypeOK'
  BY DEF WorkerDrained, IInv, TypeOK
<1>2. HandsOK'
  BY <1>1 DEF WorkerDrained, IInv, TypeOK, CountersOrdered, HandsOK
<1>3. MetricsOK'
  BY <1>1 DEF WorkerDrained, IInv, TypeOK, OnePlace, RowsOK, RowsExact, MetricsOK, Drained, EndsOK
<1>4. EndsOK'
  BY <1>1 DEF WorkerDrained, IInv, TypeOK, CountersOrdered, HandsOK, OnePlace, Held, MetricsOK, Drained, EndsOK
<1>5. CountersOrdered' /\ OnePlace' /\ RowsOK'
  BY DEF WorkerDrained, IInv, CountersOrdered, Held, OnePlace, NoDuplicateRows, RowsExact, RowsOK
<1>6. QED
  BY <1>1, <1>2, <1>3, <1>4, <1>5 DEF IInv

LEMMA WorkerCancelledInv ==
  ASSUME IInv, NEW w \in Workers, WorkerCancelled(w)
  PROVE  IInv'
<1>1. TypeOK'
  BY DEF WorkerCancelled, IInv, TypeOK
<1>2. HandsOK'
  BY <1>1 DEF WorkerCancelled, IInv, TypeOK, CountersOrdered, HandsOK
<1>3. OnePlace'
  BY <1>1 DEF WorkerCancelled, IInv, TypeOK, CountersOrdered, HandsOK, OnePlace, Held, MetricsOK, Drained
<1>4. MetricsOK'
  BY <1>1 DEF WorkerCancelled, IInv, TypeOK, OnePlace, RowsOK, RowsExact, MetricsOK, Drained, EndsOK
<1>5. EndsOK'
  BY <1>1 DEF WorkerCancelled, IInv, TypeOK, CountersOrdered, HandsOK, OnePlace, Held, MetricsOK, Drained, EndsOK
<1>6. CountersOrdered' /\ RowsOK'
  BY DEF WorkerCancelled, IInv, CountersOrdered, NoDuplicateRows, RowsExact, RowsOK
<1>7. QED
  BY <1>1, <1>2, <1>3, <1>4, <1>5, <1>6 DEF IInv

-----------------------------------------------------------------------------
(* Steps of the closer. *)

LEMMA CloseResultsInv ==
  ASSUME IInv, CloseResults
  PROVE  IInv'
<1>1. TypeOK'
  BY DEF CloseResults, IInv, TypeOK
<1>2. MetricsOK'
  BY <1>1 DEF CloseResults, IInv, TypeOK, OnePlace, RowsOK, RowsExact, MetricsOK, Drained, EndsOK
<1>3. EndsOK'
  BY <1>1 DEF CloseResults, IInv, TypeOK, CountersOrdered, HandsOK, OnePlace, Held, MetricsOK, Drained, EndsOK
<1>4. CountersOrdered' /\ HandsOK' /\ OnePlace' /\ RowsOK'
  BY DEF CloseResults, IInv, CountersOrdered, HandsOK, Held, OnePlace, NoDuplicateRows, RowsExact, RowsOK
<1>5. QED
  BY <1>1, <1>2, <1>3, <1>4 DEF IInv

-----------------------------------------------------------------------------
(* Steps of collectResults. *)

LEMMA CollectResultInv ==
  ASSUME IInv, CollectResult
  PROVE  IInv'
<1>1. TypeOK'
  BY DEF CollectResult, IInv, TypeOK
<1>2. OnePlace'
  BY <1>1 DEF CollectResult, IInv, TypeOK, CountersOrdered, HandsOK, OnePlace, Held, MetricsOK, Drained
<1>3. RowsOK'
  BY <1>1 DEF CollectResult, IInv, TypeOK, OnePlace, RowsOK, RowsExact, NoDuplicateRows, MetricsOK
<1>4. MetricsOK'
  BY <1>1 DEF CollectResult, IInv, TypeOK, OnePlace, RowsOK, RowsExact, MetricsOK, Drained, EndsOK
<1>5. EndsOK'
  BY <1>1 DEF CollectResult, IInv, TypeOK, CountersOrdered, HandsOK, OnePlace, Held, MetricsOK, Drained, EndsOK
<1>6. CountersOrdered' /\ HandsOK'
  BY DEF CollectResult, IInv, CountersOrdered, HandsOK
<1>7. QED
  BY <1>1, <1>2, <1>3, <1>4, <1>5, <1>6 DEF IInv

LEMMA CollectClosedInv ==
  ASSUME IInv, CollectClosed
  PROVE  IInv'
<1>1. TypeOK'
  BY DEF CollectClosed, IInv, TypeOK
<1>2. OnePlace'
  BY <1>1 DEF CollectClosed, IInv, TypeOK, CountersOrdered, HandsOK, OnePlace, Held, MetricsOK, Drained
<1>3. RowsOK'
  BY <1>1 DEF CollectClosed, IInv, TypeOK, OnePlace, RowsOK, RowsExact, NoDuplicateRows, MetricsOK
<1>4. MetricsOK'
  BY <1>1 DEF CollectClosed, IInv, TypeOK, OnePlace, RowsOK, RowsExact, MetricsOK, Drained, EndsOK
<1>5. EndsOK'
  BY <1>1 DEF CollectClosed, IInv, TypeOK, CountersOrdered, HandsOK, OnePlace, Held, MetricsOK, Drained, EndsOK
<1>6. CountersOrdered' /\ HandsOK'
  BY DEF CollectClosed, IInv, CountersOrdered, HandsOK
<1>7. QED
  BY <1>1, <1>2, <1>3, <1>4, <1>5, <1>6 DEF IInv

LEMMA BulkAddQueryResultsInv ==
  ASSUME IInv, BulkAddQueryResults
  PROVE  IInv'
<1>1. TypeOK'
  <2>1. rows' \in [Questions -> Nat]
    BY DEF BulkAddQueryResults, IInv, TypeOK
  <2>2. QED
    BY <2>1 DEF BulkAddQueryResults, IInv, TypeOK
<1>2. OnePlace'
  BY <1>1 DEF BulkAddQueryResults, IInv, TypeOK, CountersOrdered, HandsOK, OnePlace, Held, MetricsOK, Drained
<1>3. RowsOK'
  <2>1. RowsExact /\ results \intersect allResults = {}
    BY DEF BulkAddQueryResults, IInv, RowsOK, OnePlace
  <2>2. CASE InsertResults /\ allResults' = allResults \union results
    <3>1. RowsExact'
      BY <2>1, <2>2 DEF RowsExact, IInv, TypeOK
    <3>2. QED
      BY <2>2, <3>1 DEF BulkAddQueryResults, IInv, TypeOK, RowsOK, RowsExact, NoDuplicateRows
  <2>3. CASE InsertResults /\ UNCHANGED batches /\ coll' = "err"
    BY <2>1, <2>3 DEF BulkAddQueryResults, IInv, TypeOK, RowsOK, RowsExact, NoDuplicateRows
  <2>4. CASE UNCHANGED rows /\ UNCHANGED batches /\ coll' = "err"
    BY <2>4 DEF BulkAddQueryResults, IInv, RowsOK, NoDuplicateRows
  <2>5. QED
    BY <2>2, <2>3, <2>4 DEF BulkAddQueryResults
<1>4. MetricsOK'
  BY <1>1 DEF BulkAddQueryResults, IInv, TypeOK, OnePlace, RowsOK, RowsExact, MetricsOK, Drained, EndsOK
<1>5. EndsOK'
  BY <1>1 DEF BulkAddQueryResults, IInv, TypeOK, CountersOrdered, HandsOK, OnePlace, Held, MetricsOK, Drained, EndsOK
<1>6. CountersOrdered' /\ HandsOK'
  BY DEF BulkAddQueryResults, IInv, CountersOrdered, HandsOK
<1>7. QED
  BY <1>1, <1>2, <1>3, <1>4, <1>5, <1>6 DEF IInv

LEMMA SaveEvalCheckpointInv ==
  ASSUME IInv, SaveEvalCheckpoint
  PROVE  IInv'
<1>1. TypeOK'
  BY DEF SaveEvalCheckpoint, IInv, TypeOK
<1>2. OnePlace'
  BY <1>1 DEF SaveEvalCheckpoint, IInv, TypeOK, CountersOrdered, HandsOK, OnePlace, Held, MetricsOK, Drained
<1>3. RowsOK'
  BY <1>1 DEF SaveEvalCheckpoint, IInv, TypeOK, OnePlace, RowsOK, RowsExact, NoDuplicateRows, MetricsOK
<1>4. MetricsOK'
  BY <1>1 DEF SaveEvalCheckpoint, IInv, TypeOK, OnePlace, RowsOK, RowsExact, MetricsOK, Drained, EndsOK
<1>5. EndsOK'
  BY <1>1 DEF SaveEvalCheckpoint, IInv, TypeOK, CountersOrdered, HandsOK, OnePlace, Held, MetricsOK, Drained, EndsOK
<1>6. CountersOrdered' /\ HandsOK'
  BY DEF SaveEvalCheckpoint, IInv, CountersOrdered, HandsOK
<1>7. QED
  BY <1>1, <1>2, <1>3, <1>4, <1>5, <1>6 DEF IInv

LEMMA UpdateRunMetricsInv ==
  ASSUME IInv, UpdateRunMetrics
  PROVE  IInv'
<1>1. TypeOK'
  BY DEF UpdateRunMetrics, IInv, TypeOK
<1>2. OnePlace'
  BY <1>1 DEF UpdateRunMetrics, IInv, TypeOK, CountersOrdered, HandsOK, OnePlace, Held, MetricsOK, Drained
<1>3. RowsOK'
  BY <1>1 DEF UpdateRunMetrics, IInv, TypeOK, OnePlace, RowsOK, RowsExact, NoDuplicateRows, MetricsOK
<1>4. MetricsOK'
  BY <1>1 DEF UpdateRunMetrics, IInv, TypeOK, OnePlace, RowsOK, RowsExact, MetricsOK, Drained, EndsOK
<1>5. EndsOK'
  BY <1>1 DEF UpdateRunMetrics, IInv, TypeOK, CountersOrdered, HandsOK, OnePlace, Held, MetricsOK, Drained, EndsOK
<1>6. CountersOrdered' /\ HandsOK'
  BY DEF UpdateRunMetrics, IInv, CountersOrdered, HandsOK
<1>7. QED
  BY <1>1, <1>2, <1>3, <1>4, <1>5, <1>6 DEF IInv

LEMMA CollReturnInv ==
  ASSUME IInv, CollReturn
  PROVE  IInv'
<1>1. TypeOK'
  BY DEF CollReturn, IInv, TypeOK
<1>2. OnePlace'
  BY <1>1 DEF CollReturn, IInv, TypeOK, CountersOrdered, HandsOK, OnePlace, Held, MetricsOK, Drained
<1>3. RowsOK'
  BY <1>1 DEF CollReturn, IInv, TypeOK, OnePlace, RowsOK, RowsExact, NoDuplicateRows, MetricsOK
<1>4. MetricsOK'
  BY <1>1 DEF CollReturn, IInv, TypeOK, OnePlace, RowsOK, RowsExact, MetricsOK, Drained, EndsOK
<1>5. EndsOK'
  BY <1>1 DEF CollReturn, IInv, TypeOK, CountersOrdered, HandsOK, OnePlace, Held, MetricsOK, Drained, EndsOK
<1>6. CountersOrdered' /\ HandsOK'
  BY DEF CollReturn, IInv, CountersOrdered, HandsOK
<1>7. QED
  BY <1>1, <1>2, <1>3, <1>4, <1>5, <1>6 DEF IInv

LEMMA CollCancelledInv ==
  ASSUME IInv, CollCancelled
  PROVE  IInv'
<1>1. TypeOK'
  BY DEF CollCancelled, IInv, TypeOK
<1>2. OnePlace'
  BY <1>1 DEF CollCancelled, IInv, TypeOK, CountersOrdered, HandsOK, OnePlace, Held, MetricsOK, Drained
<1>3. RowsOK'
  BY <1>1 DEF CollCancelled, IInv, TypeOK, OnePlace, RowsOK, RowsExact, NoDuplicateRows, MetricsOK
<1>4. MetricsOK'
  BY <1>1 DEF CollCancelled, IInv, TypeOK, OnePlace, RowsOK, RowsExact, MetricsOK, Drained, EndsOK
<1>5. EndsOK'
  BY <1>1 DEF CollCancelled, IInv, TypeOK, CountersOrdered, HandsOK, OnePlace, Held, MetricsOK, Drained, EndsOK
<1>6. CountersOrdered' /\ HandsOK'
  BY DEF CollCancelled, IInv, CountersOrdered, HandsOK
<1>7. QED
  BY <1>1, <1>2, <1>3, <1>4, <1>5, <1>6 DEF IInv

-----------------------------------------------------------------------------
(* Steps of the errgroup and the job's context. *)

LEMMA RecordPubInv ==
  ASSUME IInv, RecordPub
  PROVE  IInv'
<1>1. TypeOK'
  BY DEF RecordPub, IInv, TypeOK
<1>2. MetricsOK'
  BY <1>1 DEF RecordPub, IInv, TypeOK, OnePlace, RowsOK, RowsExact, MetricsOK, Drained, EndsOK
<1>3. EndsOK'
  BY <1>1 DEF RecordPub, IInv, TypeOK, CountersOrdered, HandsOK, OnePlace, Held, MetricsOK, Drained, EndsOK
<1>4. CountersOrdered' /\ HandsOK' /\ OnePlace' /\ RowsOK'
  BY DEF RecordPub, IInv, CountersOrdered, HandsOK, Held, OnePlace, NoDuplicateRows, RowsExact, RowsOK
<1>5. QED
  BY <1>1, <1>2, <1>3, <1>4 DEF IInv

LEMMA RecordEmbInv ==
  ASSUME IInv, RecordEmb
  PROVE  IInv'
<1>1. TypeOK'
  BY DEF RecordEmb, IInv, TypeOK
<1>2. CountersOrdered'
  BY <1>1 DEF RecordEmb, IInv, TypeOK, CountersOrdered
<1>3. MetricsOK'
  BY <1>1 DEF RecordEmb, IInv, TypeOK, OnePlace, RowsOK, RowsExact, MetricsOK, Drained, EndsOK
<1>4. EndsOK'
  BY <1>1 DEF RecordEmb, IInv, TypeOK, CountersOrdered, HandsOK, OnePlace, Held, MetricsOK, Drained, EndsOK
<1>5. HandsOK' /\ OnePlace' /\ RowsOK'
  BY DEF RecordEmb, IInv, HandsOK, Held, OnePlace, NoDuplicateRows, RowsExact, RowsOK
<1>6. QED
  BY <1>1, <1>2, <1>3, <1>4, <1>5 DEF IInv

LEMMA RecordWorkerInv ==
  ASSUME IInv, NEW w \in Workers, RecordWorker(w)
  PROVE  IInv'
<1>1. TypeOK'
  BY DEF RecordWorker, IInv, TypeOK
<1>2. HandsOK'
  BY <1>1 DEF RecordWorker, IInv, TypeOK, CountersOrdered, HandsOK
<1>3. MetricsOK'
  BY <1>1 DEF RecordWorker, IInv, TypeOK, OnePlace, RowsOK, RowsExact, MetricsOK, Drained, EndsOK
<1>4. EndsOK'
  BY <1>1 DEF RecordWorker, IInv, TypeOK, CountersOrdered, HandsOK, OnePlace, Held, MetricsOK, Drained, EndsOK
<1>5. CountersOrdered' /\ OnePlace' /\ RowsOK'
  BY DEF RecordWorker, IInv, CountersOrdered, Held, OnePlace, NoDuplicateRows, RowsExact, RowsOK
<1>6. QED
  BY <1>1, <1>2, <1>3, <1>4, <1>5 DEF IInv

LEMMA RecordCollInv ==
  ASSUME IInv, RecordColl
  PROVE  IInv'
<1>1. TypeOK'
  BY DEF RecordColl, IInv, TypeOK
<1>2. OnePlace'
  BY <1>1 DEF RecordColl, IInv, TypeOK, CountersOrdered, HandsOK, OnePlace, Held, MetricsOK, Drained
<1>3. RowsOK'
  BY <1>1 DEF RecordColl, IInv, TypeOK, OnePlace, RowsOK, RowsExact, NoDuplicateRows, MetricsOK
<1>4. MetricsOK'
  BY <1>1 DEF RecordColl, IInv, TypeOK, OnePlace, RowsOK, RowsExact, MetricsOK, Drained, EndsOK
<1>5. EndsOK'
  BY <1>1 DEF RecordColl, IInv, TypeOK, CountersOrdered, HandsOK, OnePlace, Held, MetricsOK, Drained, EndsOK
<1>6. CountersOrdered' /\ HandsOK'
  BY DEF RecordColl, IInv, CountersOrdered, HandsOK
<1>7. QED
  BY <1>1, <1>2, <1>3, <1>4, <1>5, <1>6 DEF IInv

LEMMA CancelJobInv ==
  ASSUME IInv, CancelJob
  PROVE  IInv'
<1>1. TypeOK'
  BY DEF CancelJob, IInv, TypeOK
<1>2. EndsOK'
  BY <1>1 DEF CancelJob, IInv, TypeOK, CountersOrdered, HandsOK, OnePlace, Held, MetricsOK, Drained, EndsOK
<1>3. CountersOrdered' /\ HandsOK' /\ OnePlace' /\ RowsOK' /\ MetricsOK'
  BY DEF CancelJob, IInv, CountersOrdered, HandsOK, Held, OnePlace, NoDuplicateRows, RowsExact, RowsOK, RowsExact, Drained, MetricsOK
<1>4. QED
  BY <1>1, <1>2, <1>3 DEF IInv

-----------------------------------------------------------------------------
(* The invariant and the properties it gives. *)

LEMMA StutterInv == ASSUME IInv, UNCHANGED vars PROVE IInv'
<1>1. TypeOK' /\ CountersOrdered' /\ HandsOK' /\ OnePlace'
  BY DEF vars, IInv, TypeOK, CountersOrdered, HandsOK, OnePlace, Held
<1>2. RowsOK' /\ MetricsOK'
  BY DEF vars, IInv, RowsOK, RowsExact, NoDuplicateRows, MetricsOK, Drained
<1>3. EndsOK'
  BY DEF vars, IInv, EndsOK, Held
<1>4. QED
  BY <1>1, <1>2, <1>3 DEF IInv

LEMMA StepInv == IInv /\ [Next]_vars => IInv'
<1> SUFFICES ASSUME IInv, [Next]_vars PROVE IInv'
  OBVIOUS
<1>1. CASE Publisher
  BY <1>1, PubSendInv, PubReturnInv, RecordPubInv DEF Publisher
<1>2. CASE Embedder
  BY <1>2, EmbReceiveInv, EmbDrainedInv, EmbedInv, EmbSendInv, EmbCancelledInv,
     RecordEmbInv DEF Embedder
<1>3. ASSUME NEW w \in Workers, Subscriber(w) PROVE IInv'
  BY <1>3, ReceiveInv, EvaluateInv, SendResultInv, WorkerDrainedInv,
     WorkerCancelledInv, RecordWorkerInv DEF Subscriber
<1>4. CASE CloseResults
  BY <1>4, CloseResultsInv
<1>5. CASE Collector
  BY <1>5, CollectResultInv, CollectClosedInv, BulkAddQueryResultsInv,
     SaveEvalCheckpointInv, UpdateRunMetricsInv, CollReturnInv,
     CollCancelledInv, RecordCollInv DEF Collector
<1>6. CASE CancelJob
  BY <1>6, CancelJobInv
<1>7. CASE Terminated \/ UNCHANGED vars
  BY <1>7, StutterInv DEF Terminated
<1>8. QED
  BY <1>1, <1>2, <1>3, <1>4, <1>5, <1>6, <1>7 DEF Next

\* The inductive invariant holds throughout every attempt.
THEOREM Invariance == Spec => []IInv
<1>1. Init => IInv
  BY InitInv
<1>2. IInv /\ [Next]_vars => IInv'
  BY StepInv
<1>3. QED
  BY <1>1, <1>2, PTL DEF Spec

LEMMA RowsExactStored == ASSUME TypeOK, RowsExact PROVE allResults = Stored
<1>1. \A q \in Questions : rows[q] > 0 <=> q \in allResults
  BY DEF RowsExact
<1>2. QED
  BY <1>1 DEF TypeOK, Stored

\* The variables keep their types: no counter passes the number of questions,
\* and nothing but a question is ever in a channel, a batch or the database.
THEOREM TypeCorrect == Spec => []TypeOK
<1>1. IInv => TypeOK
  BY DEF IInv
<1>2. QED
  BY <1>1, Invariance, PTL

\* A run never holds two rows for one question.
THEOREM RowsUnique == Spec => []NoDuplicateRows
<1>1. IInv => NoDuplicateRows
  BY DEF IInv, RowsOK
<1>2. QED
  BY <1>1, Invariance, PTL

\* A checkpoint counts committed rows only.
THEOREM CheckpointDurable == Spec => []CheckpointIsDurable
<1>1. IInv => CheckpointIsDurable
  BY DEF IInv, TypeOK, RowsOK, CheckpointIsDurable, Stored
<1>2. QED
  BY <1>1, Invariance, PTL

\* Whenever a run has metrics they are over exactly its rows.
THEOREM MetricsAgree == Spec => []MetricsMatchRows
<1>1. ASSUME IInv, RowsExact PROVE allResults = Stored
  BY <1>1, RowsExactStored DEF IInv
<1>2. IInv => MetricsMatchRows
  BY <1>1 DEF IInv, MetricsOK, MetricsMatchRows
<1>3. QED
  BY <1>2, Invariance, PTL

\* Metrics over everything unless an error is on record or about to be.
LEMMA MetricsComplete ==
  ASSUME IInv, metrics # {}, ~groupErr, pub # "err", emb # "err"
  PROVE  metrics = Questions
<1>1. Drained /\ metrics = allResults /\ results \subseteq allResults
  BY DEF IInv, MetricsOK
<1>2. received = embedded /\ emb = "done"
  BY <1>1 DEF IInv, EndsOK, Drained
<1>3. received = N
  BY <1>2 DEF IInv, EndsOK
<1>4. Held = {}
  BY <1>1 DEF IInv, HandsOK, Held, Drained
<1>5. 1..received \subseteq allResults
  BY <1>1, <1>4 DEF IInv, EndsOK, Drained
<1>6. QED
  BY <1>1, <1>3, <1>5 DEF IInv, TypeOK

\* An attempt that returns nil has stored and aggregated every question.
THEOREM SuccessComplete == Spec => []SuccessIsComplete
<1>1. ASSUME IInv, Returned, ~groupErr
      PROVE  metrics = Questions /\ Stored = Questions
  <2>1. metrics # {}
    BY <1>1 DEF IInv, MetricsOK, Returned
  <2>2. metrics = Questions
    BY <1>1, <2>1, MetricsComplete DEF Returned
  <2>3. Stored = Questions
    BY <1>1, <2>1, <2>2 DEF IInv, MetricsOK, RowsExact, Stored
  <2>4. QED
    BY <2>2, <2>3
<1>2. IInv => SuccessIsComplete
  BY <1>1 DEF SuccessIsComplete
<1>3. QED
  BY <1>2, Invariance, PTL

\* Metrics over a part of the dataset only belong to an attempt that fails.
THEOREM PartialFails == Spec => []PartialMetricsMeanFailure
<1>1. IInv => PartialMetricsMeanFailure
  BY MetricsComplete DEF PartialMetricsMeanFailure
<1>2. QED
  BY <1>1, Invariance, PTL

-----------------------------------------------------------------------------
(* The pipeline implements EvalAttempt. *)

LEMMA InitRefines == Init => Attempt!Init
<1> SUFFICES ASSUME Init PROVE Attempt!Fresh(Questions)
  BY DEF Attempt!Init
<1>1. outcome = "running"
  BY DEF Init, outcome, Returned
<1>2. QED
  BY <1>1 DEF Init, Attempt!Fresh

\* A step that leaves the database alone is a step nothing outside the attempt
\* can see, unless it is the one with which Work returns.
LEMMA QuietStep ==
  ASSUME IInv, IInv', Next, UNCHANGED db
  PROVE  Attempt!Next \/ UNCHANGED Attempt!attemptVars
<1>1. CASE outcome' = outcome
  BY <1>1 DEF Attempt!attemptVars
<1>2. CASE Returned
  <2>1. groupErr' = groupErr /\ Returned'
    BY <1>2 DEF Returned, Next, Publisher, PubSend, PubReturn, RecordPub, Embedder,
       EmbReceive, EmbDrained, Embed, EmbSend, EmbCancelled, RecordEmb, Subscriber,
       Receive, Evaluate, SendResult, WorkerDrained, WorkerCancelled, RecordWorker,
       CloseResults, Collector, CollectResult, CollectClosed, BulkAddQueryResults,
       SaveEvalCheckpoint, UpdateRunMetrics, CollReturn, CollCancelled, RecordColl,
       CancelJob, Terminated, vars
  <2>2. QED
    BY <1>2, <2>1 DEF outcome, Attempt!attemptVars
<1>3. CASE ~Returned /\ Returned' /\ groupErr'
  <2>1. Attempt!Fail
    BY <1>3 DEF outcome, Attempt!Fail
  <2>2. QED
    BY <2>1 DEF Attempt!Next
<1>4. CASE ~Returned /\ Returned' /\ ~groupErr'
  <2>1. metrics' # {}
    BY <1>4 DEF IInv, MetricsOK, Returned
  <2>2. (metrics = Questions)'
    <3>1. (IInv /\ metrics # {} /\ ~groupErr /\ pub # "err" /\ emb # "err"
             => metrics = Questions)'
      BY MetricsComplete, PTL
    <3>2. QED
      BY <1>4, <2>1, <3>1 DEF Returned
  <2>3. Attempt!Succeed
    BY <1>4, <2>1, <2>2 DEF outcome, Attempt!Succeed
  <2>4. QED
    BY <2>3 DEF Attempt!Next
<1>5. QED
  BY <1>1, <1>2, <1>3, <1>4 DEF outcome

\* While the collector is not done, the attempt is running.
LEMMA CollectorRunning == coll # "done" => outcome = "running"
  BY DEF outcome, Returned

LEMMA BulkAddRefines ==
  ASSUME IInv, BulkAddQueryResults
  PROVE  (\E S \in SUBSET Questions : Attempt!StoreBatch(S))
            \/ UNCHANGED Attempt!attemptVars
<1>1. outcome = "running" /\ outcome' = "running"
  BY DEF BulkAddQueryResults, outcome, Returned
<1>2. CASE UNCHANGED rows
  BY <1>1, <1>2 DEF BulkAddQueryResults, Attempt!attemptVars
<1>3. CASE InsertResults
  <2>1. results # {} /\ results \subseteq Questions /\ metrics = {}
    BY DEF BulkAddQueryResults, IInv, TypeOK, OnePlace, MetricsOK
  <2>2. \A q \in results : rows[q] = 0
    BY DEF BulkAddQueryResults, IInv, TypeOK, OnePlace, RowsOK, RowsExact
  <2>3. rows' = [q \in Questions |-> IF q \in results THEN 1 ELSE rows[q]]
    BY <1>3, <2>2
  <2>4. results \subseteq Questions \ Attempt!Stored
    BY <2>1, <2>2 DEF Attempt!Stored
  <2>5. Attempt!StoreBatch(results)
    BY <1>1, <2>1, <2>3, <2>4 DEF BulkAddQueryResults, Attempt!StoreBatch
  <2>6. QED
    BY <2>1, <2>5
<1>4. QED
  BY <1>2, <1>3 DEF BulkAddQueryResults

LEMMA CheckpointRefines ==
  ASSUME IInv, SaveEvalCheckpoint
  PROVE  Attempt!SaveCheckpoint \/ UNCHANGED Attempt!attemptVars
<1>1. outcome = "running" /\ outcome' = "running"
  BY DEF SaveEvalCheckpoint, outcome, Returned
<1>2. metrics = {} /\ allResults = Attempt!Stored
  BY RowsExactStored DEF SaveEvalCheckpoint, IInv, MetricsOK, RowsOK, Stored,
     Attempt!Stored
<1>3. QED
  BY <1>1, <1>2 DEF SaveEvalCheckpoint, Attempt!SaveCheckpoint, Attempt!attemptVars

LEMMA MetricsRefines ==
  ASSUME IInv, UpdateRunMetrics
  PROVE  Attempt!WriteMetrics \/ UNCHANGED Attempt!attemptVars
<1>1. outcome = "running" /\ outcome' = "running"
  BY DEF UpdateRunMetrics, outcome, Returned
<1>2. metrics = {} /\ allResults = Attempt!Stored
  BY RowsExactStored DEF UpdateRunMetrics, IInv, MetricsOK, RowsOK, Stored,
     Attempt!Stored
<1>3. QED
  BY <1>1, <1>2 DEF UpdateRunMetrics, Attempt!WriteMetrics, Attempt!attemptVars

LEMMA StepRefines ==
  IInv /\ IInv' /\ [Next]_vars => [Attempt!Next]_(Attempt!attemptVars)
<1> SUFFICES ASSUME IInv, IInv', [Next]_vars
             PROVE  Attempt!Next \/ UNCHANGED Attempt!attemptVars
  OBVIOUS
<1>1. CASE UNCHANGED vars
  BY <1>1 DEF vars, outcome, Returned, Attempt!attemptVars
<1>2. CASE BulkAddQueryResults
  BY <1>2, BulkAddRefines DEF Attempt!Next
<1>3. CASE SaveEvalCheckpoint
  BY <1>3, CheckpointRefines DEF Attempt!Next
<1>4. CASE UpdateRunMetrics
  BY <1>4, MetricsRefines DEF Attempt!Next
<1>5. CASE Next /\ ~BulkAddQueryResults /\ ~SaveEvalCheckpoint /\ ~UpdateRunMetrics
  <2>1. UNCHANGED db
    BY <1>5 DEF Next, Publisher, PubSend, PubReturn, RecordPub, Embedder, EmbReceive,
       EmbDrained, Embed, EmbSend, EmbCancelled, RecordEmb, Subscriber, Receive,
       Evaluate, SendResult, WorkerDrained, WorkerCancelled, RecordWorker,
       CloseResults, Collector, CollectResult, CollectClosed, CollReturn,
       CollCancelled, RecordColl, CancelJob, Terminated, vars
  <2>2. QED
    BY <1>5, <2>1, QuietStep
<1>6. QED
  BY <1>1, <1>2, <1>3, <1>4, <1>5

\* Whatever the goroutines do, seen from the database and the result of Work
\* the pipeline is the abstract attempt.
THEOREM ImplementsAttempt == Spec => RefinesAttempt
<1>1. Init => Attempt!Init
  BY InitRefines
<1>2. IInv /\ IInv' /\ [Next]_vars => [Attempt!Next]_(Attempt!attemptVars)
  BY StepRefines
<1>3. QED
  BY <1>1, <1>2, Invariance, PTL DEF Spec, RefinesAttempt, Attempt!Spec
=============================================================================
