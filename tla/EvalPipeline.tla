----------------------------- MODULE EvalPipeline -----------------------------
(***************************************************************************)
(* One attempt of EvalWorker.Work (internal/workflow/eval_worker.go), from *)
(* the errgroup to g.Wait: a publisher that reads the dataset, an embedder *)
(* that embeds in batches, a pool of subscribers that retrieve, generate   *)
(* and judge, a closer and a collector that stores batches, checkpoints    *)
(* and aggregates, joined by three channels of capacity BatchSize.         *)
(*                                                                         *)
(* Questions are numbered in the order the publisher sends them, after the *)
(* lines it skips. questionChan and workChan have one sender and are FIFO, *)
(* so each is the interval between two counters. resultChan is the set of  *)
(* questions in it: a question has at most one result, and nothing in the  *)
(* collector depends on their order.                                       *)
(***************************************************************************)
EXTENDS Integers, FiniteSets

CONSTANTS N,            \* questions the publisher has to send
          Workers,      \* the subscribers
          BatchSize,    \* channel capacity, embedding batch, storage batch
          Faults        \* what may go wrong: a subset of FaultKinds

FaultKinds == {"scan", "embed", "db", "cancel"}

ASSUME PipelineAssumption ==
    /\ N \in Nat
    /\ Workers # {} /\ IsFiniteSet(Workers)
    /\ BatchSize \in Nat \ {0}
    /\ Faults \subseteq FaultKinds

VARIABLES ctxDone,      \* the errgroup's context is done
          groupErr,     \* the error g.Wait will return has been recorded
          pub,          \* publisher
          emb,          \* embedder
          lastBatch,    \* embedder: channelOpen is false for this batch
          worker,       \* worker[w]: subscriber w
          hand,         \* hand[w]: the question subscriber w works on, 0 if none
          closer,       \* closer
          coll,         \* collector
          published,    \* questions sent to questionChan
          taken,        \* questions received from questionChan
          embedded,     \* work units sent to workChan
          received,     \* work units received from workChan
          resultChan,   \* questions whose result is in resultChan
          results,      \* collector: the batch being filled
          allResults,   \* collector: what has been stored so far
          rows,         \* rows[q]: rows of eval_queries for q
          saved,        \* questions counted by the last checkpoint
          metrics       \* questions eval_runs.metrics is over, {} when NULL

group    == <<ctxDone, groupErr>>
pubVars  == <<pub, published>>
embVars  == <<emb, lastBatch, taken, embedded>>
subVars  == <<worker, hand, received>>
batches  == <<results, allResults>>
db       == <<rows, saved, metrics>>
collVars == <<coll, batches, db>>
vars     == <<group, pubVars, embVars, subVars, closer, resultChan, collVars>>

Questions == 1..N

\* A deferred close runs before the errgroup sees the goroutine's error: "err"
\* is the state between the two.
Closed == {"err", "done"}

-----------------------------------------------------------------------------
(* Faulty variants of the operators below, one plausible slip each. No      *)
(* specification uses them: they show which property notices which slip.    *)

NeverClosed == FALSE
AnyWorkerEnded == \E w \in Workers : worker[w] \in Closed
ProcessedTooEarly == allResults \union resultChan

-----------------------------------------------------------------------------
\* The state of a goroutine that makes a call next: a call to the embedder, the
\* vector store or the database made with a done context fails at once. One
\* that is under way when the context ends may succeed or fail.
Call(pc, failed) == IF ctxDone THEN failed ELSE pc

\* There is a question left and questionChan has room for it.
CanPublish == published < N /\ published - taken < BatchSize

\* The deferred closes of the publisher and of the embedder have run.
QuestionChanClosed == pub \in Closed
WorkChanClosed == emb \in Closed

\* workerWg.Wait returns: the deferred Done of every subscriber has run.
AllWorkersEnded == \A w \in Workers : worker[w] \in Closed

Init ==
    /\ ctxDone = FALSE /\ groupErr = FALSE
    /\ pub = "send"
    /\ emb = "fill" /\ lastBatch = FALSE
    /\ worker = [w \in Workers |-> "recv"]
    /\ hand = [w \in Workers |-> 0]
    /\ closer = "wait"
    /\ coll = "recv"
    /\ published = 0 /\ taken = 0 /\ embedded = 0 /\ received = 0
    /\ resultChan = {}
    /\ results = {} /\ allResults = {}
    /\ rows = [q \in Questions |-> 0] /\ saved = {} /\ metrics = {}

-----------------------------------------------------------------------------
(* publishQuestions *)

PubSend ==
    /\ pub = "send"
    /\ CanPublish
    /\ published' = published + 1
    /\ UNCHANGED <<group, pub, embVars, subVars, closer, resultChan, collVars>>

\* The end of the file, a read error or an overlong line, or ctx.Done while the
\* channel would also take the question.
PubReturn ==
    /\ pub = "send"
    /\ \/ published = N /\ pub' = "done"
       \/ "scan" \in Faults /\ pub' = "err"
       \/ published < N /\ ctxDone /\ pub' = "err"
    /\ UNCHANGED <<group, published, embVars, subVars, closer, resultChan,
                   collVars>>

-----------------------------------------------------------------------------
(* embedQuestions *)

EmbReceive ==
    /\ emb = "fill"
    /\ taken < published
    /\ taken' = taken + 1
    /\ emb' = IF taken' - embedded = BatchSize THEN Call("embed", "err")
              ELSE "fill"
    /\ UNCHANGED <<group, pubVars, lastBatch, embedded, subVars, closer,
                   resultChan, collVars>>

\* questionChan is closed and drained: an empty batch ends the embedder, a
\* partial one is its last.
EmbDrained ==
    /\ emb = "fill"
    /\ taken = published /\ QuestionChanClosed
    /\ IF taken = embedded
       THEN emb' = "done" /\ UNCHANGED lastBatch
       ELSE emb' = Call("embed", "err") /\ lastBatch' = TRUE
    /\ UNCHANGED <<group, pubVars, taken, embedded, subVars, closer,
                   resultChan, collVars>>

Embed ==
    /\ emb = "embed"
    /\ \/ emb' = "send"
       \/ ("embed" \in Faults \/ ctxDone) /\ emb' = "err"
    /\ UNCHANGED <<group, pubVars, lastBatch, taken, embedded, subVars, closer,
                   resultChan, collVars>>

EmbSend ==
    /\ emb = "send"
    /\ embedded - received < BatchSize
    /\ embedded' = embedded + 1
    /\ emb' = IF embedded' < taken THEN "send"
              ELSE IF lastBatch THEN "done" ELSE "fill"
    /\ UNCHANGED <<group, pubVars, lastBatch, taken, subVars, closer,
                   resultChan, collVars>>

EmbCancelled ==
    /\ emb \in {"fill", "send"}
    /\ ctxDone
    /\ emb' = "err"
    /\ UNCHANGED <<group, pubVars, lastBatch, taken, embedded, subVars, closer,
                   resultChan, collVars>>

-----------------------------------------------------------------------------
(* evaluateQuestions *)

Receive(w) ==
    /\ worker[w] = "recv"
    /\ received < embedded
    /\ received' = received + 1
    /\ hand' = [hand EXCEPT ![w] = received + 1]
    /\ worker' = [worker EXCEPT ![w] = Call("work", "sendFailed")]
    /\ UNCHANGED <<group, pubVars, embVars, closer, resultChan, collVars>>

\* Retrieve, then EvaluateQuestion. Only an error of Retrieve takes the path
\* whose send has no ctx.Done alternative; a failed generation or judgement
\* comes back as an ordinary result.
Evaluate(w) ==
    /\ worker[w] = "work"
    /\ \E next \in {"send", "sendFailed"} :
           worker' = [worker EXCEPT ![w] = next]
    /\ UNCHANGED <<group, pubVars, embVars, hand, received, closer, resultChan,
                   collVars>>

SendResult(w) ==
    /\ worker[w] \in {"send", "sendFailed"}
    /\ Cardinality(resultChan) < BatchSize
    /\ resultChan' = resultChan \union {hand[w]}
    /\ hand' = [hand EXCEPT ![w] = 0]
    /\ worker' = [worker EXCEPT ![w] = "recv"]
    /\ UNCHANGED <<group, pubVars, embVars, received, closer, collVars>>

WorkerDrained(w) ==
    /\ worker[w] = "recv"
    /\ received = embedded /\ WorkChanClosed
    /\ worker' = [worker EXCEPT ![w] = "done"]
    /\ UNCHANGED <<group, pubVars, embVars, hand, received, closer, resultChan,
                   collVars>>

\* A result that was ready to be sent is dropped.
WorkerCancelled(w) ==
    /\ worker[w] \in {"recv", "send"}
    /\ ctxDone
    /\ worker' = [worker EXCEPT ![w] = "err"]
    /\ hand' = [hand EXCEPT ![w] = 0]
    /\ UNCHANGED <<group, pubVars, embVars, received, closer, resultChan,
                   collVars>>

-----------------------------------------------------------------------------
(* closer *)

CloseResults ==
    /\ closer = "wait"
    /\ AllWorkersEnded
    /\ closer' = "done"
    /\ UNCHANGED <<group, pubVars, embVars, subVars, resultChan, collVars>>

-----------------------------------------------------------------------------
(* collectResults. A database call under way when the context ends, or when *)
(* the connection breaks, reports an error whether or not it was committed. *)

DBFault == "db" \in Faults \/ ctxDone

CollectResult ==
    /\ coll = "recv"
    /\ \E q \in resultChan :
        /\ resultChan' = resultChan \ {q}
        /\ results' = results \union {q}
    /\ coll' = IF Cardinality(results') >= BatchSize THEN Call("store", "err")
               ELSE "recv"
    /\ UNCHANGED <<group, pubVars, embVars, subVars, closer, allResults, db>>

CollectClosed ==
    /\ coll = "recv"
    /\ resultChan = {} /\ closer = "done"
    /\ coll' = Call(IF results = {} THEN "metrics" ELSE "flush", "err")
    /\ UNCHANGED <<group, pubVars, embVars, subVars, closer, resultChan,
                   batches, db>>

InsertResults == rows' = [q \in Questions |->
                              IF q \in results THEN rows[q] + 1 ELSE rows[q]]

\* *allResults = append(*allResults, results...), then processed := len(*allResults)
\* and results = results[:0].
Appended == allResults \union results
Processed == allResults
Truncated == {}

BulkAddQueryResults ==
    /\ coll \in {"store", "flush"}
    /\ \/ /\ InsertResults
          /\ allResults' = Appended
          /\ IF coll = "flush"
             THEN coll' = Call("metrics", "err") /\ UNCHANGED results
             ELSE /\ coll' = Call("checkpoint", "recv")
                  /\ results' = IF ctxDone THEN Truncated ELSE results
       \/ /\ DBFault
          /\ InsertResults \/ UNCHANGED rows
          /\ coll' = "err"
          /\ UNCHANGED batches
    /\ UNCHANGED <<group, pubVars, embVars, subVars, closer, resultChan, saved,
                   metrics>>

\* A checkpoint that cannot be saved is only logged.
SaveEvalCheckpoint ==
    /\ coll = "checkpoint"
    /\ saved' = Processed \/ (DBFault /\ UNCHANGED saved)
    /\ results' = Truncated
    /\ coll' = "recv"
    /\ UNCHANGED <<group, pubVars, embVars, subVars, closer, resultChan,
                   allResults, rows, metrics>>

\* The averages over no result are 0/0 and cannot be marshalled.
UpdateRunMetrics ==
    /\ coll = "metrics"
    /\ \/ allResults # {} /\ metrics' = allResults /\ coll' = "written"
       \/ allResults # {} /\ DBFault /\ metrics' = allResults /\ coll' = "err"
       \/ (allResults = {} \/ DBFault) /\ UNCHANGED metrics /\ coll' = "err"
    /\ UNCHANGED <<group, pubVars, embVars, subVars, closer, resultChan,
                   batches, rows, saved>>

CollReturn ==
    /\ coll = "written"
    /\ coll' = "done"
    /\ UNCHANGED <<group, pubVars, embVars, subVars, closer, resultChan,
                   batches, db>>

CollCancelled ==
    /\ coll = "recv"
    /\ ctxDone
    /\ coll' = "err"
    /\ UNCHANGED <<group, pubVars, embVars, subVars, closer, resultChan,
                   batches, db>>

-----------------------------------------------------------------------------
(* errgroup: the error a goroutine returned is recorded and cancels the     *)
(* context.                                                                 *)

Record == groupErr' = TRUE /\ ctxDone' = TRUE

RecordPub ==
    /\ pub = "err" /\ pub' = "done" /\ Record
    /\ UNCHANGED <<published, embVars, subVars, closer, resultChan, collVars>>

RecordEmb ==
    /\ emb = "err" /\ emb' = "done" /\ Record
    /\ UNCHANGED <<pubVars, lastBatch, taken, embedded, subVars, closer,
                   resultChan, collVars>>

RecordWorker(w) ==
    /\ worker[w] = "err" /\ worker' = [worker EXCEPT ![w] = "done"] /\ Record
    /\ UNCHANGED <<pubVars, embVars, hand, received, closer, resultChan,
                   collVars>>

RecordColl ==
    /\ coll = "err" /\ coll' = "done" /\ Record
    /\ UNCHANGED <<pubVars, embVars, subVars, closer, resultChan, batches, db>>

\* River's job timeout or a shutdown of workerd cancels the job's context.
CancelJob ==
    /\ "cancel" \in Faults
    /\ ~ctxDone
    /\ ctxDone' = TRUE
    /\ UNCHANGED <<groupErr, pubVars, embVars, subVars, closer, resultChan,
                   collVars>>

-----------------------------------------------------------------------------
\* g.Wait returns.
Returned ==
    /\ pub = "done" /\ emb = "done" /\ closer = "done" /\ coll = "done"
    /\ \A w \in Workers : worker[w] = "done"

Terminated == Returned /\ UNCHANGED vars

Publisher == PubSend \/ PubReturn \/ RecordPub
Embedder  == EmbReceive \/ EmbDrained \/ Embed \/ EmbSend \/ EmbCancelled \/ RecordEmb
Subscriber(w) == \/ Receive(w) \/ Evaluate(w) \/ SendResult(w)
                 \/ WorkerDrained(w) \/ WorkerCancelled(w) \/ RecordWorker(w)
Collector == \/ CollectResult \/ CollectClosed \/ BulkAddQueryResults
             \/ SaveEvalCheckpoint \/ UpdateRunMetrics \/ CollReturn
             \/ CollCancelled \/ RecordColl

Next ==
    \/ Publisher
    \/ Embedder
    \/ \E w \in Workers : Subscriber(w)
    \/ CloseResults
    \/ Collector
    \/ CancelJob
    \/ Terminated

Spec == Init /\ [][Next]_vars

\* Every goroutine that can take a step is eventually scheduled, and every call
\* to the embedder, the vector store, a model or the database comes back.
Fairness ==
    /\ WF_vars(Publisher)
    /\ WF_vars(Embedder)
    /\ \A w \in Workers : WF_vars(Subscriber(w))
    /\ WF_vars(CloseResults)
    /\ WF_vars(Collector)

FairSpec == Spec /\ Fairness

-----------------------------------------------------------------------------
TypeOK ==
    /\ ctxDone \in BOOLEAN /\ groupErr \in BOOLEAN
    /\ pub \in {"send"} \union Closed
    /\ emb \in {"fill", "embed", "send"} \union Closed
    /\ lastBatch \in BOOLEAN
    /\ worker \in [Workers -> {"recv", "work", "send", "sendFailed"} \union Closed]
    /\ hand \in [Workers -> 0..N]
    /\ closer \in {"wait", "done"}
    /\ coll \in {"recv", "store", "checkpoint", "flush", "metrics", "written"}
                \union Closed
    /\ published \in 0..N /\ taken \in 0..N
    /\ embedded \in 0..N /\ received \in 0..N
    /\ resultChan \subseteq Questions
    /\ results \subseteq Questions /\ allResults \subseteq Questions
    /\ rows \in [Questions -> Nat]
    /\ saved \subseteq Questions /\ metrics \subseteq Questions

Stored == {q \in Questions : rows[q] > 0}

\* No question gets two rows in a run, though eval_queries has no uniqueness
\* constraint: whatever the interleaving of subscribers, batch reuse
\* (results[:0]) and final flush.
NoDuplicateRows == \A q \in Questions : rows[q] <= 1

\* QuestionsProcessed never counts a question whose row is not committed: the
\* batch is stored before the checkpoint.
CheckpointIsDurable == saved \subseteq Stored

\* The metrics of a run are over exactly the rows a reader of the run finds,
\* even when the attempt failed after writing them.
MetricsMatchRows == metrics # {} => metrics = Stored

\* If Work returns nil, every question the publisher had to send has been
\* stored and is in the metrics: no failed retrieval, cancelled subscriber or
\* early close of a channel makes an attempt succeed on a part of the dataset.
SuccessIsComplete ==
    Returned /\ ~groupErr => metrics = Questions /\ Stored = Questions

\* Metrics over a part of the questions are only ever written by an attempt
\* that goes on to fail: the publisher or the embedder ended with an error
\* whose deferred close ran before the error cancelled the others.
PartialMetricsMeanFailure ==
    metrics \notin {{}, Questions} => groupErr \/ pub = "err" \/ emb = "err"

\* The one state the attempt cannot leave: the collector has stopped, so
\* nothing empties a full resultChan, and a subscriber whose retrieval failed
\* sends to it without watching ctx.
Wedged ==
    /\ coll = "done" /\ ctxDone
    /\ Cardinality(resultChan) >= BatchSize
    /\ \E w \in Workers : worker[w] = "sendFailed"

\* Work returns.
AttemptReturns == <>Returned

\* The attempt returns or ends up in that one state and stays there.
ReturnsOrWedges == <>[](Returned \/ Wedged)

-----------------------------------------------------------------------------
(* The inductive invariant behind these, proved in EvalPipelineProofs.      *)

Busy == {"work", "send", "sendFailed"}

Held == {hand[w] : w \in Workers} \ {0}

\* Questions move forward through the counters, and a batch being sent is not
\* empty.
CountersOrdered ==
    /\ received <= embedded /\ embedded <= taken /\ taken <= published
    /\ emb \in {"embed", "send"} => embedded < taken

\* A subscriber at work holds a question of its own.
HandsOK ==
    /\ \A w \in Workers : worker[w] \in Busy <=> hand[w] # 0
    /\ \A w \in Workers : hand[w] <= received
    /\ \A v, w \in Workers : hand[v] # 0 /\ hand[v] = hand[w] => v = w

\* A question that left workChan is in one place.
OnePlace ==
    /\ resultChan \union results \union allResults \subseteq 1..received
    /\ Held \intersect (resultChan \union results \union allResults) = {}
    /\ resultChan \intersect (results \union allResults) = {}
    /\ coll \in {"recv", "store", "flush"} => results \intersect allResults = {}
    /\ coll \in {"store", "flush"} => results # {}
    /\ coll \in {"checkpoint", "metrics", "written"} => results \subseteq allResults

\* The rows are those of allResults, up to one batch whose commit the collector
\* did not learn of.
RowsExact == \A q \in Questions : rows[q] = IF q \in allResults THEN 1 ELSE 0

RowsOK ==
    /\ NoDuplicateRows
    /\ \A q \in allResults : rows[q] = 1
    /\ coll \notin Closed => RowsExact
    /\ saved \subseteq allResults

\* Once the collector aggregates, everything upstream has ended, and not by
\* cancellation.
Drained ==
    /\ closer = "done"
    /\ resultChan = {}
    /\ \A w \in Workers : worker[w] = "done"

MetricsOK ==
    /\ metrics # {} => /\ coll \in {"written"} \union Closed
                       /\ metrics = allResults /\ results \subseteq allResults
                       /\ RowsExact /\ Drained
    /\ coll \in {"flush", "metrics"} => Drained
    /\ coll = "written" \/ (coll = "done" /\ ~groupErr) => metrics # {}

\* A goroutine that ended without an error did so because its input had ended,
\* and until one ends with an error no question is lost.
EndsOK ==
    /\ groupErr => ctxDone
    /\ \A w \in Workers : worker[w] = "err" => ctxDone
    /\ pub = "done" /\ ~groupErr => published = N
    /\ lastBatch => taken = published /\ pub \in Closed
    /\ emb = "done" /\ ~groupErr =>
           taken = published /\ embedded = taken /\ pub \in Closed
    /\ \A w \in Workers : worker[w] = "done" /\ ~groupErr =>
           received = embedded /\ emb \in Closed
    /\ closer = "done" => \A w \in Workers : worker[w] \in Closed
    /\ ~groupErr /\ (\A w \in Workers : worker[w] # "err") =>
           1..received \subseteq Held \union resultChan \union results
                                  \union allResults

IInv ==
    /\ TypeOK /\ CountersOrdered /\ HandsOK /\ OnePlace /\ RowsOK
    /\ MetricsOK /\ EndsOK

-----------------------------------------------------------------------------
(* What the attempt promises: EvalAttempt. *)

outcome == IF ~Returned THEN "running" ELSE IF groupErr THEN "failed" ELSE "ok"

Attempt == INSTANCE EvalAttempt WITH todo <- Questions

\* Every step of the goroutines is a step of the abstract attempt or changes
\* nothing it can see.
RefinesAttempt == Attempt!Spec
=============================================================================
