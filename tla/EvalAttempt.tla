----------------------------- MODULE EvalAttempt -----------------------------
(***************************************************************************)
(* What one attempt of an evaluation job promises to everything that reads *)
(* its results: a run of eval_runs whose rows of eval_queries grow by      *)
(* batches of questions that have no row yet, a checkpoint that counts     *)
(* only stored questions, metrics computed once over exactly the stored    *)
(* rows, and success only when every question to evaluate has its row.     *)
(* How the goroutines of EvalWorker.Work reach this is EvalPipeline; what  *)
(* the retries of a job do with it is EvalJob.                             *)
(***************************************************************************)
EXTENDS Naturals

CONSTANT Questions      \* the questions of the dataset, by position

VARIABLES todo,         \* the questions this attempt has to evaluate
          rows,         \* rows[q]: rows of eval_queries for q in this run
          saved,        \* the questions QuestionsProcessed counts
          metrics,      \* the questions eval_runs.metrics is over, {} when NULL
          outcome       \* "running", or what Work returned: "ok", "failed"

attemptVars == <<todo, rows, saved, metrics, outcome>>

Stored == {q \in Questions : rows[q] > 0}

\* The state in which CreateRun has just returned.
Fresh(S) ==
    /\ todo = S
    /\ rows = [q \in Questions |-> 0]
    /\ saved = {}
    /\ metrics = {}
    /\ outcome = "running"

Init == \E S \in SUBSET Questions : Fresh(S)

\* BulkAddQueryResults commits one batch, all of it or none of it.
StoreBatch(S) ==
    /\ outcome = "running"
    /\ metrics = {}
    /\ S # {} /\ S \subseteq todo \ Stored
    /\ rows' = [q \in Questions |-> IF q \in S THEN 1 ELSE rows[q]]
    /\ UNCHANGED <<todo, saved, metrics, outcome>>

\* saveEvalCheckpoint, always over everything stored so far.
SaveCheckpoint ==
    /\ outcome = "running"
    /\ metrics = {}
    /\ saved' = Stored
    /\ UNCHANGED <<todo, rows, metrics, outcome>>

\* UpdateRunMetrics. Over no result at all the averages are 0/0, which JSON
\* cannot encode, so an empty run never gets metrics.
WriteMetrics ==
    /\ outcome = "running"
    /\ metrics = {}
    /\ Stored # {}
    /\ metrics' = Stored
    /\ UNCHANGED <<todo, rows, saved, outcome>>

\* Work returns nil.
Succeed ==
    /\ outcome = "running"
    /\ todo # {}
    /\ metrics = todo
    /\ outcome' = "ok"
    /\ UNCHANGED <<todo, rows, saved, metrics>>

\* Work returns an error, wherever it had got to.
Fail ==
    /\ outcome = "running"
    /\ outcome' = "failed"
    /\ UNCHANGED <<todo, rows, saved, metrics>>

Next ==
    \/ \E S \in SUBSET todo : StoreBatch(S)
    \/ SaveCheckpoint
    \/ WriteMetrics
    \/ Succeed
    \/ Fail

Spec == Init /\ [][Next]_attemptVars
=============================================================================
