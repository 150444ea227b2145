------------------------------- MODULE EvalJob -------------------------------
(***************************************************************************)
(* One evaluation job over all its attempts: River fetches it, EvalWorker. *)
(* Work reads the checkpoint of the attempts before, cleans up, creates a  *)
(* run and evaluates, and River retries it when Work fails or its process  *)
(* dies. The steps on the run of the current attempt are those of          *)
(* EvalAttempt, which EvalPipeline implements, in the order in which       *)
(* collectResults takes them.                                              *)
(*                                                                         *)
(* A run is identified by its position: `past` holds the runs of the ended *)
(* attempts, and the run of the attempt under way is Len(past) + 1.        *)
(***************************************************************************)
EXTENDS Naturals, Sequences, FiniteSets

CONSTANTS NumQuestions,     \* questions in the dataset
          BatchSizes,       \* the EvalArgs.BatchSize a job may be inserted with
          MaxAttempts,      \* MAX_RETRIES of the API server
          MaxFaults         \* bound on the attempts ended by a fault

ASSUME JobAssumption ==
    /\ NumQuestions \in Nat \ {0}
    /\ BatchSizes \subseteq Nat \ {0}
    /\ MaxAttempts \in Nat \ {0}
    /\ MaxFaults \in Nat

VARIABLES batchSize,    \* EvalArgs.BatchSize of this job
          todo, rows, saved, metrics, outcome,  \* the run under way: EvalAttempt
          state,        \* the job in River
          attempt,      \* attempts started
          pc,           \* where Work is
          past,         \* the runs of ended attempts
          checkpoint,   \* job.Output(): [run, processed], run 0 for none
          faults        \* attempts ended by a fault

runVars == <<todo, rows, saved, metrics, outcome>>
vars    == <<runVars, batchSize, state, attempt, pc, past, checkpoint, faults>>

Questions == 1..NumQuestions

Run == INSTANCE EvalAttempt

CurrentRun == Len(past) + 1

-----------------------------------------------------------------------------
(* Faulty variants of the operators below, one plausible slip each. No      *)
(* specification uses them: they show which property notices which slip.    *)

SkippedOneLess == 1..(checkpoint.processed - 1)
MoreThanABatch == checkpoint.processed > batchSize
ProcessedSoFar == checkpoint.processed + Cardinality(Run!Stored)
NeverRescued == IF attempt < MaxAttempts THEN "running" ELSE "discarded"

-----------------------------------------------------------------------------
\* publishQuestions drops the first QuestionsProcessed questions of the file.
Skipped == 1..checkpoint.processed

\* The checkpoint counts results, and names the run that holds them.
HasCheckpoint == checkpoint.processed > 0

\* The results of this attempt: those of the attempts before are not added.
Processed == Cardinality(Run!Stored)

Init ==
    /\ batchSize \in BatchSizes
    /\ Run!Fresh({})
    /\ state = "available" /\ attempt = 0 /\ pc = "idle"
    /\ past = <<>>
    /\ checkpoint = [run |-> 0, processed |-> 0]
    /\ faults = 0

-----------------------------------------------------------------------------
(* River *)

Fetch ==
    /\ state = "available"
    /\ state' = "running"
    /\ attempt' = attempt + 1
    /\ pc' = "clean"
    /\ UNCHANGED <<batchSize, runVars, past, checkpoint, faults>>

\* The attempt is over: its run, if it created one, is left as it stands.
EndAttempt(next) ==
    /\ past' = IF pc \in {"clean", "create"} THEN past
               ELSE Append(past, [rows |-> Run!Stored, metrics |-> metrics])
    /\ pc' = "idle"
    /\ state' = next

Retried == IF attempt < MaxAttempts THEN "available" ELSE "discarded"

\* Work returned an error: retried with backoff, or given up.
AttemptFailed ==
    /\ outcome = "failed"
    /\ pc \notin {"idle", "clean", "create"}
    /\ EndAttempt(Retried)
    /\ UNCHANGED <<batchSize, runVars, attempt, checkpoint, faults>>

\* Work returned nil and River has recorded it.
AttemptCompleted ==
    /\ pc = "return" /\ outcome = "ok"
    /\ EndAttempt("completed")
    /\ UNCHANGED <<batchSize, runVars, attempt, checkpoint, faults>>

\* The process dies, or the attempt hangs past its timeout (Wedged in
\* EvalPipeline): the rescuer makes the job retryable.
Crash ==
    /\ pc # "idle"
    /\ faults < MaxFaults /\ faults' = faults + 1
    /\ EndAttempt(Retried)
    /\ UNCHANGED <<batchSize, runVars, attempt, checkpoint>>

-----------------------------------------------------------------------------
(* EvalWorker.Work *)

\* DeleteRunResults of the run the checkpoint names. The row of eval_runs and
\* its metrics stay.
Clean ==
    /\ pc = "clean"
    /\ past' = IF HasCheckpoint
               THEN [past EXCEPT ![checkpoint.run].rows = {}]
               ELSE past
    /\ pc' = "create"
    /\ UNCHANGED <<batchSize, runVars, state, attempt, checkpoint, faults>>

CreateRun ==
    /\ pc = "create"
    /\ todo' = Questions \ Skipped
    /\ rows' = [q \in Questions |-> 0]
    /\ saved' = {} /\ metrics' = {} /\ outcome' = "running"
    /\ pc' = "evaluate"
    /\ UNCHANGED <<batchSize, state, attempt, past, checkpoint, faults>>

\* DeleteRunResults or CreateRun fails before there is a run.
StartFails ==
    /\ pc \in {"clean", "create"}
    /\ faults < MaxFaults /\ faults' = faults + 1
    /\ EndAttempt(Retried)
    /\ UNCHANGED <<batchSize, runVars, attempt, checkpoint>>

Remaining == todo \ Run!Stored

\* The collector has a full batch. Subscribers finish in any order, so it may
\* be any of the questions left.
StoreFullBatch ==
    /\ pc = "evaluate"
    /\ \E S \in SUBSET Remaining :
        /\ Cardinality(S) = batchSize
        /\ Run!StoreBatch(S)
    /\ pc' = "checkpoint"
    /\ UNCHANGED <<batchSize, state, attempt, past, checkpoint, faults>>

SaveCheckpoint ==
    /\ pc = "checkpoint"
    /\ Run!SaveCheckpoint
    /\ checkpoint' = [run |-> CurrentRun, processed |-> Processed]
    /\ pc' = "evaluate"
    /\ UNCHANGED <<batchSize, state, attempt, past, faults>>

\* A checkpoint that cannot be saved is logged, and the attempt goes on.
CheckpointLost ==
    /\ pc = "checkpoint"
    /\ faults < MaxFaults /\ faults' = faults + 1
    /\ pc' = "evaluate"
    /\ UNCHANGED <<batchSize, runVars, state, attempt, past, checkpoint>>

\* The final flush of a partial batch, which saves no checkpoint.
FinalFlush ==
    /\ pc = "evaluate"
    /\ Cardinality(Remaining) < batchSize
    /\ IF Remaining = {} THEN UNCHANGED runVars ELSE Run!StoreBatch(Remaining)
    /\ pc' = "metrics"
    /\ UNCHANGED <<batchSize, state, attempt, past, checkpoint, faults>>

UpdateMetrics ==
    /\ pc = "metrics"
    /\ IF Run!Stored # {} THEN Run!WriteMetrics /\ pc' = "finish"
                          ELSE Run!Fail /\ pc' = "return"
    /\ UNCHANGED <<batchSize, state, attempt, past, checkpoint, faults>>

Finish ==
    /\ pc = "finish"
    /\ Run!Succeed
    /\ pc' = "return"
    /\ UNCHANGED <<batchSize, state, attempt, past, checkpoint, faults>>

\* Work returns an error once it has a run: dependencies, dataset, embedding,
\* database, timeout or shutdown.
WorkFails ==
    /\ pc \in {"evaluate", "checkpoint", "metrics", "finish"}
    /\ faults < MaxFaults /\ faults' = faults + 1
    /\ Run!Fail
    /\ pc' = "return"
    /\ UNCHANGED <<batchSize, state, attempt, past, checkpoint>>

Over == state \in {"completed", "discarded"} /\ UNCHANGED vars

Work == \/ Clean \/ CreateRun \/ StoreFullBatch \/ SaveCheckpoint
        \/ CheckpointLost \/ FinalFlush \/ UpdateMetrics \/ Finish \/ WorkFails
        \/ StartFails

Next == Fetch \/ AttemptFailed \/ AttemptCompleted \/ Crash \/ Work \/ Over

Spec == Init /\ [][Next]_vars

\* River keeps fetching and recording, and an attempt that nothing stops goes on.
Fairness == WF_vars(Fetch \/ AttemptFailed \/ AttemptCompleted \/ Work)

FairSpec == Spec /\ Fairness

-----------------------------------------------------------------------------
RunRecord == [rows : SUBSET Questions, metrics : SUBSET Questions]

TypeOK ==
    /\ batchSize \in BatchSizes
    /\ todo \subseteq Questions
    /\ rows \in [Questions -> Nat]
    /\ saved \subseteq Questions /\ metrics \subseteq Questions
    /\ outcome \in {"running", "ok", "failed"}
    /\ state \in {"available", "running", "completed", "discarded"}
    /\ attempt \in 0..MaxAttempts
    /\ pc \in {"idle", "clean", "create", "evaluate", "checkpoint", "metrics",
               "finish", "return"}
    /\ past \in Seq(RunRecord) /\ Len(past) <= attempt
    /\ checkpoint \in [run : 0..CurrentRun, processed : 0..NumQuestions]
    /\ faults \in 0..MaxFaults

HasRun == pc \notin {"idle", "clean", "create"}

\* Numbers of questions that whole batches make.
WholeBatches == {k * batchSize : k \in 0..NumQuestions}

\* A completed job's last run holds exactly the questions from one position of
\* the dataset on, and its metrics are over them: what a retry loses is a
\* prefix of whole batches, those the checkpoint it started from counted.
CompletedRunIsSuffix ==
    state = "completed" =>
        \E skip \in WholeBatches :
            past[Len(past)] = [rows    |-> (skip + 1)..NumQuestions,
                               metrics |-> (skip + 1)..NumQuestions]

\* Once an attempt works on its run, the run the checkpoint names has no rows
\* left, also when attempts without a checkpoint lie between the two.
CheckpointedRunIsCleaned ==
    HasRun /\ checkpoint.run \in DOMAIN past => past[checkpoint.run].rows = {}

\* A job is given up when each of its attempts met a fault, or when a checkpoint
\* counts the whole dataset: then nothing is left for a retry to evaluate, and
\* each further attempt fails on the metrics of its empty run.
WhyDiscarded ==
    state = "discarded" =>
        faults >= MaxAttempts \/ checkpoint.processed = NumQuestions

\* The job ends: completed, or discarded when its attempts are used up.
JobEnds == <>[](state \in {"completed", "discarded"})

-----------------------------------------------------------------------------
(* The inductive invariant behind these, proved in EvalJobProofs.           *)

\* Work is somewhere exactly while the job runs, and attempts are left to those
\* that are retried.
LifeOK ==
    /\ state = "running" <=> pc # "idle"
    /\ state = "available" => attempt < MaxAttempts
    /\ state = "discarded" => attempt = MaxAttempts
    /\ state = "running" => Len(past) < attempt
    /\ HasRun => (pc # "return" <=> outcome = "running")

\* The run under way is over what a whole number of batches has left, and holds
\* such a number until the final flush.
RunOK ==
    HasRun =>
        /\ \E skip \in WholeBatches : todo = (skip + 1)..NumQuestions
        /\ Run!Stored \subseteq todo
        /\ pc \in {"evaluate", "checkpoint"} => Cardinality(Run!Stored) \in WholeBatches
        /\ pc = "checkpoint" => Run!Stored # {}
        /\ pc \in {"evaluate", "checkpoint", "metrics"} => metrics = {}
        /\ pc \in {"metrics", "finish"} \/ outcome = "ok" => Run!Stored = todo
        /\ pc = "finish" \/ outcome = "ok" => metrics = todo

\* A checkpoint counts whole batches, of an earlier run, which a retry cleans
\* before it creates its own, or of the run under way, which has at least as many.
CheckpointOK ==
    /\ checkpoint.processed \in WholeBatches
    /\ checkpoint.run = 0 <=> checkpoint.processed = 0
    /\ ~HasRun => checkpoint.run <= Len(past)
    /\ (pc = "create" \/ HasRun) /\ checkpoint.run \in DOMAIN past =>
           past[checkpoint.run].rows = {}
    /\ HasRun =>
           IF checkpoint.run = CurrentRun
           THEN checkpoint.processed <= Cardinality(Run!Stored)
           ELSE todo = (checkpoint.processed + 1)..NumQuestions
    /\ pc = "checkpoint" => checkpoint.processed < NumQuestions

\* Each ended attempt met a fault, until a checkpoint counts everything.
FaultsOK ==
    checkpoint.processed # NumQuestions =>
        /\ state \in {"available", "discarded"} => attempt <= faults
        /\ state = "running" => attempt - 1 <= faults
        /\ pc = "return" /\ outcome = "failed" => attempt <= faults

IInv == TypeOK /\ LifeOK /\ RunOK /\ CheckpointOK /\ FaultsOK /\ CompletedRunIsSuffix

-----------------------------------------------------------------------------
(* What one would expect, and what the code does not keep: TLC refutes both *)
(* with the constants of EvalJobRetries.cfg (README, Findings).             *)

CompletedIsComplete ==
    state = "completed" => past[Len(past)].rows = Questions

DiscardedOnlyByFaults ==
    state = "discarded" => faults >= MaxAttempts
=============================================================================
