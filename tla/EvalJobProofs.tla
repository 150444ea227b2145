--------------------------- MODULE EvalJobProofs ---------------------------
(***************************************************************************)
(* For every dataset, batch size, number of attempts and number of faults: *)
(* what the retries of an evaluation job leave of its runs, and why a job  *)
(* is discarded.                                                           *)
(***************************************************************************)
EXTENDS EvalJob, FiniteSetTheorems, TLAPS

USE JobAssumption

-----------------------------------------------------------------------------
(* Batches and the numbers of questions in them.                           *)

LEMMA QuestionsFinite ==
    /\ IsFiniteSet(Questions) /\ Cardinality(Questions) = NumQuestions
    /\ \A S \in SUBSET Questions :
          /\ IsFiniteSet(S) /\ Cardinality(S) \in 0..NumQuestions
          /\ Cardinality(S) = NumQuestions => S = Questions
          /\ Cardinality(S) = 0 => S = {}
<1>1. IsFiniteSet(Questions) /\ Cardinality(Questions) = NumQuestions
  BY FS_Interval DEF Questions
<1>2. ASSUME NEW S \in SUBSET Questions
      PROVE  /\ IsFiniteSet(S) /\ Cardinality(S) \in Nat
             /\ Cardinality(S) <= NumQuestions
             /\ Cardinality(S) = NumQuestions => S = Questions
             /\ Cardinality(S) = 0 => S = {}
  BY <1>1, FS_Subset, FS_CardinalityType, FS_EmptySet
<1> QED
  BY <1>1, <1>2

LEMMA BatchAdds ==
    ASSUME NEW A \in SUBSET Questions, NEW S \in SUBSET (Questions \ A)
    PROVE  Cardinality(A \cup S) = Cardinality(A) + Cardinality(S)
<1>1. IsFiniteSet(A) /\ IsFiniteSet(S) /\ A \cap S = {}
  BY QuestionsFinite
<1>2. Cardinality(A \cup S) = Cardinality(A) + Cardinality(S) - Cardinality(A \cap S)
  BY <1>1, FS_Union
<1>3. Cardinality(A \cap S) = 0
  BY <1>1, FS_EmptySet
<1>4. Cardinality(A) \in Nat /\ Cardinality(S) \in Nat
  BY <1>1, FS_CardinalityType
<1> QED
  BY <1>2, <1>3, <1>4

LEMMA NoBatch == ASSUME batchSize \in BatchSizes PROVE 0 \in WholeBatches
<1>1. batchSize \in Nat
  OBVIOUS
<1>2. 0 \in 0..NumQuestions /\ 0 * batchSize = 0
  BY <1>1
<1> QED
  BY <1>2 DEF WholeBatches

LEMMA OneMoreBatch ==
    ASSUME batchSize \in BatchSizes, NEW n \in WholeBatches,
           n + batchSize <= NumQuestions
    PROVE  n + batchSize \in WholeBatches
<1>1. batchSize \in Nat /\ batchSize >= 1
  OBVIOUS
<1>2. PICK k \in 0..NumQuestions : n = k * batchSize
  BY DEF WholeBatches
<1>3. (k + 1) * batchSize = n + batchSize
  BY <1>1, <1>2
<1>4. k + 1 <= (k + 1) * batchSize
  BY <1>1, <1>2
<1>5. k + 1 \in 0..NumQuestions
  BY <1>1, <1>2, <1>3, <1>4
<1> QED
  BY <1>3, <1>5 DEF WholeBatches

LEMMA StoredType ==
    ASSUME TypeOK
    PROVE  Run!Stored \subseteq Questions /\ Cardinality(Run!Stored) \in 0..NumQuestions
BY QuestionsFinite DEF Run!Stored

LEMMA StoredAfter ==
    ASSUME TypeOK, NEW S, Run!StoreBatch(S)
    PROVE  /\ Run!Stored' = Run!Stored \cup S
           /\ Cardinality(Run!Stored') = Cardinality(Run!Stored) + Cardinality(S)
           /\ Cardinality(Run!Stored') \in 0..NumQuestions
           /\ rows' \in [Questions -> Nat]
           /\ UNCHANGED <<todo, saved, metrics, outcome>>
<1>1. S \subseteq Questions \ Run!Stored /\ Run!Stored \subseteq Questions
  BY DEF Run!StoreBatch, TypeOK, Run!Stored
<1>2. Run!Stored' = Run!Stored \cup S
  BY <1>1 DEF Run!StoreBatch, TypeOK, Run!Stored
<1>3. Cardinality(Run!Stored') = Cardinality(Run!Stored) + Cardinality(S)
  BY <1>1, <1>2, BatchAdds
<1>4. Run!Stored' \subseteq Questions
  BY <1>1, <1>2
<1>5. Cardinality(Run!Stored') \in 0..NumQuestions
  BY <1>4, QuestionsFinite
<1>6. rows' \in [Questions -> Nat] /\ UNCHANGED <<todo, saved, metrics, outcome>>
  BY DEF Run!StoreBatch, TypeOK
<1> QED
  BY <1>2, <1>3, <1>5, <1>6

\* A step that leaves the rows alone leaves what is stored.
LEMMA StoredSame == ASSUME rows' = rows PROVE Run!Stored' = Run!Stored
BY DEF Run!Stored

-----------------------------------------------------------------------------
(* River *)

LEMMA InitInv == Init => IInv
<1> SUFFICES ASSUME Init PROVE IInv
  OBVIOUS
<1>1. 0 \in WholeBatches
  BY NoBatch DEF Init
<1>2. TypeOK
  BY DEF Init, Run!Fresh, TypeOK, CurrentRun, RunRecord
<1>3. LifeOK /\ RunOK /\ FaultsOK /\ CompletedRunIsSuffix
  BY DEF Init, Run!Fresh, LifeOK, RunOK, FaultsOK, CompletedRunIsSuffix, HasRun
<1>4. CheckpointOK
  BY <1>1 DEF Init, Run!Fresh, CheckpointOK, HasRun
<1> QED
  BY <1>2, <1>3, <1>4 DEF IInv

LEMMA FetchInv == ASSUME IInv, Fetch PROVE IInv'
<1> USE DEF IInv
<1>1. TypeOK'
  BY DEF Fetch, runVars, TypeOK, LifeOK, CurrentRun
<1>2. LifeOK' /\ RunOK' /\ CompletedRunIsSuffix'
  BY DEF Fetch, runVars, TypeOK, LifeOK, RunOK, CompletedRunIsSuffix, HasRun
<1>3. CheckpointOK'
  BY DEF Fetch, runVars, TypeOK, LifeOK, CheckpointOK, HasRun, WholeBatches
<1>4. FaultsOK'
  BY DEF Fetch, runVars, TypeOK, LifeOK, FaultsOK
<1> QED
  BY <1>1, <1>2, <1>3, <1>4

\* The end of an attempt, however it ends, keeps what is known of the checkpoint.
LEMMA EndAttemptKeeps ==
    ASSUME IInv, state = "running",
           NEW next \in {"available", "completed", "discarded"}, EndAttempt(next),
           UNCHANGED <<batchSize, runVars, attempt, checkpoint>>,
           faults' \in 0..MaxFaults
    PROVE  /\ TypeOK' /\ CheckpointOK' /\ RunOK'
           /\ state' = next /\ pc' = "idle"
           /\ HasRun => /\ Len(past') = Len(past) + 1
                        /\ past'[Len(past')] = [rows |-> Run!Stored, metrics |-> metrics]
<1> USE DEF IInv
<1> DEFINE run == [rows |-> Run!Stored, metrics |-> metrics]
<1>1. run \in RunRecord
  BY StoredType DEF TypeOK, RunRecord
<1>2. /\ past' \in Seq(RunRecord)
      /\ ~HasRun => past' = past
      /\ HasRun => past' = Append(past, run)
  <2>1. past' = IF HasRun THEN Append(past, run) ELSE past
    BY DEF EndAttempt, HasRun, LifeOK, TypeOK
  <2> QED
    BY <1>1, <2>1 DEF TypeOK
<1>3. /\ Len(past') \in {Len(past), Len(past) + 1}
      /\ Len(past') >= Len(past)
      /\ HasRun => Len(past') = Len(past) + 1 /\ past'[Len(past')] = run
      /\ ~HasRun => Len(past') = Len(past)
  BY <1>1, <1>2 DEF TypeOK
<1>4. Len(past') <= attempt
  BY <1>3 DEF TypeOK, LifeOK
<1>5. checkpoint \in [run : 0..CurrentRun', processed : 0..NumQuestions]
  BY <1>2, <1>3 DEF TypeOK, CurrentRun
<1>6. /\ batchSize' = batchSize /\ todo' = todo /\ rows' = rows /\ saved' = saved
      /\ metrics' = metrics /\ outcome' = outcome /\ attempt' = attempt
      /\ checkpoint' = checkpoint /\ pc' = "idle" /\ state' = next /\ ~HasRun'
  BY DEF runVars, EndAttempt, HasRun
<1>7. TypeOK'
  BY <1>2, <1>4, <1>5, <1>6 DEF TypeOK
<1>8. checkpoint.run <= Len(past')
  BY <1>2, <1>3 DEF TypeOK, CheckpointOK, CurrentRun
<1>9. CheckpointOK' /\ RunOK'
  BY <1>6, <1>8 DEF CheckpointOK, RunOK, WholeBatches
<1> QED
  BY <1>3, <1>6, <1>7, <1>9

LEMMA AttemptFailedInv == ASSUME IInv, AttemptFailed PROVE IInv'
<1> USE DEF IInv
<1>1. /\ state = "running" /\ HasRun /\ pc = "return" /\ EndAttempt(Retried)
      /\ UNCHANGED <<batchSize, runVars, attempt, checkpoint, faults>>
  BY DEF AttemptFailed, LifeOK, HasRun, TypeOK
<1>2. /\ Retried \in {"available", "discarded"}
      /\ Retried = "available" => attempt < MaxAttempts
      /\ Retried = "discarded" => attempt = MaxAttempts
  BY DEF Retried, TypeOK
<1>3. TypeOK' /\ CheckpointOK' /\ RunOK' /\ state' = Retried /\ pc' = "idle"
  BY <1>1, <1>2, EndAttemptKeeps DEF TypeOK
<1>4. LifeOK' /\ CompletedRunIsSuffix'
  BY <1>1, <1>2, <1>3 DEF LifeOK, CompletedRunIsSuffix, HasRun
<1>5. FaultsOK'
  BY <1>1, <1>2, <1>3 DEF AttemptFailed, FaultsOK
<1> QED
  BY <1>3, <1>4, <1>5

LEMMA AttemptCompletedInv == ASSUME IInv, AttemptCompleted PROVE IInv'
<1> USE DEF IInv
<1>1. /\ state = "running" /\ HasRun /\ EndAttempt("completed") /\ outcome = "ok"
      /\ UNCHANGED <<batchSize, runVars, attempt, checkpoint, faults>>
  BY DEF AttemptCompleted, LifeOK, HasRun, TypeOK
<1>2. /\ TypeOK' /\ CheckpointOK' /\ RunOK' /\ state' = "completed" /\ pc' = "idle"
      /\ past'[Len(past')] = [rows |-> Run!Stored, metrics |-> metrics]
  BY <1>1, EndAttemptKeeps DEF TypeOK
<1>3. LifeOK' /\ FaultsOK'
  BY <1>1, <1>2 DEF LifeOK, FaultsOK, HasRun
<1>4. \E skip \in WholeBatches :
          Run!Stored = (skip + 1)..NumQuestions /\ metrics = (skip + 1)..NumQuestions
  BY <1>1 DEF RunOK
<1>5. CompletedRunIsSuffix'
  BY <1>1, <1>2, <1>4 DEF CompletedRunIsSuffix, WholeBatches
<1> QED
  BY <1>2, <1>3, <1>5

\* A fault that ends an attempt: the crash, or an error before there is a run.
LEMMA FaultEndsInv ==
    ASSUME IInv, pc # "idle", faults < MaxFaults, faults' = faults + 1,
           EndAttempt(Retried),
           UNCHANGED <<batchSize, runVars, attempt, checkpoint>>
    PROVE  IInv'
<1> USE DEF IInv
<1>1. /\ state = "running" /\ faults' \in 0..MaxFaults
      /\ Retried \in {"available", "discarded"}
      /\ Retried = "available" => attempt < MaxAttempts
      /\ Retried = "discarded" => attempt = MaxAttempts
  BY DEF LifeOK, Retried, TypeOK
<1>2. TypeOK' /\ CheckpointOK' /\ RunOK' /\ state' = Retried /\ pc' = "idle"
  BY <1>1, EndAttemptKeeps
<1>3. LifeOK' /\ CompletedRunIsSuffix'
  BY <1>1, <1>2 DEF LifeOK, CompletedRunIsSuffix, HasRun
<1>4. FaultsOK'
  BY <1>1, <1>2 DEF FaultsOK, TypeOK
<1> QED
  BY <1>2, <1>3, <1>4

-----------------------------------------------------------------------------
(* EvalWorker.Work *)

LEMMA CleanInv == ASSUME IInv, Clean PROVE IInv'
<1> USE DEF IInv
<1>1. /\ batchSize' = batchSize /\ todo' = todo /\ rows' = rows /\ saved' = saved
      /\ metrics' = metrics /\ outcome' = outcome /\ attempt' = attempt
      /\ checkpoint' = checkpoint /\ pc' = "create" /\ pc = "clean" /\ state' = state
      /\ faults' = faults /\ state = "running"
  BY DEF Clean, runVars, LifeOK, TypeOK
<1>2. /\ past' \in Seq(RunRecord) /\ Len(past') = Len(past)
      /\ checkpoint.run \in DOMAIN past' => past'[checkpoint.run].rows = {}
  <2>1. CASE HasCheckpoint
    <3>1. past' = [past EXCEPT ![checkpoint.run].rows = {}]
      BY <2>1 DEF Clean
    <3>2. checkpoint.run \in DOMAIN past
      BY <1>1, <2>1 DEF HasCheckpoint, CheckpointOK, HasRun, TypeOK
    <3>3. past \in [1..Len(past) -> RunRecord] /\ past[checkpoint.run] \in RunRecord
      BY <3>2 DEF TypeOK
    <3>4. [past[checkpoint.run] EXCEPT !.rows = {}] \in RunRecord
      BY <3>3 DEF RunRecord
    <3>5. past' \in [1..Len(past) -> RunRecord]
      BY <3>1, <3>3, <3>4
    <3>6. past' \in Seq(RunRecord) /\ Len(past') = Len(past)
      BY <3>5 DEF TypeOK
    <3>7. past'[checkpoint.run].rows = {}
      BY <3>1, <3>2, <3>3 DEF RunRecord
    <3> QED
      BY <3>6, <3>7
  <2>2. CASE ~HasCheckpoint
    <3>1. past' = past /\ checkpoint.run = 0
      BY <2>2 DEF Clean, HasCheckpoint, CheckpointOK, TypeOK
    <3> QED
      BY <3>1 DEF TypeOK
  <2> QED
    BY <2>1, <2>2
<1>3. TypeOK'
  BY <1>1, <1>2 DEF TypeOK, CurrentRun
<1>4. LifeOK' /\ RunOK' /\ FaultsOK' /\ CompletedRunIsSuffix'
  BY <1>1, <1>2 DEF LifeOK, RunOK, FaultsOK, CompletedRunIsSuffix, HasRun
<1>5. CheckpointOK'
  BY <1>1, <1>2 DEF CheckpointOK, HasRun, WholeBatches
<1> QED
  BY <1>3, <1>4, <1>5

LEMMA CreateRunInv == ASSUME IInv, CreateRun PROVE IInv'
<1> USE DEF IInv
<1>1. /\ batchSize' = batchSize /\ attempt' = attempt /\ past' = past
      /\ todo' = (checkpoint.processed + 1)..NumQuestions
      /\ rows' = [q \in Questions |-> 0]
      /\ saved' = {} /\ metrics' = {} /\ outcome' = "running"
      /\ checkpoint' = checkpoint /\ pc' = "evaluate" /\ pc = "create"
      /\ state' = state /\ faults' = faults /\ state = "running" /\ HasRun'
  BY DEF CreateRun, LifeOK, TypeOK, Questions, Skipped, HasRun
<1>2. Run!Stored' = {} /\ Cardinality(Run!Stored') = 0
  <2>1. \A q \in Questions : rows'[q] = 0
    BY <1>1
  <2>2. Run!Stored' = {}
    BY <2>1 DEF Run!Stored
  <2> QED
    BY <2>2, FS_EmptySet
<1>3. TypeOK'
  BY <1>1 DEF TypeOK, CurrentRun, Questions
<1>4. LifeOK' /\ FaultsOK' /\ CompletedRunIsSuffix'
  BY <1>1 DEF LifeOK, FaultsOK, CompletedRunIsSuffix, HasRun
<1>5. RunOK'
  <2>1. WholeBatches' = WholeBatches /\ 0 \in WholeBatches
    BY <1>1, NoBatch DEF TypeOK, WholeBatches
  <2>2. checkpoint.processed \in WholeBatches
    BY DEF CheckpointOK
  <2> QED
    BY <1>1, <1>2, <2>1, <2>2 DEF RunOK
<1>6. checkpoint.run <= Len(past) /\ checkpoint.run # CurrentRun
  BY <1>1 DEF CheckpointOK, HasRun, CurrentRun, TypeOK
<1>7. CheckpointOK'
  BY <1>1, <1>6 DEF CheckpointOK, CurrentRun, WholeBatches
<1> QED
  BY <1>3, <1>4, <1>5, <1>7

LEMMA StoreFullBatchInv == ASSUME IInv, StoreFullBatch PROVE IInv'
<1> USE DEF IInv
<1>1. PICK S \in SUBSET Remaining : Cardinality(S) = batchSize /\ Run!StoreBatch(S)
  BY DEF StoreFullBatch
<1>2. /\ batchSize' = batchSize /\ attempt' = attempt /\ past' = past /\ pc = "evaluate"
      /\ pc' = "checkpoint" /\ checkpoint' = checkpoint /\ state' = state
      /\ faults' = faults /\ HasRun /\ HasRun' /\ state = "running"
  BY DEF StoreFullBatch, HasRun, LifeOK, TypeOK
<1>3. /\ Run!Stored' = Run!Stored \cup S
      /\ Cardinality(Run!Stored') = Cardinality(Run!Stored) + batchSize
      /\ Cardinality(Run!Stored') \in 0..NumQuestions
      /\ rows' \in [Questions -> Nat]
      /\ todo' = todo /\ saved' = saved /\ metrics' = metrics /\ outcome' = outcome
  BY <1>1, StoredAfter
<1>4. S \subseteq todo /\ S # {}
  BY <1>1 DEF Remaining, Run!StoreBatch
<1>5. TypeOK'
  BY <1>2, <1>3 DEF TypeOK, CurrentRun
<1>6. LifeOK' /\ FaultsOK' /\ CompletedRunIsSuffix'
  BY <1>2, <1>3 DEF LifeOK, FaultsOK, CompletedRunIsSuffix, HasRun
<1>7. outcome = "running"
  BY <1>2 DEF LifeOK
<1>8. Cardinality(Run!Stored') \in WholeBatches
  BY <1>2, <1>3, OneMoreBatch DEF RunOK, TypeOK
<1>9. RunOK'
  BY <1>2, <1>3, <1>4, <1>7, <1>8 DEF RunOK, WholeBatches
<1>10. checkpoint.processed < NumQuestions
  <2>1. CASE checkpoint.run = CurrentRun
    <3>1. checkpoint.processed <= Cardinality(Run!Stored)
      BY <1>2, <2>1 DEF CheckpointOK
    <3>2. checkpoint.processed \in Nat /\ batchSize \in Nat \ {0}
      BY DEF TypeOK
    <3> QED
      BY <1>3, <3>1, <3>2, StoredType
  <2>2. CASE checkpoint.run # CurrentRun
    <3>1. todo = (checkpoint.processed + 1)..NumQuestions
      BY <1>2, <2>2 DEF CheckpointOK
    <3>2. PICK q \in S : q \in (checkpoint.processed + 1)..NumQuestions
      BY <1>4, <3>1
    <3>3. checkpoint.processed \in Nat
      BY DEF TypeOK
    <3> QED
      BY <3>2, <3>3
  <2> QED
    BY <2>1, <2>2
<1>11. CheckpointOK'
  <2>1. Cardinality(Run!Stored) <= Cardinality(Run!Stored')
    BY <1>3, StoredType DEF TypeOK
  <2>2. checkpoint.run = CurrentRun => checkpoint.processed <= Cardinality(Run!Stored')
    BY <1>2, <1>3, <2>1, StoredType DEF CheckpointOK, TypeOK
  <2>3. CurrentRun' = CurrentRun /\ WholeBatches' = WholeBatches
    BY <1>2 DEF CurrentRun, WholeBatches
  <2> QED
    BY <1>2, <1>3, <1>10, <2>2, <2>3 DEF CheckpointOK
<1> QED
  BY <1>5, <1>6, <1>9, <1>11

LEMMA SaveCheckpointInv == ASSUME IInv, SaveCheckpoint PROVE IInv'
<1> USE DEF IInv
<1>1. /\ batchSize' = batchSize /\ attempt' = attempt /\ past' = past /\ pc = "checkpoint"
      /\ pc' = "evaluate" /\ state' = state /\ faults' = faults /\ HasRun /\ HasRun'
      /\ todo' = todo /\ rows' = rows /\ metrics' = metrics /\ outcome' = outcome
      /\ saved' = Run!Stored /\ state = "running" /\ outcome = "running"
      /\ checkpoint' = [run |-> CurrentRun, processed |-> Cardinality(Run!Stored)]
  BY DEF SaveCheckpoint, Run!SaveCheckpoint, Processed, HasRun, LifeOK, TypeOK
<1>2. Run!Stored' = Run!Stored
  BY <1>1, StoredSame
<1>3. TypeOK'
  BY <1>1, StoredType DEF TypeOK, CurrentRun
<1>4. LifeOK' /\ CompletedRunIsSuffix'
  BY <1>1 DEF LifeOK, CompletedRunIsSuffix, HasRun
<1>5. RunOK'
  BY <1>1, <1>2 DEF RunOK, WholeBatches
<1>6. checkpoint'.run = CurrentRun' /\ checkpoint'.run \notin DOMAIN past' /\ checkpoint'.run > 0
  BY <1>1 DEF CurrentRun, TypeOK
<1>7. /\ checkpoint'.processed = Cardinality(Run!Stored)
      /\ Cardinality(Run!Stored) \in WholeBatches /\ Cardinality(Run!Stored) # 0
  BY <1>1, QuestionsFinite, StoredType DEF RunOK
<1>8. CheckpointOK'
  BY <1>1, <1>2, <1>6, <1>7, StoredType DEF CheckpointOK, WholeBatches
<1>9. checkpoint.processed # NumQuestions
  BY <1>1 DEF CheckpointOK, TypeOK
<1>10. FaultsOK'
  BY <1>1, <1>9 DEF FaultsOK
<1> QED
  BY <1>3, <1>4, <1>5, <1>8, <1>10

LEMMA CheckpointLostInv == ASSUME IInv, CheckpointLost PROVE IInv'
<1> USE DEF IInv
<1>1. /\ batchSize' = batchSize /\ attempt' = attempt /\ past' = past /\ pc = "checkpoint"
      /\ pc' = "evaluate" /\ state' = state /\ HasRun /\ HasRun'
      /\ todo' = todo /\ rows' = rows /\ metrics' = metrics /\ outcome' = outcome
      /\ saved' = saved /\ checkpoint' = checkpoint /\ faults' = faults + 1
      /\ faults' \in 0..MaxFaults /\ state = "running" /\ outcome = "running"
  BY DEF CheckpointLost, runVars, HasRun, LifeOK, TypeOK
<1>2. Run!Stored' = Run!Stored
  BY <1>1, StoredSame
<1>3. TypeOK' /\ FaultsOK'
  BY <1>1 DEF TypeOK, FaultsOK, CurrentRun
<1>4. LifeOK' /\ CompletedRunIsSuffix'
  BY <1>1 DEF LifeOK, CompletedRunIsSuffix, HasRun
<1>5. RunOK' /\ CheckpointOK'
  BY <1>1, <1>2 DEF RunOK, CheckpointOK, CurrentRun, WholeBatches
<1> QED
  BY <1>3, <1>4, <1>5

LEMMA FinalFlushInv == ASSUME IInv, FinalFlush PROVE IInv'
<1> USE DEF IInv
<1>1. /\ batchSize' = batchSize /\ attempt' = attempt /\ past' = past /\ pc = "evaluate"
      /\ pc' = "metrics" /\ state' = state /\ HasRun /\ HasRun' /\ faults' = faults
      /\ checkpoint' = checkpoint /\ state = "running" /\ outcome = "running"
  BY DEF FinalFlush, HasRun, LifeOK, TypeOK
<1>2. /\ Run!Stored' = todo /\ rows' \in [Questions -> Nat]
      /\ Cardinality(Run!Stored') >= Cardinality(Run!Stored)
      /\ todo' = todo /\ saved' = saved /\ metrics' = metrics /\ outcome' = outcome
  <2>1. CASE Remaining = {}
    <3>1. UNCHANGED runVars
      BY <2>1 DEF FinalFlush
    <3>2. Run!Stored' = Run!Stored
      BY <3>1, StoredSame DEF runVars
    <3>3. Run!Stored = todo
      BY <1>1, <2>1 DEF Remaining, RunOK
    <3> QED
      BY <3>1, <3>2, <3>3, StoredType DEF runVars, TypeOK
  <2>2. CASE Remaining # {}
    <3>1. Run!StoreBatch(Remaining) /\ Cardinality(Remaining) \in Nat
      BY <2>2, QuestionsFinite DEF FinalFlush, Remaining, TypeOK
    <3>2. Run!Stored \subseteq todo
      BY <1>1 DEF RunOK
    <3>3. Run!Stored \cup Remaining = todo
      BY <3>2 DEF Remaining
    <3>4. /\ Run!Stored' = Run!Stored \cup Remaining
          /\ Cardinality(Run!Stored') = Cardinality(Run!Stored) + Cardinality(Remaining)
          /\ rows' \in [Questions -> Nat]
          /\ UNCHANGED <<todo, saved, metrics, outcome>>
      BY <3>1, StoredAfter
    <3>5. Cardinality(Run!Stored') >= Cardinality(Run!Stored)
      BY <3>1, <3>4, StoredType
    <3> QED
      BY <3>3, <3>4, <3>5
  <2> QED
    BY <2>1, <2>2
<1>3. TypeOK' /\ FaultsOK'
  BY <1>1, <1>2 DEF TypeOK, FaultsOK, CurrentRun
<1>4. LifeOK' /\ CompletedRunIsSuffix'
  BY <1>1, <1>2 DEF LifeOK, CompletedRunIsSuffix, HasRun
<1>5. RunOK'
  BY <1>1, <1>2 DEF RunOK, WholeBatches
<1>6. CheckpointOK'
  <2>1. checkpoint.run = CurrentRun => checkpoint.processed <= Cardinality(Run!Stored)
    BY <1>1 DEF CheckpointOK
  <2>2. Cardinality(Run!Stored') \in Nat
    BY <1>2, QuestionsFinite DEF TypeOK
  <2>3. checkpoint.run = CurrentRun => checkpoint.processed <= Cardinality(Run!Stored')
    BY <1>2, <2>1, <2>2, StoredType DEF TypeOK
  <2>4. CurrentRun' = CurrentRun /\ WholeBatches' = WholeBatches
    BY <1>1 DEF CurrentRun, WholeBatches
  <2> QED
    BY <1>1, <1>2, <2>3, <2>4 DEF CheckpointOK
<1> QED
  BY <1>3, <1>4, <1>5, <1>6

LEMMA UpdateMetricsInv == ASSUME IInv, UpdateMetrics PROVE IInv'
<1> USE DEF IInv
<1>1. /\ batchSize' = batchSize /\ attempt' = attempt /\ past' = past /\ pc = "metrics"
      /\ pc' \in {"finish", "return"} /\ state' = state /\ HasRun /\ HasRun'
      /\ todo' = todo /\ rows' = rows /\ saved' = saved /\ faults' = faults
      /\ checkpoint' = checkpoint /\ state = "running" /\ outcome = "running"
      /\ metrics = {} /\ Run!Stored = todo /\ todo \subseteq Questions
  BY DEF UpdateMetrics, Run!WriteMetrics, Run!Fail, HasRun, LifeOK, TypeOK, RunOK
<1>2. \/ /\ Run!Stored # {} /\ pc' = "finish" /\ metrics' = todo /\ outcome' = "running"
      \/ /\ Run!Stored = {} /\ pc' = "return" /\ metrics' = {} /\ outcome' = "failed"
  BY <1>1 DEF UpdateMetrics, Run!WriteMetrics, Run!Fail
<1>3. Run!Stored' = Run!Stored
  BY <1>1, StoredSame
<1>4. TypeOK' /\ LifeOK' /\ CompletedRunIsSuffix'
  BY <1>1, <1>2 DEF TypeOK, CurrentRun, LifeOK, CompletedRunIsSuffix, HasRun
<1>5. RunOK' /\ CheckpointOK'
  BY <1>1, <1>2, <1>3 DEF RunOK, CheckpointOK, CurrentRun, WholeBatches
<1>6. pc' = "return" => checkpoint.processed = NumQuestions
  <2>1. ASSUME pc' = "return" PROVE checkpoint.processed = NumQuestions
    <3>1. Run!Stored = {} /\ todo = {} /\ Cardinality(Run!Stored) = 0
      BY <1>1, <1>2, <2>1, FS_EmptySet
    <3>2. CASE checkpoint.run = CurrentRun
      BY <1>1, <3>1, <3>2 DEF CheckpointOK, TypeOK, CurrentRun
    <3>3. CASE checkpoint.run # CurrentRun
      <4>1. (checkpoint.processed + 1)..NumQuestions = {}
        BY <1>1, <3>1, <3>3 DEF CheckpointOK
      <4>2. NumQuestions \notin (checkpoint.processed + 1)..NumQuestions
        BY <4>1
      <4> QED
        BY <4>2 DEF TypeOK
    <3> QED
      BY <3>2, <3>3
  <2> QED
    BY <2>1
<1>7. FaultsOK'
  BY <1>1, <1>2, <1>6 DEF FaultsOK
<1> QED
  BY <1>4, <1>5, <1>7

LEMMA FinishInv == ASSUME IInv, Finish PROVE IInv'
<1> USE DEF IInv
<1>1. /\ batchSize' = batchSize /\ attempt' = attempt /\ past' = past /\ pc = "finish"
      /\ pc' = "return" /\ state' = state /\ HasRun /\ HasRun'
      /\ todo' = todo /\ rows' = rows /\ saved' = saved /\ faults' = faults
      /\ checkpoint' = checkpoint /\ state = "running" /\ metrics' = metrics
      /\ outcome' = "ok"
  BY DEF Finish, Run!Succeed, HasRun, LifeOK, TypeOK
<1>2. Run!Stored' = Run!Stored
  BY <1>1, StoredSame
<1>3. TypeOK' /\ LifeOK' /\ FaultsOK' /\ CompletedRunIsSuffix'
  BY <1>1 DEF TypeOK, CurrentRun, LifeOK, FaultsOK, CompletedRunIsSuffix, HasRun
<1>4. RunOK' /\ CheckpointOK'
  BY <1>1, <1>2 DEF RunOK, CheckpointOK, CurrentRun, WholeBatches
<1> QED
  BY <1>3, <1>4

LEMMA WorkFailsInv == ASSUME IInv, WorkFails PROVE IInv'
<1> USE DEF IInv
<1>1. /\ batchSize' = batchSize /\ attempt' = attempt /\ past' = past
      /\ pc' = "return" /\ state' = state /\ HasRun /\ HasRun'
      /\ todo' = todo /\ rows' = rows /\ saved' = saved /\ faults' = faults + 1
      /\ checkpoint' = checkpoint /\ state = "running" /\ metrics' = metrics
      /\ outcome' = "failed" /\ faults' \in 0..MaxFaults
  BY DEF WorkFails, Run!Fail, HasRun, LifeOK, TypeOK
<1>2. Run!Stored' = Run!Stored
  BY <1>1, StoredSame
<1>3. TypeOK' /\ LifeOK' /\ CompletedRunIsSuffix'
  BY <1>1 DEF TypeOK, CurrentRun, LifeOK, CompletedRunIsSuffix, HasRun
<1>4. FaultsOK'
  BY <1>1 DEF FaultsOK, TypeOK
<1>5. RunOK' /\ CheckpointOK'
  BY <1>1, <1>2 DEF RunOK, CheckpointOK, CurrentRun, WholeBatches
<1> QED
  BY <1>3, <1>4, <1>5

-----------------------------------------------------------------------------
(* The theorems. *)

LEMMA NextInv == IInv /\ [Next]_vars => IInv'
<1> SUFFICES ASSUME IInv, [Next]_vars PROVE IInv'
  OBVIOUS
<1>1. CASE Fetch
  BY <1>1, FetchInv
<1>2. CASE AttemptFailed
  BY <1>2, AttemptFailedInv
<1>3. CASE AttemptCompleted
  BY <1>3, AttemptCompletedInv
<1>4. CASE Crash
  BY <1>4, FaultEndsInv DEF Crash
<1>5. CASE StartFails
  BY <1>5, FaultEndsInv DEF StartFails
<1>6. CASE Clean
  BY <1>6, CleanInv
<1>7. CASE CreateRun
  BY <1>7, CreateRunInv
<1>8. CASE StoreFullBatch
  BY <1>8, StoreFullBatchInv
<1>9. CASE SaveCheckpoint
  BY <1>9, SaveCheckpointInv
<1>10. CASE CheckpointLost
  BY <1>10, CheckpointLostInv
<1>11. CASE FinalFlush
  BY <1>11, FinalFlushInv
<1>12. CASE UpdateMetrics
  BY <1>12, UpdateMetricsInv
<1>13. CASE Finish
  BY <1>13, FinishInv
<1>14. CASE WorkFails
  BY <1>14, WorkFailsInv
<1>15. CASE UNCHANGED vars
  <2>1. /\ batchSize' = batchSize /\ todo' = todo /\ rows' = rows /\ saved' = saved
        /\ metrics' = metrics /\ outcome' = outcome /\ state' = state
        /\ attempt' = attempt /\ pc' = pc /\ past' = past
        /\ checkpoint' = checkpoint /\ faults' = faults
    BY <1>15 DEF vars, runVars
  <2>2. Run!Stored' = Run!Stored
    BY <2>1, StoredSame
  <2>3. TypeOK' /\ LifeOK' /\ FaultsOK' /\ CompletedRunIsSuffix'
    BY <2>1 DEF IInv, TypeOK, LifeOK, FaultsOK, CompletedRunIsSuffix, HasRun,
       CurrentRun, WholeBatches
  <2>4. RunOK' /\ CheckpointOK'
    BY <2>1, <2>2 DEF IInv, RunOK, CheckpointOK, HasRun, CurrentRun, WholeBatches
  <2> QED
    BY <2>3, <2>4 DEF IInv
<1> QED
  BY <1>1, <1>2, <1>3, <1>4, <1>5, <1>6, <1>7, <1>8, <1>9, <1>10, <1>11, <1>12,
     <1>13, <1>14, <1>15 DEF Next, Work, Over

\* The inductive invariant of the retries of a job holds in every state of
\* EvalWorker.Work and River, whatever the dataset, the batch and the faults.
THEOREM Invariance == Spec => []IInv
<1> QED
  BY InitInv, NextInv, PTL DEF Spec

\* A completed job's last run holds exactly the questions from one batch
\* boundary of the dataset on, and its metrics are over them: the checkpoint
\* of eval_worker.go never makes a retry skip part of a batch, nor a question
\* in the middle of the dataset.
THEOREM CompletedIsSuffix == Spec => []CompletedRunIsSuffix
<1>1. IInv => CompletedRunIsSuffix
  BY DEF IInv
<1> QED
  BY <1>1, Invariance, PTL

\* While an attempt works on its run, the run that the checkpoint names has no
\* rows left: DeleteRunResults came before the first new row, also when
\* attempts that saved no checkpoint lie between the two.
THEOREM CheckpointedIsCleaned == Spec => []CheckpointedRunIsCleaned
<1>1. IInv => CheckpointedRunIsCleaned
  BY DEF IInv, CheckpointOK, CheckpointedRunIsCleaned
<1> QED
  BY <1>1, Invariance, PTL

\* A job is given up only when each of its attempts met a fault, or when its
\* checkpoint counts the whole dataset, after which no attempt can succeed.
THEOREM DiscardExplained == Spec => []WhyDiscarded
<1>1. IInv => WhyDiscarded
  BY DEF IInv, TypeOK, LifeOK, FaultsOK, WhyDiscarded
<1> QED
  BY <1>1, Invariance, PTL

=============================================================================
