------------------------- MODULE PreprocessJobProofs -------------------------
(***************************************************************************)
(* For any number of preprocess jobs of one tag, files, upstream versions, *)
(* faults and deletions: what a completed job says of the directories.     *)
(***************************************************************************)
EXTENDS PreprocessJob, FiniteSetTheorems, FunctionTheorems, TLAPS

USE PreprocessAssumption, NoJobAssumption

-----------------------------------------------------------------------------
(* Types *)

LEMMA TreesTyped ==
    /\ Empty \in Trees
    /\ \A v \in Versions : Checkout(v) \in Trees
    /\ \A t, u \in Trees : Between(t, u) \subseteq Trees
    /\ Empty \in Outputs
BY DEF Empty, Checkout, Between, Trees, Outputs

LEMMA FailsTyped ==
    ASSUME TypeOK, NEW j \in Jobs, AttemptFails(j)
    PROVE  /\ state' \in [Jobs -> {"available", "running"} \cup Final]
           /\ pc' \in [Jobs -> {"idle", "stat", "clone", "cloning", "update", "saveClone",
                                "list", "process", "savePreprocess", "verify"}]
           /\ todo' \in [Jobs -> SUBSET Files]
           /\ held' \in [Jobs -> SUBSET (Files \X Versions)]
           /\ failed' \in [Jobs -> BOOLEAN]
<1>1. state' \in [Jobs -> {"available", "running"} \cup Final]
  BY DEF TypeOK, AttemptFails, Retried, Final
<1>2. /\ pc' \in [Jobs -> {"idle", "stat", "clone", "cloning", "update", "saveClone",
                           "list", "process", "savePreprocess", "verify"}]
      /\ todo' \in [Jobs -> SUBSET Files]
      /\ held' \in [Jobs -> SUBSET (Files \X Versions)]
      /\ failed' \in [Jobs -> BOOLEAN]
  BY DEF TypeOK, AttemptFails, Goto
<1> QED
  BY <1>1, <1>2

LEMMA FaultTyped ==
    ASSUME IInv, NEW j \in Jobs, state[j] = "running", Fault(j)
    PROVE  faulty' \in [Jobs -> SUBSET (1..MaxAttempts)]
<1>1. attempt[j] \in 1..MaxAttempts
  BY DEF IInv, CheckpointOK, TypeOK
<1> QED
  BY <1>1 DEF Fault, IInv, TypeOK

LEMMA DisturbedTyped == ASSUME NEW j, DisturbOthers(j) PROVE disturbed' \in [Jobs -> BOOLEAN]
<1>1. \A i \in Jobs : (\/ disturbed[i]
                       \/ i # j /\ attempt[i] > 0 /\ state[i] \notin Final) \in BOOLEAN
  OBVIOUS
<1> QED
  BY <1>1 DEF DisturbOthers

\* Texts on their way to the output may be cut short.
LEMMA CutShortTyped ==
    ASSUME TypeOK, NEW j \in Jobs, NEW texts, CutShort(j, texts)
    PROVE  /\ output' \in Outputs /\ disturbed' \in [Jobs -> BOOLEAN]
           /\ UNCHANGED <<output, disturbed>> \/ DisturbOthers(j)
           /\ texts = {} => UNCHANGED <<output, disturbed>>
<1>1. Cut \in Texts /\ output \in [Files -> Texts \union {0}]
  BY DEF Texts, TypeOK, Outputs
<1>2. PICK S \in SUBSET texts :
          output' = [f \in Files |-> IF \E text \in S : text[1] = f THEN Cut ELSE output[f]]
  BY DEF CutShort
<1>3. output' \in Outputs
  BY <1>1, <1>2 DEF Outputs
<1>4. texts = {} => output' = output
  BY <1>1, <1>2
<1>5. UNCHANGED disturbed \/ DisturbOthers(j)
  BY DEF CutShort
<1>6. disturbed' \in [Jobs -> BOOLEAN]
  BY <1>5, DisturbedTyped DEF TypeOK
<1> QED
  BY <1>3, <1>4, <1>6 DEF CutShort

-----------------------------------------------------------------------------
(* What a step of one job does to the others, and an attempt that fails.   *)

Untouched(k) ==
    /\ state'[k] = state[k] /\ attempt'[k] = attempt[k] /\ done'[k] = done[k]
    /\ pc'[k] = pc[k] /\ todo'[k] = todo[k] /\ held'[k] = held[k]
    /\ failed'[k] = failed[k]

JobOK(k) == CheckpointOK(k) /\ TextsOK(k)

\* Who changes the directories marks every other job that has begun.
LEMMA UntouchedJob ==
    ASSUME IInv, NEW j, NEW k \in Jobs, k # j, Untouched(k),
           \/ UNCHANGED <<tree, output, disturbed>>
           \/ DisturbOthers(j)
    PROVE  JobOK(k)'
<1>1. CheckpointOK(k) /\ TextsOK(k)
  BY DEF IInv
<1>2. CheckpointOK(k)'
  BY <1>1 DEF CheckpointOK, Untouched
<1>3. ASSUME UNCHANGED <<tree, output, disturbed>> PROVE TextsOK(k)'
  <2>1. tree' = tree /\ output' = output /\ disturbed' = disturbed
    BY <1>3
  <2>2. Listed(k)' = Listed(k)
    BY <2>1 DEF Listed, Present
  <2>3. /\ state'[k] = state[k] /\ done'[k] = done[k] /\ pc'[k] = pc[k]
        /\ todo'[k] = todo[k] /\ held'[k] = held[k] /\ failed'[k] = failed[k]
    BY DEF Untouched
  <2> QED
    BY <1>1, <2>1, <2>2, <2>3 DEF TextsOK
<1>4. ASSUME DisturbOthers(j) PROVE TextsOK(k)'
  <2>1. disturbed'[k] = (\/ disturbed[k]
                         \/ k # j /\ attempt[k] > 0 /\ state[k] \notin Final)
    BY <1>4 DEF DisturbOthers
  <2>2. CASE attempt[k] > 0
    <3>1. state'[k] = state[k] /\ (state[k] \notin Final => disturbed'[k])
      BY <2>1, <2>2 DEF Untouched
    <3>2. state'[k] \notin Final => disturbed'[k]
      BY <3>1
    <3> QED
      BY <3>2 DEF TextsOK
  <2>3. CASE ~(attempt[k] > 0)
    <3>1. held[k] = {} /\ pc[k] = "idle" /\ done[k] = {}
      BY <1>1, <2>3 DEF CheckpointOK, IInv, TypeOK
    <3>2. held'[k] = {} /\ pc'[k] = "idle" /\ done'[k] = {}
      BY <3>1 DEF Untouched
    <3> QED
      BY <3>2 DEF TextsOK
  <2> QED
    BY <2>2, <2>3
<1> QED
  BY <1>2, <1>3, <1>4 DEF JobOK

LEMMA FailedJob ==
    ASSUME IInv, NEW j \in Jobs, state[j] = "running", AttemptFails(j),
           attempt' = attempt,
           \/ UNCHANGED <<tree, output, disturbed>>
           \/ DisturbOthers(j) /\ pc[j] \in CloneSteps \union {"process"},
           \/ done' = done
           \/ /\ pc[j] \in {"saveClone", "savePreprocess"}
              /\ UNCHANGED <<tree, output, disturbed>>
              /\ done' = [done EXCEPT ![j] = @ \union {SavedStep(j)}]
    PROVE  \A k \in Jobs : JobOK(k)'
<1>1. ASSUME NEW k \in Jobs, k # j PROVE JobOK(k)'
  <2>1. Untouched(k)
    BY <1>1 DEF Untouched, AttemptFails, Goto, IInv, TypeOK
  <2> QED
    BY <1>1, <2>1, UntouchedJob
<1>2. /\ state'[j] \in {"available", "discarded"} /\ pc'[j] = "idle" /\ held'[j] = {}
      /\ state'[j] = "available" => attempt[j] < MaxAttempts
      /\ CheckpointOK(j) /\ TextsOK(j) /\ attempt[j] > 0
  BY DEF AttemptFails, Goto, Retried, IInv, TypeOK, CheckpointOK
<1>3. /\ "clone_done" \in done[j] => "clone_done" \in done'[j]
      /\ "preprocess_done" \in done'[j] =>
             "preprocess_done" \in done[j] \/ pc[j] = "savePreprocess"
  BY DEF SavedStep, IInv, TypeOK
<1>4. CheckpointOK(j)'
  BY <1>2, <1>3 DEF CheckpointOK, CloneSteps
<1>5. TextsOK(j)'
  <2>1. SUFFICES ASSUME ~disturbed'[j], "preprocess_done" \in done'[j],
                        NEW f \in Listed(j)'
                 PROVE  output'[f] = tree'[f]
    BY <1>2 DEF TextsOK
  <2>2. "preprocess_done" \in done[j] \/ pc[j] = "savePreprocess"
    BY <1>3, <2>1
  <2>3. pc[j] \notin CloneSteps \union {"process"}
    BY <1>2, <2>2 DEF CheckpointOK, CloneSteps
  <2>4. UNCHANGED <<tree, output, disturbed>>
    BY <2>3
  <2>5. f \in Listed(j)
    BY <2>1, <2>4 DEF Listed, Present
  <2> QED
    BY <1>2, <2>1, <2>2, <2>4, <2>5 DEF TextsOK, Final
<1> QED
  BY <1>1, <1>4, <1>5 DEF JobOK

-----------------------------------------------------------------------------
(* The steps of Work *)

\* What a step of job j has to keep: its own part, and those of the others.
LEMMA StepOfOne ==
    ASSUME IInv, NEW j \in Jobs, TypeOK', JobOK(j)',
           \A k \in Jobs : k # j => Untouched(k),
           \/ UNCHANGED <<tree, output, disturbed>>
           \/ DisturbOthers(j)
    PROVE  IInv'
<1>1. ASSUME NEW k \in Jobs PROVE JobOK(k)'
  <2>1. CASE k = j
    BY <2>1
  <2>2. CASE k # j
    BY <2>2, UntouchedJob
  <2> QED
    BY <2>1, <2>2
<1>2. ASSUME NEW k \in Jobs PROVE CheckpointOK(k)' /\ TextsOK(k)'
  BY <1>1 DEF JobOK
<1> QED
  BY <1>2 DEF IInv

\* The steps of cloneRepo that go on to the next.
LEMMA CloneGoesOn ==
    ASSUME IInv, NEW j \in Jobs, pc[j] \in CloneSteps, NEW l \in CloneSteps, Goto(j, l),
           UNCHANGED <<state, attempt, done, fileVars>>
    PROVE  JobOK(j)' /\ \A k \in Jobs : k # j => Untouched(k)
<1>1. CheckpointOK(j) /\ pc'[j] = l
  BY DEF IInv, TypeOK, Goto
<1>2. /\ state' = state /\ attempt' = attempt /\ done' = done
      /\ todo' = todo /\ held' = held /\ failed' = failed
  BY DEF fileVars
<1>3. \A k \in Jobs : k # j => Untouched(k)
  BY <1>2 DEF Untouched, Goto, IInv, TypeOK
<1>4. CheckpointOK(j)' /\ held[j] = {} /\ "preprocess_done" \notin done[j]
  BY <1>1, <1>2 DEF CheckpointOK, CloneSteps
<1>5. TextsOK(j)'
  BY <1>1, <1>2, <1>4 DEF TextsOK, CloneSteps
<1> QED
  BY <1>3, <1>4, <1>5 DEF JobOK

\* A step of cloneRepo that goes on, once its types are checked.
LEMMA CloneStep ==
    ASSUME IInv, NEW j \in Jobs, pc[j] \in CloneSteps, NEW l \in CloneSteps, Goto(j, l),
           UNCHANGED <<state, attempt, done, fileVars>>, TypeOK',
           UNCHANGED <<tree, output, disturbed>> \/ DisturbOthers(j)
    PROVE  IInv'
BY CloneGoesOn, StepOfOne

\* An attempt that fails, once its types are checked.
LEMMA FailingStep ==
    ASSUME IInv, NEW j \in Jobs, state[j] = "running", AttemptFails(j),
           attempt' = attempt, TypeOK',
           \/ UNCHANGED <<tree, output, disturbed>>
           \/ DisturbOthers(j) /\ pc[j] \in CloneSteps \union {"process"},
           \/ done' = done
           \/ /\ pc[j] \in {"saveClone", "savePreprocess"}
              /\ UNCHANGED <<tree, output, disturbed>>
              /\ done' = [done EXCEPT ![j] = @ \union {SavedStep(j)}]
    PROVE  IInv'
<1>1. \A k \in Jobs : JobOK(k)'
  BY FailedJob
<1>2. \A k \in Jobs : (CheckpointOK(k) /\ TextsOK(k))'
  BY <1>1 DEF JobOK
<1> QED
  BY <1>2 DEF IInv

LEMMA BeginInv == ASSUME IInv, NEW j \in Jobs, Begin(j) PROVE IInv'
<1>1. TypeOK'
  BY DEF Begin, FirstStep, Goto, dirVars, fileVars, IInv, TypeOK, CheckpointOK
<1>2. /\ state'[j] = "running" /\ pc'[j] = FirstStep(j) /\ attempt'[j] = attempt[j] + 1
      /\ state[j] = "available" /\ attempt[j] \in Nat
      /\ CheckpointOK(j) /\ TextsOK(j)
  BY DEF Begin, Goto, IInv, TypeOK
<1>3. /\ done' = done /\ todo' = todo /\ held' = held /\ failed' = failed
      /\ tree' = tree /\ output' = output /\ disturbed' = disturbed
  BY DEF Begin, dirVars, fileVars
<1>4. held[j] = {}
  BY <1>2 DEF CheckpointOK
<1>5. CheckpointOK(j)'
  BY <1>2, <1>3, <1>4 DEF CheckpointOK, FirstStep, CloneSteps
<1>6. Listed(j)' = Listed(j)
  BY <1>3 DEF Listed, Present
<1>7. TextsOK(j)'
  BY <1>2, <1>3, <1>4, <1>6 DEF TextsOK, FirstStep, Final
<1>8. \A k \in Jobs : k # j => Untouched(k)
  BY <1>3 DEF Untouched, Begin, Goto, IInv, TypeOK
<1> QED
  BY <1>1, <1>3, <1>5, <1>7, <1>8, StepOfOne DEF JobOK

LEMMA StatInv == ASSUME IInv, NEW j \in Jobs, Stat(j) PROVE IInv'
<1>1. TypeOK'
  BY DEF Stat, Goto, dirVars, fileVars, IInv, TypeOK
<1>2. Goto(j, "clone") \/ Goto(j, "update")
  BY DEF Stat
<1>3. /\ pc[j] \in CloneSteps /\ UNCHANGED <<state, attempt, done, fileVars>>
      /\ UNCHANGED <<tree, output, disturbed>>
  BY DEF Stat, CloneSteps, dirVars
<1>4. "clone" \in CloneSteps /\ "update" \in CloneSteps
  BY DEF CloneSteps
<1> QED
  BY <1>1, <1>2, <1>3, <1>4, CloneStep

LEMMA StartCloneInv == ASSUME IInv, NEW j \in Jobs, StartClone(j) PROVE IInv'
<1>1. TypeOK'
  BY DisturbedTyped DEF StartClone, Goto, fileVars, IInv, TypeOK
<1>2. /\ Goto(j, "cloning") /\ pc[j] \in CloneSteps /\ "cloning" \in CloneSteps
      /\ UNCHANGED <<state, attempt, done, fileVars>> /\ DisturbOthers(j)
  BY DEF StartClone, CloneSteps
<1> QED
  BY <1>1, <1>2, CloneStep

LEMMA FinishCloneInv == ASSUME IInv, NEW j \in Jobs, FinishClone(j) PROVE IInv'
<1>1. Checkout(upstream) \in Trees
  BY TreesTyped DEF IInv, TypeOK
<1>2. TypeOK'
  BY <1>1, DisturbedTyped DEF FinishClone, Goto, fileVars, IInv, TypeOK
<1>3. /\ Goto(j, "saveClone") /\ pc[j] \in CloneSteps /\ "saveClone" \in CloneSteps
      /\ UNCHANGED <<state, attempt, done, fileVars>> /\ DisturbOthers(j)
  BY DEF FinishClone, CloneSteps
<1> QED
  BY <1>2, <1>3, CloneStep

LEMMA UpdateInv == ASSUME IInv, NEW j \in Jobs, Update(j) PROVE IInv'
<1>1. Checkout(upstream) \in Trees
  BY TreesTyped DEF IInv, TypeOK
<1>2. TypeOK'
  BY <1>1, DisturbedTyped DEF Update, Goto, fileVars, IInv, TypeOK
<1>3. /\ Goto(j, "saveClone") /\ pc[j] \in CloneSteps /\ "saveClone" \in CloneSteps
      /\ UNCHANGED <<state, attempt, done, fileVars>> /\ DisturbOthers(j)
  BY DEF Update, CloneSteps
<1> QED
  BY <1>2, <1>3, CloneStep

\* git refuses, since another job or a deletion was there first.
LEMMA RefusedInv ==
    ASSUME IInv, NEW j \in Jobs, CloneRefused(j) \/ UpdateRefused(j) PROVE IInv'
<1>1. /\ pc[j] # "idle" /\ AttemptFails(j)
      /\ UNCHANGED <<upstream, dirVars, deletes, attempt, done, faulty, disturbed>>
  BY DEF CloneRefused, UpdateRefused
<1>2. state[j] = "running"
  BY <1>1 DEF IInv, CheckpointOK
<1>3. TypeOK'
  BY <1>1, FailsTyped DEF dirVars, IInv, TypeOK
<1> QED
  BY <1>1, <1>2, <1>3, FailingStep DEF dirVars

LEMMA GitFailsInv == ASSUME IInv, NEW j \in Jobs, GitFails(j) PROVE IInv'
<1>1. state[j] = "running" /\ AttemptFails(j) /\ Fault(j) /\ pc[j] \in CloneSteps
  BY DEF GitFails, IInv, CheckpointOK, CloneSteps
<1>2. /\ upstream' = upstream /\ tree' = tree /\ output' = output /\ deletes' = deletes
      /\ attempt' = attempt /\ done' = done
  BY DEF GitFails
<1>3. \/ repo' = repo /\ cloner' = cloner /\ disturbed' = disturbed
      \/ repo' = "none" /\ cloner' = NoJob /\ DisturbOthers(j)
  BY DEF GitFails
<1>4. TypeOK'
  BY <1>1, <1>2, <1>3, FailsTyped, FaultTyped, DisturbedTyped DEF IInv, TypeOK
<1> QED
  BY <1>1, <1>2, <1>3, <1>4, FailingStep

LEMMA GitKilledInv == ASSUME IInv, NEW j \in Jobs, GitKilled(j) PROVE IInv'
<1>1. /\ state[j] = "running" /\ AttemptFails(j) /\ Fault(j) /\ pc[j] \in CloneSteps
      /\ DisturbOthers(j)
  BY DEF GitKilled, IInv, CheckpointOK, CloneSteps
<1>2. /\ upstream' = upstream /\ output' = output /\ deletes' = deletes
      /\ attempt' = attempt /\ done' = done /\ cloner' = NoJob
  BY DEF GitKilled
<1>3. repo' \in {"none", "ok", "broken"} /\ tree' \in Trees
  BY TreesTyped DEF GitKilled, IInv, TypeOK
<1>4. TypeOK'
  BY <1>1, <1>2, <1>3, FailsTyped, FaultTyped, DisturbedTyped DEF IInv, TypeOK
<1> QED
  BY <1>1, <1>2, <1>4, FailingStep

LEMMA SaveCheckpointInv == ASSUME IInv, NEW j \in Jobs, SaveCheckpoint(j) PROVE IInv'
<1>1. TypeOK'
  BY DEF SaveCheckpoint, SavedStep, NextStep, Steps, Goto, dirVars, fileVars, IInv, TypeOK
<1>2. /\ state' = state /\ attempt' = attempt /\ todo' = todo /\ held' = held
      /\ failed' = failed /\ tree' = tree /\ output' = output /\ disturbed' = disturbed
      /\ CheckpointOK(j) /\ TextsOK(j)
  BY DEF SaveCheckpoint, dirVars, fileVars, IInv
<1>3. \/ /\ pc[j] = "saveClone" /\ pc'[j] = "list"
         /\ done'[j] = done[j] \cup {"clone_done"}
      \/ /\ pc[j] = "savePreprocess" /\ pc'[j] = "verify"
         /\ done'[j] = done[j] \cup {"preprocess_done"}
  BY DEF SaveCheckpoint, SavedStep, NextStep, Goto, IInv, TypeOK
<1>4. CheckpointOK(j)'
  BY <1>2, <1>3 DEF CheckpointOK, CloneSteps
<1>5. Listed(j)' = Listed(j)
  BY <1>2 DEF Listed, Present
<1>6. held[j] = {} /\ pc'[j] \notin {"process", "savePreprocess"}
  BY <1>2, <1>3 DEF CheckpointOK
<1>7. "preprocess_done" \in done'[j] => "preprocess_done" \in done[j] \/ pc[j] = "savePreprocess"
  BY <1>3
<1>8. TextsOK(j)'
  BY <1>2, <1>5, <1>6, <1>7 DEF TextsOK
<1>9. \A k \in Jobs : k # j => Untouched(k)
  BY <1>2 DEF Untouched, SaveCheckpoint, Goto, IInv, TypeOK
<1> QED
  BY <1>1, <1>2, <1>4, <1>8, <1>9, StepOfOne DEF JobOK

LEMMA SaveFailsInv == ASSUME IInv, NEW j \in Jobs, SaveFails(j) PROVE IInv'
<1>1. /\ state[j] = "running" /\ AttemptFails(j) /\ Fault(j)
      /\ pc[j] \in {"saveClone", "savePreprocess"}
      /\ done' \in {done, [done EXCEPT ![j] = @ \union {SavedStep(j)}]}
      /\ UNCHANGED <<upstream, dirVars, deletes, attempt, disturbed>>
  BY DEF SaveFails, IInv, CheckpointOK
<1>2. done' \in [Jobs -> SUBSET Steps]
  <2>1. SavedStep(j) \in Steps /\ done \in [Jobs -> SUBSET Steps]
    BY DEF SavedStep, Steps, IInv, TypeOK
  <2> QED
    BY <1>1, <2>1
<1>3. TypeOK'
  BY <1>1, <1>2, FailsTyped, FaultTyped DEF dirVars, IInv, TypeOK
<1> QED
  BY <1>1, <1>3, FailingStep DEF dirVars

-----------------------------------------------------------------------------
(* ProcessAllFiles and verifyOutput *)

LEMMA ListedFiles == ASSUME TypeOK, NEW j \in Jobs PROVE Listed(j) \subseteq Files
BY DEF Listed, Present

LEMMA ListFilesInv == ASSUME IInv, NEW j \in Jobs, ListFiles(j) PROVE IInv'
<1>1. TypeOK'
  BY ListedFiles DEF ListFiles, Goto, dirVars, IInv, TypeOK
<1>2. /\ state' = state /\ attempt' = attempt /\ done' = done /\ held' = held
      /\ failed' = failed /\ tree' = tree /\ output' = output /\ disturbed' = disturbed
      /\ CheckpointOK(j) /\ TextsOK(j)
  BY DEF ListFiles, dirVars, IInv
<1>3. pc[j] = "list" /\ pc'[j] = "process" /\ todo'[j] = Listed(j)
  BY DEF ListFiles, Goto, IInv, TypeOK
<1>4. held[j] = {} /\ CheckpointOK(j)'
  BY <1>2, <1>3 DEF CheckpointOK, CloneSteps
<1>5. Listed(j)' = Listed(j)
  BY <1>2 DEF Listed, Present
<1>6. TextsOK(j)'
  BY <1>2, <1>3, <1>4, <1>5 DEF TextsOK
<1>7. \A k \in Jobs : k # j => Untouched(k)
  BY <1>2 DEF Untouched, ListFiles, Goto, IInv, TypeOK
<1> QED
  BY <1>1, <1>2, <1>4, <1>6, <1>7, StepOfOne DEF JobOK

LEMMA ReadFileInv == ASSUME IInv, NEW j \in Jobs, ReadFile(j) PROVE IInv'
<1>1. PICK f \in todo[j] :
          /\ todo' = [todo EXCEPT ![j] = @ \ {f}]
          /\ IF tree[f] = 0
             THEN failed' = [failed EXCEPT ![j] = TRUE] /\ UNCHANGED held
             ELSE held' = [held EXCEPT ![j] = @ \union {<<f, tree[f]>>}] /\ UNCHANGED failed
  BY DEF ReadFile
<1>2. /\ upstream' = upstream /\ repo' = repo /\ cloner' = cloner /\ tree' = tree
      /\ output' = output /\ deletes' = deletes /\ state' = state /\ attempt' = attempt
      /\ done' = done /\ pc' = pc /\ faulty' = faulty /\ disturbed' = disturbed
      /\ pc[j] = "process" /\ CheckpointOK(j) /\ TextsOK(j)
  BY DEF ReadFile, dirVars, IInv
<1>3. f \in Files /\ tree[f] \in Versions \cup {0}
  BY DEF IInv, TypeOK, Trees
<1>4. TypeOK'
  <2>1. todo' \in [Jobs -> SUBSET Files]
    BY <1>1 DEF IInv, TypeOK
  <2>2. held' \in [Jobs -> SUBSET (Files \X Versions)] /\ failed' \in [Jobs -> BOOLEAN]
    <3>1. CASE tree[f] = 0
      BY <1>1, <3>1 DEF IInv, TypeOK
    <3>2. CASE tree[f] # 0
      <4>1. <<f, tree[f]>> \in Files \X Versions
        BY <1>3, <3>2
      <4>2. held' = [held EXCEPT ![j] = @ \union {<<f, tree[f]>>}] /\ failed' = failed
        BY <1>1, <3>2
      <4> QED
        BY <4>1, <4>2 DEF IInv, TypeOK
    <3> QED
      BY <3>1, <3>2
  <2> QED
    BY <1>2, <2>1, <2>2 DEF IInv, TypeOK
<1>5. CheckpointOK(j)'
  BY <1>2 DEF CheckpointOK
<1>6. /\ todo'[j] = todo[j] \ {f}
      /\ \/ failed'[j] /\ held'[j] = held[j]
         \/ failed'[j] = failed[j] /\ held'[j] = held[j] \cup {<<f, tree[f]>>}
  BY <1>1 DEF IInv, TypeOK
<1>7. Listed(j)' = Listed(j)
  BY <1>2 DEF Listed, Present
<1>8. TextsOK(j)'
  BY <1>2, <1>6, <1>7 DEF TextsOK
<1>9. \A k \in Jobs : k # j => Untouched(k)
  BY <1>1, <1>2 DEF Untouched, IInv, TypeOK
<1> QED
  BY <1>2, <1>4, <1>5, <1>8, <1>9, StepOfOne DEF JobOK

LEMMA WriteFileInv == ASSUME IInv, NEW j \in Jobs, WriteFile(j) PROVE IInv'
<1>1. PICK text \in held[j] :
          /\ held' = [held EXCEPT ![j] = @ \ {text}]
          /\ output' = [output EXCEPT ![text[1]] = text[2]]
  BY DEF WriteFile
<1>2. /\ upstream' = upstream /\ repo' = repo /\ cloner' = cloner /\ tree' = tree
      /\ deletes' = deletes /\ state' = state /\ attempt' = attempt
      /\ done' = done /\ pc' = pc /\ faulty' = faulty /\ todo' = todo /\ failed' = failed
      /\ pc[j] = "process" /\ CheckpointOK(j) /\ TextsOK(j) /\ DisturbOthers(j)
  BY DEF WriteFile, IInv
<1>3. text \in Files \X Versions /\ text = <<text[1], text[2]>>
  BY DEF IInv, TypeOK
<1>4. TypeOK'
  <2>1. output' \in Outputs
    BY <1>1, <1>3 DEF IInv, TypeOK, Outputs, Texts
  <2>2. held' \in [Jobs -> SUBSET (Files \X Versions)]
    BY <1>1 DEF IInv, TypeOK
  <2> QED
    BY <1>2, <2>1, <2>2, DisturbedTyped DEF IInv, TypeOK
<1>5. CheckpointOK(j)'
  BY <1>2 DEF CheckpointOK
<1>6. Listed(j)' = Listed(j) /\ Listed(j) \subseteq Files
  BY <1>2 DEF Listed, Present
<1>7. held'[j] = held[j] \ {text}
  BY <1>1 DEF IInv, TypeOK
<1>8. TextsOK(j)'
  <2>1. SUFFICES ASSUME state[j] \notin Final, ~disturbed'[j]
                 PROVE  TextsOK(j)'
    BY <1>2 DEF TextsOK
  <2>2. ~disturbed[j]
    BY <1>2, <2>1 DEF DisturbOthers
  <2>3. /\ \A t \in held[j] : t[2] = tree[t[1]]
        /\ ~failed[j] => \A f \in Listed(j) :
               f \in todo[j] \/ <<f, tree[f]>> \in held[j] \/ output[f] = tree[f]
        /\ "preprocess_done" \in done[j] => \A f \in Listed(j) : output[f] = tree[f]
    BY <1>2, <2>1, <2>2 DEF TextsOK
  <2>4. \A f \in Files : output'[f] = IF f = text[1] THEN tree[f] ELSE output[f]
    BY <1>1, <1>3, <2>3 DEF IInv, TypeOK, Outputs
  <2>5. ASSUME NEW f \in Listed(j), f \in todo[j] \/ <<f, tree[f]>> \in held[j] \/ output[f] = tree[f]
        PROVE  f \in todo'[j] \/ <<f, tree[f]>> \in held'[j] \/ output'[f] = tree[f]
    BY <1>2, <1>3, <1>6, <1>7, <2>4, <2>5
  <2>6. \A t \in held'[j] : t[2] = tree'[t[1]]
    BY <1>2, <1>7, <2>3
  <2>7. ~failed[j] => \A f \in Listed(j) :
            f \in todo'[j] \/ <<f, tree'[f]>> \in held'[j] \/ output'[f] = tree'[f]
    BY <1>2, <2>3, <2>5
  <2>8. "preprocess_done" \in done[j] => \A f \in Listed(j) : output'[f] = tree'[f]
    BY <1>2, <1>6, <2>3, <2>4
  <2> QED
    BY <1>2, <1>6, <2>6, <2>7, <2>8 DEF TextsOK
<1>9. \A k \in Jobs : k # j => Untouched(k)
  BY <1>1, <1>2 DEF Untouched, IInv, TypeOK
<1> QED
  BY <1>2, <1>4, <1>5, <1>8, <1>9, StepOfOne DEF JobOK

LEMMA FileFailsInv == ASSUME IInv, NEW j \in Jobs, FileFails(j) PROVE IInv'
<1>1. PICK text \in held[j] : held' = [held EXCEPT ![j] = @ \ {text}] /\ CutShort(j, {text})
  BY DEF FileFails
<1>2. /\ upstream' = upstream /\ repo' = repo /\ cloner' = cloner /\ tree' = tree
      /\ deletes' = deletes /\ state' = state /\ attempt' = attempt
      /\ done' = done /\ pc' = pc /\ todo' = todo
      /\ failed' = [failed EXCEPT ![j] = TRUE] /\ Fault(j)
      /\ pc[j] = "process" /\ CheckpointOK(j) /\ TextsOK(j) /\ state[j] = "running"
  BY DEF FileFails, IInv, CheckpointOK
<1>3. /\ output' \in Outputs /\ disturbed' \in [Jobs -> BOOLEAN]
      /\ UNCHANGED <<output, disturbed>> \/ DisturbOthers(j)
  BY <1>1, CutShortTyped DEF IInv
<1>4. TypeOK'
  <2>1. held' \in [Jobs -> SUBSET (Files \X Versions)] /\ failed' \in [Jobs -> BOOLEAN]
    BY <1>1, <1>2 DEF IInv, TypeOK
  <2> QED
    BY <1>2, <1>3, <2>1, FaultTyped DEF IInv, TypeOK
<1>5. CheckpointOK(j)'
  BY <1>2 DEF CheckpointOK
<1>6. failed'[j] /\ held'[j] \subseteq held[j] /\ Listed(j)' = Listed(j)
  BY <1>1, <1>2 DEF IInv, TypeOK, Listed, Present
<1>7. "preprocess_done" \notin done'[j] /\ (~disturbed'[j] => ~disturbed[j])
  BY <1>2, <1>3 DEF CheckpointOK, DisturbOthers, IInv, TypeOK
<1>8. TextsOK(j)'
  BY <1>2, <1>6, <1>7 DEF TextsOK
<1>9. \A k \in Jobs : k # j => Untouched(k)
  BY <1>1, <1>2 DEF Untouched, IInv, TypeOK
<1> QED
  BY <1>2, <1>4, <1>5, <1>8, <1>9, <1>3, StepOfOne DEF JobOK

LEMMA FilesDoneInv == ASSUME IInv, NEW j \in Jobs, FilesDone(j) PROVE IInv'
<1>1. /\ upstream' = upstream /\ repo' = repo /\ cloner' = cloner /\ tree' = tree
      /\ output' = output /\ deletes' = deletes /\ attempt' = attempt
      /\ done' = done /\ faulty' = faulty /\ disturbed' = disturbed
      /\ pc[j] = "process" /\ todo[j] = {} /\ held[j] = {}
      /\ CheckpointOK(j) /\ TextsOK(j) /\ state[j] = "running"
  BY DEF FilesDone, dirVars, IInv, CheckpointOK
<1>2. CASE failed[j]
  <2>1. AttemptFails(j)
    BY <1>2 DEF FilesDone, NoFailure
  <2>2. TypeOK'
    BY <1>1, <2>1, FailsTyped DEF IInv, TypeOK
  <2> QED
    BY <1>1, <2>1, <2>2, FailingStep
<1>3. CASE ~failed[j]
  <2>1. /\ Goto(j, "savePreprocess") /\ state' = state /\ todo' = todo
        /\ held' = held /\ failed' = failed
    BY <1>3 DEF FilesDone, NoFailure, fileVars
  <2>2. TypeOK' /\ pc'[j] = "savePreprocess"
    BY <1>1, <2>1 DEF Goto, IInv, TypeOK
  <2>3. CheckpointOK(j)' /\ Listed(j)' = Listed(j)
    BY <1>1, <2>1, <2>2 DEF CheckpointOK, CloneSteps, Listed, Present
  <2>4. TextsOK(j)'
    BY <1>1, <1>3, <2>1, <2>2, <2>3 DEF TextsOK
  <2>5. \A k \in Jobs : k # j => Untouched(k)
    BY <1>1, <2>1 DEF Untouched, Goto, IInv, TypeOK
  <2> QED
    BY <1>1, <2>2, <2>3, <2>4, <2>5, StepOfOne DEF JobOK
<1> QED
  BY <1>2, <1>3

LEMMA VerifyInv == ASSUME IInv, NEW j \in Jobs, Verify(j) PROVE IInv'
<1>1. /\ upstream' = upstream /\ repo' = repo /\ cloner' = cloner /\ tree' = tree
      /\ output' = output /\ deletes' = deletes /\ attempt' = attempt
      /\ done' = done /\ faulty' = faulty /\ disturbed' = disturbed
      /\ pc[j] = "verify" /\ CheckpointOK(j) /\ state[j] = "running"
  BY DEF Verify, dirVars, IInv, CheckpointOK
<1>2. CASE ~Passed(j)
  <2>1. AttemptFails(j)
    BY <1>2 DEF Verify
  <2>2. TypeOK'
    BY <1>1, <2>1, FailsTyped DEF IInv, TypeOK
  <2> QED
    BY <1>1, <2>1, <2>2, FailingStep
<1>3. CASE Passed(j)
  <2>1. /\ state' = [state EXCEPT ![j] = "completed"] /\ Goto(j, "idle")
        /\ todo' = todo /\ held' = held /\ failed' = failed
    BY <1>3 DEF Verify, fileVars
  <2>2. TypeOK' /\ pc'[j] = "idle" /\ state'[j] = "completed"
    BY <1>1, <2>1 DEF Goto, Final, IInv, TypeOK
  <2>3. CheckpointOK(j)' /\ TextsOK(j)'
    BY <1>1, <2>1, <2>2 DEF CheckpointOK, TextsOK, CloneSteps, Final
  <2>4. \A k \in Jobs : k # j => Untouched(k)
    BY <1>1, <2>1 DEF Untouched, Goto, IInv, TypeOK
  <2> QED
    BY <1>1, <2>2, <2>3, <2>4, StepOfOne DEF JobOK
<1> QED
  BY <1>2, <1>3

LEMMA CrashInv == ASSUME IInv, NEW j \in Jobs, Crash(j) PROVE IInv'
<1>1. /\ state[j] = "running" /\ AttemptFails(j) /\ Fault(j) /\ CutShort(j, held[j])
      /\ UNCHANGED <<upstream, repo, cloner, tree, deletes, attempt, done>>
  BY DEF Crash, Active
<1>2. /\ output' \in Outputs /\ disturbed' \in [Jobs -> BOOLEAN]
      /\ UNCHANGED <<output, disturbed>> \/ DisturbOthers(j)
      /\ held[j] = {} => UNCHANGED <<output, disturbed>>
  BY <1>1, CutShortTyped DEF IInv
<1>3. TypeOK'
  BY <1>1, <1>2, FailsTyped, FaultTyped DEF IInv, TypeOK
<1>4. held[j] # {} => pc[j] = "process"
  BY DEF IInv, CheckpointOK
<1> QED
  BY <1>1, <1>2, <1>3, <1>4, FailingStep

-----------------------------------------------------------------------------
(* The environment, and the theorems *)

LEMMA InitInv == Init => IInv
<1> SUFFICES ASSUME Init PROVE IInv
  OBVIOUS
<1>1. TypeOK
  BY TreesTyped DEF Init, TypeOK, Versions, Final
<1>2. ASSUME NEW j \in Jobs PROVE CheckpointOK(j) /\ TextsOK(j)
  <2>1. /\ state[j] = "available" /\ attempt[j] = 0 /\ done[j] = {} /\ pc[j] = "idle"
        /\ held[j] = {}
    BY DEF Init
  <2> QED
    BY <2>1 DEF CheckpointOK, TextsOK, CloneSteps
<1> QED
  BY <1>1, <1>2 DEF IInv

LEMMA PushInv == ASSUME IInv, Push PROVE IInv'
<1>1. /\ upstream' \in Versions
      /\ UNCHANGED <<repo, cloner, tree, output, deletes, state, attempt, done, pc,
                     todo, held, failed, faulty, disturbed>>
  BY DEF Push, dirVars, jobVars, fileVars
<1>2. TypeOK'
  BY <1>1 DEF IInv, TypeOK
<1>3. ASSUME NEW k \in Jobs PROVE JobOK(k)'
  <2>1. Untouched(k) /\ NoJob # k /\ UNCHANGED <<tree, output, disturbed>>
    BY <1>1 DEF Untouched
  <2> QED
    BY <2>1, UntouchedJob
<1> QED
  BY <1>2, <1>3 DEF IInv, JobOK

LEMMA DeleteArtifactInv == ASSUME IInv, DeleteArtifact PROVE IInv'
<1>1. /\ upstream' = upstream /\ repo' = "none" /\ cloner' = NoJob
      /\ tree' = Empty /\ output' = Empty /\ deletes' \in 0..MaxDeletes
      /\ DisturbOthers(NoJob)
      /\ UNCHANGED <<state, attempt, done, pc, todo, held, failed, faulty>>
  BY DEF DeleteArtifact, jobVars, fileVars, IInv, TypeOK
<1>2. TypeOK'
  BY <1>1, TreesTyped, DisturbedTyped DEF IInv, TypeOK
<1>3. ASSUME NEW k \in Jobs PROVE JobOK(k)'
  <2>1. Untouched(k) /\ NoJob # k
    BY <1>1 DEF Untouched
  <2> QED
    BY <1>1, <2>1, UntouchedJob
<1> QED
  BY <1>2, <1>3 DEF IInv, JobOK

LEMMA StutterInv == ASSUME IInv, UNCHANGED vars PROVE IInv'
<1>1. UNCHANGED <<upstream, repo, cloner, tree, output, deletes, state, attempt, done, pc,
                  todo, held, failed, faulty, disturbed>>
  BY DEF vars, dirVars, jobVars, fileVars
<1>2. TypeOK'
  BY <1>1 DEF IInv, TypeOK
<1>3. ASSUME NEW k \in Jobs PROVE JobOK(k)'
  <2>1. Untouched(k) /\ NoJob # k
    BY <1>1 DEF Untouched
  <2> QED
    BY <1>1, <2>1, UntouchedJob
<1> QED
  BY <1>2, <1>3 DEF IInv, JobOK

LEMMA NextInv == IInv /\ [Next]_vars => IInv'
<1> SUFFICES ASSUME IInv, [Next]_vars PROVE IInv'
  OBVIOUS
<1>1. ASSUME NEW j \in Jobs, Work(j) PROVE IInv'
  BY <1>1, BeginInv, StatInv, StartCloneInv, FinishCloneInv, RefusedInv, UpdateInv,
     SaveCheckpointInv, ListFilesInv, ReadFileInv, WriteFileInv, FilesDoneInv, VerifyInv
     DEF Work
<1>2. ASSUME NEW j \in Jobs, Faults(j) PROVE IInv'
  BY <1>2, GitFailsInv, GitKilledInv, SaveFailsInv, FileFailsInv, CrashInv DEF Faults
<1>3. CASE Push
  BY <1>3, PushInv
<1>4. CASE DeleteArtifact
  BY <1>4, DeleteArtifactInv
<1>5. CASE UNCHANGED vars
  BY <1>5, StutterInv
<1> QED
  BY <1>1, <1>2, <1>3, <1>4, <1>5 DEF Next, Over

\* Where each job is, what its checkpoint names and where the text of each of its
\* files is agree, in every state and for any number of jobs of one tag.
THEOREM Invariance == Spec => []IInv
<1> QED
  BY InitInv, NextInv, PTL DEF Spec

\* Type correctness of the preprocess jobs of a tag.
THEOREM TypeCorrect == Spec => []TypeOK
<1>1. IInv => TypeOK
  BY DEF IInv
<1> QED
  BY <1>1, Invariance, PTL

\* A completed job that nobody interfered with leaves an output that is, file by
\* file, made of the texts of its clone, and of no others: a retry that resumes
\* behind preprocess_done does not verify texts of another checkout.
THEOREM CompletedFromClone == Spec => CompletedIsOfTheClone
<1> DEFINE Whole(j) == state'[j] # state[j] /\ state'[j] = "completed" /\ ~disturbed[j] =>
                           output = [f \in Files |-> IF f \in Listed(j) THEN tree[f] ELSE 0]
<1>1. ASSUME IInv, [Next]_vars, NEW j \in Jobs,
             state'[j] # state[j], state'[j] = "completed"
      PROVE  Verify(j) /\ Passed(j)
  <2>1. ASSUME NEW k \in Jobs, AttemptFails(k) PROVE FALSE
    BY <1>1, <2>1 DEF AttemptFails, Retried, IInv, TypeOK
  <2>2. ~(UNCHANGED state)
    BY <1>1
  <2>3. PICK k \in Jobs : Work(k) \/ Faults(k)
    BY <1>1, <2>2 DEF Next, Over, Push, DeleteArtifact, jobVars, vars
  <2>4. ~Faults(k)
    BY <2>1, <2>2 DEF Faults, GitFails, GitKilled, SaveFails, FileFails, Crash
  <2>5. Begin(k) \/ FilesDone(k) \/ Verify(k)
    BY <2>1, <2>2, <2>3, <2>4 DEF Work, Stat, StartClone, FinishClone, CloneRefused, Update,
       UpdateRefused, SaveCheckpoint, ListFiles, ReadFile, WriteFile
  <2>6. ~Begin(k)
    BY <1>1 DEF Begin, IInv, TypeOK
  <2>7. ~FilesDone(k)
    BY <2>1, <2>2 DEF FilesDone
  <2>8. Verify(k) /\ Passed(k)
    BY <2>1, <2>5, <2>6, <2>7 DEF Verify
  <2>9. k = j
    BY <1>1, <2>8 DEF Verify, IInv, TypeOK
  <2> QED
    BY <2>8, <2>9
<1>2. ASSUME IInv, [Next]_vars, NEW j \in Jobs PROVE Whole(j)
  <2>1. SUFFICES ASSUME state'[j] # state[j], state'[j] = "completed", ~disturbed[j]
                 PROVE  output = [f \in Files |-> IF f \in Listed(j) THEN tree[f] ELSE 0]
    OBVIOUS
  <2>2. Verify(j) /\ Passed(j)
    BY <1>1, <1>2, <2>1
  <2>3. Listed(j) = Present(output) /\ pc[j] = "verify"
    BY <2>2 DEF Verify, Passed, DirectoryStructure
  <2>4. state[j] = "running" /\ "preprocess_done" \in done[j]
    BY <1>2, <2>3 DEF IInv, CheckpointOK
  <2>5. \A f \in Listed(j) : output[f] = tree[f]
    BY <1>2, <2>1, <2>4 DEF IInv, TextsOK, Final
  <2>6. \A f \in Files : output[f] = IF f \in Listed(j) THEN tree[f] ELSE 0
    BY <2>3, <2>5 DEF Present
  <2> QED
    BY <1>2, <2>6 DEF IInv, TypeOK, Outputs
<1>3. IInv /\ [Next]_vars => [\A j \in Jobs : Whole(j)]_vars
  BY <1>2
<1> QED
  BY <1>3, Invariance, PTL DEF Spec, CompletedIsOfTheClone

-----------------------------------------------------------------------------
(* Why a job is given up *)

\* Only a step of its own, or of those who mark it as disturbed, can touch a job's part.
LEMMA WhyStep ==
    ASSUME IInv, WhyInv, NEW j \in Jobs, CloneOK', FailuresOK(j)',
           \A k \in Jobs : k # j => Untouched(k) /\ faulty'[k] = faulty[k],
           \/ UNCHANGED <<repo, cloner, tree, disturbed>>
           \/ DisturbOthers(j)
    PROVE  WhyInv'
<1>1. ASSUME NEW k \in Jobs, k # j PROVE FailuresOK(k)'
  <2>1. /\ FailuresOK(k) /\ CheckpointOK(k) /\ faulty'[k] = faulty[k]
        /\ state'[k] = state[k] /\ attempt'[k] = attempt[k] /\ pc'[k] = pc[k]
        /\ todo'[k] = todo[k] /\ failed'[k] = failed[k]
    BY <1>1 DEF WhyInv, IInv, Untouched
  <2>2. CASE UNCHANGED <<repo, cloner, tree, disturbed>>
    <3>1. repo' = repo /\ cloner' = cloner /\ tree' = tree /\ disturbed' = disturbed
      BY <2>2
    <3> QED
      BY <2>1, <3>1 DEF FailuresOK, Present
  <2>3. CASE DisturbOthers(j)
    <3>1. disturbed'[k] = (disturbed[k] \/ (k # j /\ attempt[k] > 0 /\ state[k] \notin Final))
      BY <2>3 DEF DisturbOthers
    <3>2. CASE pc[k] = "idle"
      BY <2>1, <3>2 DEF FailuresOK
    <3>3. CASE pc[k] # "idle"
      <4>1. disturbed'[k]
        BY <1>1, <2>1, <3>1, <3>3 DEF CheckpointOK, Final
      <4> QED
        BY <2>1, <4>1 DEF FailuresOK
    <3> QED
      BY <3>2, <3>3
  <2> QED
    BY <2>2, <2>3
<1> QED
  BY <1>1 DEF WhyInv

LEMMA CloneKept == ASSUME CloneOK, UNCHANGED <<repo, cloner, tree>> PROVE CloneOK'
BY DEF CloneOK

LEMMA OthersFaults == ASSUME IInv, NEW j \in Jobs, faulty' = faulty \/ Fault(j)
                      PROVE  \A k \in Jobs : k # j => faulty'[k] = faulty[k]
BY DEF Fault, IInv, TypeOK

\* Once an attempt has failed nothing is left of it.
LEMMA FailingWhy ==
    ASSUME IInv, WhyInv, NEW j \in Jobs, AttemptFails(j), attempt' = attempt,
           faulty' = faulty \/ Fault(j), CloneOK',
           \/ UNCHANGED <<repo, cloner, tree, disturbed>>
           \/ DisturbOthers(j),
           done' \in {done, [done EXCEPT ![j] = @ \union {SavedStep(j)}]}
    PROVE  WhyInv'
<1>1. \A k \in Jobs : k # j => Untouched(k)
  BY DEF Untouched, AttemptFails, Goto, IInv, TypeOK
<1>2. pc'[j] = "idle" /\ failed'[j] = FALSE
  BY DEF AttemptFails, Goto, IInv, TypeOK
<1>3. FailuresOK(j)'
  BY <1>2 DEF FailuresOK
<1> QED
  BY <1>1, <1>3, OthersFaults, WhyStep

\* A step that goes on to another one, of a job whose goroutines have not failed.
LEMMA OnwardWhy ==
    ASSUME IInv, WhyInv, NEW j \in Jobs, NEW l, Goto(j, l), failed[j] = FALSE,
           UNCHANGED <<done, held, failed, faulty>>,
           \A k \in Jobs : k # j => /\ state'[k] = state[k] /\ attempt'[k] = attempt[k]
                                    /\ todo'[k] = todo[k],
           l = "clone" => repo' = "none",
           l = "cloning" => cloner' = j,
           l = "process" => todo'[j] \subseteq Present(tree)',
           CloneOK',
           \/ UNCHANGED <<repo, cloner, tree, disturbed>>
           \/ DisturbOthers(j)
    PROVE  WhyInv'
<1>1. /\ pc'[j] = l /\ failed'[j] = FALSE
      /\ \A k \in Jobs : k # j => pc'[k] = pc[k]
  BY DEF Goto, IInv, TypeOK
<1>2. \A k \in Jobs : k # j => Untouched(k) /\ faulty'[k] = faulty[k]
  BY <1>1 DEF Untouched
<1>3. FailuresOK(j)'
  BY <1>1 DEF FailuresOK
<1> QED
  BY <1>2, <1>3, WhyStep

LEMMA CloneWhy ==
    ASSUME IInv, WhyInv, NEW j \in Jobs,
           \/ Begin(j) \/ Stat(j) \/ StartClone(j) \/ FinishClone(j) \/ Update(j)
           \/ SaveCheckpoint(j)
    PROVE  WhyInv'
<1>1. FailuresOK(j) /\ CheckpointOK(j) /\ CloneOK /\ failed[j] \in BOOLEAN
  BY DEF WhyInv, IInv, TypeOK
<1>2. pc[j] # "process"
  BY <1>1 DEF Begin, Stat, StartClone, FinishClone, Update, SaveCheckpoint, CheckpointOK
<1>3. failed[j] = FALSE
  BY <1>1, <1>2 DEF FailuresOK
<1>4. CASE Begin(j)
  <2>1. /\ Goto(j, FirstStep(j)) /\ FirstStep(j) \notin {"clone", "cloning", "process"}
        /\ UNCHANGED <<done, held, failed, faulty>>
        /\ UNCHANGED <<repo, cloner, tree, disturbed>>
        /\ \A k \in Jobs : k # j => /\ state'[k] = state[k] /\ attempt'[k] = attempt[k]
                                    /\ todo'[k] = todo[k]
    BY <1>4 DEF Begin, FirstStep, dirVars, fileVars, IInv, TypeOK
  <2> QED
    BY <1>1, <1>3, <2>1, CloneKept, OnwardWhy
<1>5. CASE Stat(j)
  <2>1. /\ \/ Goto(j, "clone") /\ repo = "none"
           \/ Goto(j, "update")
        /\ UNCHANGED <<done, held, failed, faulty, state, attempt, todo>>
        /\ UNCHANGED <<repo, cloner, tree, disturbed>>
    BY <1>5 DEF Stat, dirVars, fileVars
  <2> QED
    BY <1>1, <1>3, <2>1, CloneKept, OnwardWhy
<1>6. CASE StartClone(j)
  <2>1. /\ Goto(j, "cloning") /\ cloner' = j /\ DisturbOthers(j)
        /\ UNCHANGED <<done, held, failed, faulty, state, attempt, todo>>
        /\ repo = "none" /\ repo' = "partial" /\ tree' = tree
    BY <1>6 DEF StartClone, fileVars
  <2>2. CloneOK'
    BY <1>1, <2>1 DEF CloneOK, Empty
  <2> QED
    BY <1>3, <2>1, <2>2, OnwardWhy
<1>7. CASE FinishClone(j)
  <2>1. /\ Goto(j, "saveClone") /\ DisturbOthers(j)
        /\ UNCHANGED <<done, held, failed, faulty, state, attempt, todo>>
        /\ repo' = "ok" /\ cloner' = NoJob
    BY <1>7 DEF FinishClone, fileVars
  <2>2. CloneOK'
    BY <2>1 DEF CloneOK
  <2> QED
    BY <1>3, <2>1, <2>2, OnwardWhy
<1>8. CASE Update(j)
  <2>1. /\ Goto(j, "saveClone") /\ DisturbOthers(j)
        /\ UNCHANGED <<done, held, failed, faulty, state, attempt, todo>>
        /\ repo = "ok" /\ repo' = "ok" /\ cloner' = cloner
    BY <1>8 DEF Update, Updatable, fileVars
  <2>2. CloneOK'
    BY <1>1, <2>1 DEF CloneOK
  <2> QED
    BY <1>3, <2>1, <2>2, OnwardWhy
<1>9. CASE SaveCheckpoint(j)
  <2>1. /\ Goto(j, NextStep(j)) /\ NextStep(j) \notin {"clone", "cloning", "process"}
        /\ UNCHANGED <<held, failed, faulty, state, attempt, todo>>
        /\ UNCHANGED <<repo, cloner, tree, disturbed>>
        /\ done' = [done EXCEPT ![j] = @ \union {SavedStep(j)}]
    BY <1>9 DEF SaveCheckpoint, NextStep, dirVars, fileVars
  <2>2. pc'[j] = NextStep(j) /\ failed'[j] = FALSE
    BY <1>3, <2>1 DEF Goto, IInv, TypeOK
  <2>3. FailuresOK(j)'
    BY <2>1, <2>2 DEF FailuresOK
  <2>4. \A k \in Jobs : k # j => Untouched(k) /\ faulty'[k] = faulty[k]
    BY <2>1 DEF Untouched, Goto, IInv, TypeOK
  <2> QED
    BY <1>1, <2>1, <2>3, <2>4, CloneKept, WhyStep
<1> QED
  BY <1>4, <1>5, <1>6, <1>7, <1>8, <1>9

LEMMA ListFilesWhy == ASSUME IInv, WhyInv, NEW j \in Jobs, ListFiles(j) PROVE WhyInv'
<1>1. FailuresOK(j) /\ CloneOK /\ failed[j] \in BOOLEAN
  BY DEF WhyInv, IInv, TypeOK
<1>2. /\ Goto(j, "process") /\ pc[j] = "list" /\ todo' = [todo EXCEPT ![j] = Listed(j)]
      /\ UNCHANGED <<done, held, failed, faulty>>
      /\ UNCHANGED <<state, attempt, repo, cloner, tree, disturbed>>
  BY DEF ListFiles, dirVars
<1>3. failed[j] = FALSE
  BY <1>1, <1>2 DEF FailuresOK
<1>4. todo'[j] = Listed(j) /\ \A k \in Jobs : k # j => todo'[k] = todo[k]
  BY <1>2 DEF IInv, TypeOK
<1>5. todo'[j] \subseteq Present(tree)'
  BY <1>2, <1>4 DEF Listed, Present
<1> QED
  BY <1>1, <1>2, <1>3, <1>4, <1>5, CloneKept, OnwardWhy

\* The goroutines of ProcessAllFiles.
LEMMA FilesWhy ==
    ASSUME IInv, WhyInv, NEW j \in Jobs, ReadFile(j) \/ WriteFile(j) \/ FileFails(j)
    PROVE  WhyInv'
<1>1. FailuresOK(j) /\ CloneOK
  BY DEF WhyInv
<1>2. /\ UNCHANGED <<repo, cloner, tree, state, attempt, done, pc>> /\ pc[j] = "process"
      /\ disturbed' = disturbed \/ DisturbOthers(j)
  BY DEF ReadFile, WriteFile, FileFails, CutShort, dirVars
<1>3. disturbed'[j] = disturbed[j]
  <2>1. disturbed[j] \in BOOLEAN
    BY DEF IInv, TypeOK
  <2> QED
    BY <1>2, <2>1 DEF DisturbOthers
<1>4. faulty' = faulty \/ Fault(j)
  BY DEF ReadFile, WriteFile, FileFails
<1>5. todo'[j] \subseteq todo[j]
  BY DEF ReadFile, WriteFile, FileFails, IInv, TypeOK
<1>6. ~disturbed[j] /\ failed'[j] => attempt[j] \in faulty'[j]
  <2>1. CASE ReadFile(j)
    <3>1. PICK f \in todo[j] :
              IF tree[f] = 0 THEN failed' = [failed EXCEPT ![j] = TRUE] ELSE failed' = failed
      BY <2>1 DEF ReadFile
    <3>2. faulty' = faulty
      BY <2>1 DEF ReadFile
    <3>3. ~disturbed[j] => tree[f] # 0
      BY <1>1, <1>2, <3>1 DEF FailuresOK, Present
    <3> QED
      BY <1>1, <3>1, <3>2, <3>3 DEF FailuresOK
  <2>2. CASE WriteFile(j)
    <3>1. failed' = failed /\ faulty' = faulty
      BY <2>2 DEF WriteFile
    <3> QED
      BY <1>1, <3>1 DEF FailuresOK
  <2>3. CASE FileFails(j)
    BY <2>3 DEF FileFails, Fault, IInv, TypeOK
  <2> QED
    BY <2>1, <2>2, <2>3
<1>7. FailuresOK(j)'
  <2>1. pc'[j] = "process" /\ Present(tree)' = Present(tree) /\ attempt'[j] = attempt[j]
    BY <1>2 DEF Present
  <2> QED
    BY <1>1, <1>2, <1>3, <1>5, <1>6, <2>1 DEF FailuresOK
<1>8. \A k \in Jobs : k # j => Untouched(k)
  BY <1>2 DEF Untouched, ReadFile, WriteFile, FileFails, IInv, TypeOK
<1> QED
  BY <1>1, <1>2, <1>4, <1>7, <1>8, CloneKept, OthersFaults, WhyStep

LEMMA EndsWhy ==
    ASSUME IInv, WhyInv, NEW j \in Jobs,
           \/ FilesDone(j) \/ Verify(j) \/ CloneRefused(j) \/ UpdateRefused(j)
           \/ SaveFails(j) \/ Crash(j)
    PROVE  WhyInv'
<1>1. FailuresOK(j) /\ CloneOK /\ failed[j] \in BOOLEAN
  BY DEF WhyInv, IInv, TypeOK
<1>2. /\ UNCHANGED <<repo, cloner, tree, attempt>> /\ (UNCHANGED disturbed \/ DisturbOthers(j))
      /\ Crash(j) \/ UNCHANGED disturbed
      /\ done' \in {done, [done EXCEPT ![j] = @ \union {SavedStep(j)}]}
      /\ faulty' = faulty \/ Fault(j)
  BY DEF FilesDone, Verify, CloneRefused, UpdateRefused, SaveFails, Crash, CutShort, dirVars
<1>3. CASE AttemptFails(j)
  BY <1>1, <1>2, <1>3, CloneKept, FailingWhy
<1>4. CASE FilesDone(j) /\ ~AttemptFails(j)
  <2>1. /\ Goto(j, "savePreprocess") /\ ~failed[j]
        /\ UNCHANGED <<done, held, failed, faulty, state, attempt, todo>>
    BY <1>4 DEF FilesDone, NoFailure, fileVars
  <2> QED
    BY <1>1, <1>2, <2>1, CloneKept, OnwardWhy
<1>5. CASE Verify(j) /\ ~AttemptFails(j)
  <2>1. /\ Goto(j, "idle") /\ pc[j] = "verify"
        /\ UNCHANGED <<done, held, failed, faulty, attempt, todo>>
        /\ \A k \in Jobs : k # j => state'[k] = state[k]
    BY <1>5 DEF Verify, fileVars, IInv, TypeOK
  <2>2. failed[j] = FALSE
    BY <1>1, <2>1 DEF FailuresOK
  <2> QED
    BY <1>1, <1>2, <2>1, <2>2, CloneKept, OnwardWhy
<1> QED
  BY <1>3, <1>4, <1>5 DEF CloneRefused, UpdateRefused, SaveFails, Crash

\* A git that fails or is killed: what is left of a clone has no files, unless it is whole
\* or broken.
LEMMA GitWhy == ASSUME IInv, WhyInv, NEW j \in Jobs, GitFails(j) \/ GitKilled(j) PROVE WhyInv'
<1>1. CloneOK
  BY DEF WhyInv
<1>2. /\ AttemptFails(j) /\ attempt' = attempt /\ done' = done /\ Fault(j)
      /\ \/ UNCHANGED <<repo, cloner, tree, disturbed>>
         \/ DisturbOthers(j)
  BY DEF GitFails, GitKilled
<1>3. CloneOK'
  <2>1. cloner = j => repo = "partial" /\ tree = Empty
    BY <1>1 DEF CloneOK
  <2>2. CASE GitFails(j)
    <3>1. /\ tree' = tree
          /\ \/ repo' = repo /\ cloner' = cloner
             \/ cloner = j /\ repo' = "none" /\ cloner' = NoJob
      BY <2>2 DEF GitFails
    <3> QED
      BY <1>1, <2>1, <3>1 DEF CloneOK, Empty
  <2>3. CASE GitKilled(j)
    <3>1. /\ cloner' = NoJob
          /\ \/ repo' = "none" /\ tree' = tree /\ cloner = j
             \/ repo' \in {"ok", "broken"}
      BY <2>3 DEF GitKilled
    <3> QED
      BY <2>1, <3>1 DEF CloneOK, Empty
  <2> QED
    BY <2>2, <2>3
<1> QED
  BY <1>2, <1>3, FailingWhy

\* Others push and delete.
LEMMA EnvironmentWhy ==
    ASSUME IInv, WhyInv, Push \/ DeleteArtifact \/ UNCHANGED vars PROVE WhyInv'
<1>1. UNCHANGED <<state, attempt, done, pc, todo, held, failed, faulty>>
  BY DEF Push, DeleteArtifact, vars, jobVars, fileVars
<1>2. \/ UNCHANGED <<repo, cloner, tree, disturbed>>
      \/ DisturbOthers(NoJob) /\ repo' = "none" /\ cloner' = NoJob /\ tree' = Empty
  BY DEF Push, DeleteArtifact, vars, dirVars
<1>3. CloneOK'
  BY <1>2 DEF WhyInv, CloneOK, Empty
<1>4. ASSUME NEW k \in Jobs PROVE FailuresOK(k)'
  <2>1. FailuresOK(k) /\ CheckpointOK(k)
    BY DEF WhyInv, IInv
  <2>2. CASE UNCHANGED <<repo, cloner, tree, disturbed>>
    <3>1. repo' = repo /\ cloner' = cloner /\ tree' = tree /\ disturbed' = disturbed
      BY <2>2
    <3> QED
      BY <1>1, <2>1, <3>1 DEF FailuresOK, Present
  <2>3. CASE DisturbOthers(NoJob)
    <3>1. disturbed'[k] = (disturbed[k] \/ (k # NoJob /\ attempt[k] > 0 /\ state[k] \notin Final))
      BY <2>3 DEF DisturbOthers
    <3>2. CASE pc[k] = "idle"
      BY <1>1, <2>1, <3>2 DEF FailuresOK
    <3>3. CASE pc[k] # "idle"
      <4>1. k # NoJob /\ disturbed'[k]
        BY <2>1, <3>1, <3>3 DEF CheckpointOK, Final
      <4> QED
        BY <1>1, <2>1, <4>1 DEF FailuresOK
    <3> QED
      BY <3>2, <3>3
  <2> QED
    BY <1>2, <2>2, <2>3
<1> QED
  BY <1>3, <1>4 DEF WhyInv

LEMMA WhyHolds == IInv /\ WhyInv /\ [Next]_vars => WhyInv'
<1> SUFFICES ASSUME IInv, WhyInv, [Next]_vars PROVE WhyInv'
  OBVIOUS
<1>1. ASSUME NEW j \in Jobs, Work(j) \/ Faults(j) PROVE WhyInv'
  BY <1>1, CloneWhy, ListFilesWhy, FilesWhy, EndsWhy, GitWhy DEF Work, Faults
<1> QED
  BY <1>1, EnvironmentWhy DEF Next, Over

\* Where no two include directories share a file, each listed file is visited once.
LEMMA EachListedOnce ==
    ASSUME TypeOK, NEW j \in Jobs,
           \A d, e \in IncludeDirs[j] : d # e => Under[d] \cap Under[e] = {}
    PROVE  Cardinality(Visited(j)) = Cardinality(Listed(j))
<1> DEFINE file == [visit \in Visited(j) |-> visit[2]]
<1>1. /\ IncludeDirs[j] \subseteq Dirs /\ Present(tree) \subseteq Files
      /\ Listed(j) \subseteq Files
  BY ListedFiles DEF Present
<1>2. \A visit \in Visited(j) : /\ visit[1] \in IncludeDirs[j] /\ visit[2] \in Present(tree)
                                /\ visit[2] \in Under[visit[1]]
                                /\ visit = <<visit[1], visit[2]>>
  BY DEF Visited
<1>3. \A visit \in Visited(j) : visit[2] \in Listed(j)
  BY <1>2 DEF Listed
<1>4. ASSUME NEW v \in Visited(j), NEW w \in Visited(j), v[2] = w[2] PROVE v = w
  <2>1. v[1] = w[1]
    BY <1>2, <1>4
  <2> QED
    BY <1>2, <1>4, <2>1
<1>5. ASSUME NEW f \in Listed(j) PROVE \E visit \in Visited(j) : visit[2] = f
  <2>1. PICK d \in IncludeDirs[j] : f \in Under[d]
    BY <1>5 DEF Listed
  <2>2. <<d, f>> \in Visited(j) /\ <<d, f>>[2] = f
    BY <1>5, <2>1 DEF Visited, Listed
  <2> QED
    BY <2>2
<1>6. file \in Bijection(Visited(j), Listed(j))
  <2>1. file \in [Visited(j) -> Listed(j)]
    BY <1>3
  <2>2. \A v, w \in Visited(j) : file[v] = file[w] => v = w
    BY <1>4
  <2>3. \A f \in Listed(j) : \E v \in Visited(j) : file[v] = f
    BY <1>5
  <2> HIDE DEF file
  <2> QED
    BY <2>1, <2>2, <2>3 DEF Bijection, Injection, Surjection, IsInjective
<1>7. IsFiniteSet(Listed(j))
  BY <1>1, FS_Subset
<1>8. Cardinality(Listed(j)) = Cardinality(Visited(j)) /\ IsFiniteSet(Visited(j))
  <2>1. ExistsBijection(Visited(j), Listed(j))
    BY <1>6 DEF ExistsBijection
  <2>2. ExistsBijection(Listed(j), Visited(j))
    BY <2>1, Fun_ExistsBijSymmetric
  <2> HIDE DEF file
  <2> QED
    BY <1>7, <2>2, FS_Bijection
<1> QED
  BY <1>8

\* What verifyOutput can find, once nobody else has touched the directories.
LEMMA VerificationFails ==
    ASSUME IInv, NEW j \in Jobs, pc[j] = "verify", ~disturbed[j], ~Passed(j)
    PROVE  \/ Leftover(j)
           \/ ~DirsExist(j)
           \/ \E d, e \in IncludeDirs[j] : d # e /\ Under[d] \intersect Under[e] # {}
           \/ \E f \in Files : <<f, output[f]>> \in Rejected
           \/ ~TotalSize(j)
<1> SUFFICES ASSUME ~Leftover(j), DirsExist(j), TotalSize(j),
                    \A d, e \in IncludeDirs[j] : d # e => Under[d] \cap Under[e] = {},
                    \A f \in Files : <<f, output[f]>> \notin Rejected
             PROVE  Passed(j)
  OBVIOUS
<1>1. state[j] = "running" /\ "preprocess_done" \in done[j]
  BY DEF IInv, CheckpointOK
<1>2. \A f \in Listed(j) : output[f] = tree[f]
  BY <1>1 DEF IInv, TextsOK, Final
<1>3. Listed(j) = Present(output)
  BY <1>2 DEF Listed, Present, Leftover
<1>4. Cardinality(Visited(j)) = Cardinality(Listed(j))
  BY EachListedOnce DEF IInv
<1> QED
  BY <1>3, <1>4 DEF Passed, FileCountMatch, DirectoryStructure, TextsPass, Present

\* A job nobody interferes with is given up, after an attempt without a fault, for the
\* reasons WhyDiscarded names only: the checkpoints of Work never leave anything undone.
THEOREM DiscardExplained == Spec => WhyDiscarded
<1> DEFINE Reason(j) == \/ repo = "broken"
                        \/ Leftover(j)
                        \/ ~DirsExist(j)
                        \/ \E d, e \in IncludeDirs[j] : d # e /\ Under[d] \intersect Under[e] # {}
                        \/ \E f \in Files : <<f, output[f]>> \in Rejected
                        \/ ~TotalSize(j)
           GivenUp(j) == /\ state'[j] # state[j] /\ state'[j] = "discarded" /\ ~disturbed[j]
                         /\ attempt[j] \notin faulty'[j]
<1>1. Init => WhyInv
  BY DEF Init, WhyInv, CloneOK, FailuresOK
<1>2. ASSUME IInv, WhyInv, [Next]_vars, NEW j \in Jobs, GivenUp(j) PROVE Reason(j)
  <2>1. ~(UNCHANGED state)
    BY <1>2
  <2>2. PICK k \in Jobs : Work(k) \/ Faults(k)
    BY <1>2, <2>1 DEF Next, Over, Push, DeleteArtifact, jobVars, vars
  <2>3. k = j
    BY <1>2, <2>1, <2>2 DEF Work, Faults, Begin, Stat, StartClone, FinishClone, CloneRefused,
       Update, UpdateRefused, SaveCheckpoint, ListFiles, ReadFile, WriteFile, FilesDone, Verify,
       GitFails, GitKilled, SaveFails, FileFails, Crash, AttemptFails, IInv, TypeOK
  <2>4. ~Faults(j)
    <3>1. Faults(j) => Fault(j)
      BY DEF Faults, GitFails, GitKilled, SaveFails, FileFails, Crash
    <3> QED
      BY <1>2, <3>1 DEF Fault, IInv, TypeOK
  <2>5. ~Begin(j)
    BY <1>2 DEF Begin, IInv, TypeOK
  <2>6. CloneRefused(j) \/ UpdateRefused(j) \/ FilesDone(j) \/ Verify(j)
    BY <2>1, <2>2, <2>3, <2>4, <2>5 DEF Work, Stat, StartClone, FinishClone, Update,
       SaveCheckpoint, ListFiles, ReadFile, WriteFile
  <2>7. FailuresOK(j) /\ CloneOK
    BY <1>2 DEF WhyInv
  <2>8. ~CloneRefused(j)
    BY <1>2, <2>7 DEF CloneRefused, FailuresOK
  <2>9. CASE UpdateRefused(j)
    <3>1. repo \in {"none", "partial", "broken"}
      BY <1>2, <2>9 DEF UpdateRefused, Updatable, IInv, TypeOK
    <3>2. tree = Empty => ~DirsExist(j)
      BY DEF Empty, DirsExist, Present
    <3> QED
      BY <2>7, <3>1, <3>2 DEF CloneOK
  <2>10. ~FilesDone(j)
    <3>1. SUFFICES ASSUME FilesDone(j) PROVE FALSE
      OBVIOUS
    <3>2. ~failed[j]
      BY <1>2, <2>7, <3>1 DEF FilesDone, FailuresOK
    <3> QED
      BY <2>1, <3>1, <3>2 DEF FilesDone, NoFailure
  <2>11. CASE Verify(j)
    <3>1. pc[j] = "verify" /\ ~Passed(j)
      BY <1>2, <2>11 DEF Verify, IInv, TypeOK
    <3> QED
      BY <1>2, <3>1, VerificationFails
  <2> QED
    BY <2>6, <2>8, <2>9, <2>10, <2>11
<1>3. IInv /\ WhyInv /\ [Next]_vars => [\A j \in Jobs : GivenUp(j) => Reason(j)]_vars
  BY <1>2
<1>4. Spec => []WhyInv
  BY <1>1, Invariance, WhyHolds, PTL DEF Spec
<1> QED
  BY <1>3, <1>4, Invariance, PTL DEF Spec, WhyDiscarded

=============================================================================
