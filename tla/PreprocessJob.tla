---------------------------- MODULE PreprocessJob ----------------------------
(***************************************************************************)
(* The preprocess jobs of one tag (internal/workflow/preprocess_worker.go, *)
(* internal/preprocessor/preprocessor.go): clone or update the repository, *)
(* process its files, verify the output, with a checkpoint after the first *)
(* two. Jobs of the same tag share the clone and the output directory,     *)
(* River may run them at the same time, and the API may delete both under  *)
(* them (internal/api/router_artifact.go).                                 *)
(*                                                                         *)
(* A text is the upstream version it comes from, Cut if it was cut short   *)
(* on its way to the output, 0 if there is none. Files are the Markdown    *)
(* files under content/. Verification reads clone and output in one step.  *)
(***************************************************************************)
EXTENDS Naturals, FiniteSets

LOCAL INSTANCE FiniteSetsExt

CONSTANTS Jobs,         \* preprocess jobs with the same tag
          Files,        \* Markdown files of any version
          Dirs,         \* include directories
          Under,        \* [Dirs -> SUBSET Files]: the files under each
          IncludeDirs,  \* [Jobs -> SUBSET Dirs]: args.IncludeDirs, resolved (resolveWalkDirs):
                        \* never none; a directory named twice is two of Dirs
          LastVersion,  \* bound on the versions of the remote repository
          Content,      \* [Versions -> SUBSET Files]: the files of each
          Rejected,     \* <<file, text>> that fails a check on texts
          SrcSize,      \* [Files \X Versions -> Nat]: the size of a file in the clone
          DstSize,      \* [Files \X Texts -> Nat]: of its text in the output
          MaxAttempts,  \* River's attempts per job
          MaxFaults,    \* bound on the attempts of a job that meet a fault
          MaxDeletes    \* bound on deletions of the artifact

Versions == 1..LastVersion
Cut == LastVersion + 1
Texts == Versions \union {Cut}

ASSUME PreprocessAssumption ==
    /\ IsFiniteSet(Jobs) /\ IsFiniteSet(Files) /\ IsFiniteSet(Dirs)
    /\ Under \in [Dirs -> SUBSET Files]
    /\ IncludeDirs \in [Jobs -> (SUBSET Dirs) \ {{}}]
    /\ LastVersion \in Nat \ {0} /\ Content \in [Versions -> SUBSET Files]
    /\ Rejected \subseteq Files \X Texts
    /\ SrcSize \in [Files \X Versions -> Nat] /\ DstSize \in [Files \X Texts -> Nat]
    /\ MaxAttempts \in Nat \ {0}
    /\ MaxFaults \in Nat /\ MaxDeletes \in Nat

CONSTANT NoJob
ASSUME NoJobAssumption == NoJob \notin Jobs

VARIABLES upstream,     \* version the remote repository is at
          repo,         \* repoPath: "none", "partial", "ok" or "broken"
          cloner,       \* the job whose git clone is under way in repoPath
          tree,         \* [Files -> version]: the working tree of repoPath
          output,       \* [Files -> text]: outputPath
          deletes,      \* deletions so far
          state,        \* River: "available", "running", "completed", "discarded"
          attempt,      \* River: attempts begun
          done,         \* River output: the steps the checkpoint names
          pc,           \* where Work is
          todo,         \* ProcessAllFiles: files no goroutine has read
          held,         \* ProcessAllFiles: <<file, version>> read, not written
          failed,       \* ProcessAllFiles: a goroutine has returned an error
          faulty,       \* attempts that met a fault of their own
          disturbed     \* others changed the directories since the job began

dirVars  == <<repo, cloner, tree, output>>
fileVars == <<todo, held, failed>>
jobVars  == <<state, attempt, done, pc, fileVars, faulty>>
vars     == <<upstream, dirVars, deletes, jobVars, disturbed>>

Steps == {"clone_done", "preprocess_done"}
Final == {"completed", "discarded"}

Empty == [f \in Files |-> 0]
Checkout(v) == [f \in Files |-> IF f \in Content[v] THEN v ELSE 0]
Present(t) == {f \in Files : t[f] # 0}

\* A checkout that was killed on its way from one tree to another.
Between(t, u) == {[f \in Files |-> IF f \in S THEN u[f] ELSE t[f]] : S \in SUBSET Files}

-----------------------------------------------------------------------------
(* Faulty variants of the operators below, one plausible slip each. No      *)
(* specification uses them: they show which property notices which slip.    *)

FailuresIgnored(j) == TRUE
NeverRescued(j) == IF attempt[j] < MaxAttempts THEN "running" ELSE "discarded"

-----------------------------------------------------------------------------
(* River and the ends of an attempt *)

Active(j) == state[j] = "running"

Goto(j, l) == pc' = [pc EXCEPT ![j] = l]

Retried(j) == IF attempt[j] < MaxAttempts THEN "available" ELSE "discarded"

\* Work returned an error, or the process died and River rescued the job.
AttemptFails(j) ==
    /\ state' = [state EXCEPT ![j] = Retried(j)]
    /\ Goto(j, "idle")
    /\ todo' = [todo EXCEPT ![j] = {}]
    /\ held' = [held EXCEPT ![j] = {}]
    /\ failed' = [failed EXCEPT ![j] = FALSE]

MayFault(j) == attempt[j] \in faulty[j] \/ Cardinality(faulty[j]) < MaxFaults
Fault(j) == MayFault(j) /\ faulty' = [faulty EXCEPT ![j] = @ \union {attempt[j]}]

\* The other jobs that have begun and not ended see the directories change.
DisturbOthers(j) ==
    disturbed' = [i \in Jobs |-> \/ disturbed[i]
                                 \/ i # j /\ attempt[i] > 0 /\ state[i] \notin Final]

\* readCheckpoint: the first step it does not name.
FirstStep(j) == IF "clone_done" \notin done[j] THEN "stat"
                ELSE IF "preprocess_done" \notin done[j] THEN "list" ELSE "verify"

Begin(j) ==
    /\ state[j] = "available"
    /\ state' = [state EXCEPT ![j] = "running"]
    /\ attempt' = [attempt EXCEPT ![j] = @ + 1]
    /\ Goto(j, FirstStep(j))
    /\ UNCHANGED <<upstream, dirVars, deletes, done, fileVars, faulty, disturbed>>

-----------------------------------------------------------------------------
(* cloneRepo *)

Stat(j) ==
    /\ pc[j] = "stat"
    /\ Goto(j, IF repo = "none" THEN "clone" ELSE "update")
    /\ UNCHANGED <<upstream, dirVars, deletes, state, attempt, done, fileVars, faulty, disturbed>>

StartClone(j) ==
    /\ pc[j] = "clone" /\ repo = "none"
    /\ repo' = "partial" /\ cloner' = j
    /\ Goto(j, "cloning")
    /\ DisturbOthers(j)
    /\ UNCHANGED <<upstream, tree, output, deletes, state, attempt, done, fileVars, faulty>>

FinishClone(j) ==
    /\ pc[j] = "cloning" /\ cloner = j
    /\ repo' = "ok" /\ cloner' = NoJob
    /\ tree' = Checkout(upstream)
    /\ Goto(j, "saveClone")
    /\ DisturbOthers(j)
    /\ UNCHANGED <<upstream, output, deletes, state, attempt, done, fileVars, faulty>>

\* git clone: the directory exists by now, or was deleted under it.
CloneRefused(j) ==
    /\ \/ pc[j] = "clone" /\ repo # "none"
       \/ pc[j] = "cloning" /\ cloner # j
    /\ AttemptFails(j)
    /\ UNCHANGED <<upstream, dirVars, deletes, attempt, done, faulty, disturbed>>

\* fetch, checkout and pull work in an intact clone only.
Updatable == repo = "ok"

Update(j) ==
    /\ pc[j] = "update" /\ Updatable
    /\ tree' = Checkout(upstream)
    /\ Goto(j, "saveClone")
    /\ DisturbOthers(j)
    /\ UNCHANGED <<upstream, repo, cloner, output, deletes, state, attempt, done, fileVars, faulty>>

UpdateRefused(j) ==
    /\ pc[j] = "update" /\ ~Updatable
    /\ AttemptFails(j)
    /\ UNCHANGED <<upstream, dirVars, deletes, attempt, done, faulty, disturbed>>

\* The remote cannot be reached until the back-off gives up. A clone that fails
\* by itself removes what it made.
GitFails(j) ==
    /\ \/ pc[j] \in {"clone", "update"} /\ UNCHANGED <<repo, cloner, disturbed>>
       \/ pc[j] = "cloning" /\ cloner = j /\ repo' = "none" /\ cloner' = NoJob /\ DisturbOthers(j)
    /\ Fault(j)
    /\ AttemptFails(j)
    /\ UNCHANGED <<upstream, tree, output, deletes, attempt, done>>

\* git is killed with its context, or dies with the process: before it wrote, at
\* the very end, or in between, which leaves a lock or half a clone behind.
GitKilled(j) ==
    /\ \/ pc[j] = "cloning" /\ cloner = j
       \/ pc[j] = "update" /\ Updatable
    /\ \/ repo' = "none" /\ pc[j] = "cloning" /\ UNCHANGED tree
       \/ repo' = "ok" /\ tree' \in {tree, Checkout(upstream)}
       \/ repo' = "broken" /\ tree' \in Between(tree, Checkout(upstream))
    /\ cloner' = NoJob
    /\ DisturbOthers(j)
    /\ Fault(j)
    /\ AttemptFails(j)
    /\ UNCHANGED <<upstream, output, deletes, attempt, done>>

-----------------------------------------------------------------------------
(* saveCheckpoint *)

SavedStep(j) == IF pc[j] = "saveClone" THEN "clone_done" ELSE "preprocess_done"
NextStep(j) == IF pc[j] = "saveClone" THEN "list" ELSE "verify"

SaveCheckpoint(j) ==
    /\ pc[j] \in {"saveClone", "savePreprocess"}
    /\ done' = [done EXCEPT ![j] = @ \union {SavedStep(j)}]
    /\ Goto(j, NextStep(j))
    /\ UNCHANGED <<upstream, dirVars, deletes, state, attempt, fileVars, faulty, disturbed>>

\* JobUpdate reports an error; it may have been committed.
SaveFails(j) ==
    /\ pc[j] \in {"saveClone", "savePreprocess"}
    /\ done' \in {done, [done EXCEPT ![j] = @ \union {SavedStep(j)}]}
    /\ Fault(j)
    /\ AttemptFails(j)
    /\ UNCHANGED <<upstream, dirVars, deletes, attempt, disturbed>>

-----------------------------------------------------------------------------
(* ProcessAllFiles *)

\* Include directories that do not exist are skipped here. Git keeps no empty
\* directory, so one exists if a file under it does.
Listed(j) == Present(tree) \intersect UNION {Under[d] : d \in IncludeDirs[j]}

ListFiles(j) ==
    /\ pc[j] = "list"
    /\ todo' = [todo EXCEPT ![j] = Listed(j)]
    /\ Goto(j, "process")
    /\ UNCHANGED <<upstream, dirVars, deletes, state, attempt, done, held, failed, faulty, disturbed>>

\* A file that is gone by now fails; the others go on.
ReadFile(j) ==
    /\ pc[j] = "process"
    /\ \E f \in todo[j] :
           /\ todo' = [todo EXCEPT ![j] = @ \ {f}]
           /\ IF tree[f] = 0
              THEN failed' = [failed EXCEPT ![j] = TRUE] /\ UNCHANGED held
              ELSE held' = [held EXCEPT ![j] = @ \union {<<f, tree[f]>>}] /\ UNCHANGED failed
    /\ UNCHANGED <<upstream, dirVars, deletes, state, attempt, done, pc, faulty, disturbed>>

WriteFile(j) ==
    /\ pc[j] = "process"
    /\ \E text \in held[j] :
           /\ held' = [held EXCEPT ![j] = @ \ {text}]
           /\ output' = [output EXCEPT ![text[1]] = text[2]]
    /\ DisturbOthers(j)
    /\ UNCHANGED <<upstream, repo, cloner, tree, deletes, state, attempt, done, pc, todo, failed, faulty>>

\* os.WriteFile empties a file before it writes: of the texts that do not get there, some
\* leave what was there, others a file that is cut short.
CutShort(j, texts) ==
    /\ \E S \in SUBSET texts :
           output' = [f \in Files |-> IF \E text \in S : text[1] = f THEN Cut ELSE output[f]]
    /\ IF output' = output THEN UNCHANGED disturbed ELSE DisturbOthers(j)

FileFails(j) ==
    /\ pc[j] = "process"
    /\ \E text \in held[j] : held' = [held EXCEPT ![j] = @ \ {text}] /\ CutShort(j, {text})
    /\ failed' = [failed EXCEPT ![j] = TRUE]
    /\ Fault(j)
    /\ UNCHANGED <<upstream, repo, cloner, tree, deletes, state, attempt, done, pc, todo>>

\* g.Wait returned nil.
NoFailure(j) == ~failed[j]

FilesDone(j) ==
    /\ pc[j] = "process" /\ todo[j] = {} /\ held[j] = {}
    /\ IF NoFailure(j)
       THEN Goto(j, "savePreprocess") /\ UNCHANGED <<state, fileVars>>
       ELSE AttemptFails(j)
    /\ UNCHANGED <<upstream, dirVars, deletes, attempt, done, faulty, disturbed>>

-----------------------------------------------------------------------------
(* verifyOutput *)

\* Unlike ProcessAllFiles, the walks of verifyOutput fail on a missing directory.
DirsExist(j) == \A d \in IncludeDirs[j] : Present(tree) \intersect Under[d] # {}

\* The files met on the walks of countMarkdownFilesInDirs: each include directory is
\* walked, also if one is under another.
Visited(j) == {visit \in IncludeDirs[j] \X Present(tree) : visit[2] \in Under[visit[1]]}

FileCountMatch(j) ==
    Cardinality(Visited(j)) = Cardinality(Present(output))

DirectoryStructure(j) == Listed(j) = Present(output)

\* Shortcodes, HTML and minimum content of each text.
TextsPass == \A f \in Present(output) : <<f, output[f]>> \notin Rejected

\* The whole output is between half and twice as large as what the walks visit.
TotalSize(j) ==
    LET SizeOf(visit) == SrcSize[visit[2], tree[visit[2]]]
        src == MapThenSumSet(SizeOf, Visited(j))
        dst == MapThenSumSet(LAMBDA f : DstSize[f, output[f]], Present(output))
    IN  IF src > 0 THEN src <= 2 * dst /\ dst <= 2 * src ELSE dst > 0

Passed(j) == /\ DirsExist(j) /\ FileCountMatch(j) /\ DirectoryStructure(j)
             /\ TextsPass /\ TotalSize(j)

Verify(j) ==
    /\ pc[j] = "verify"
    /\ IF Passed(j)
       THEN /\ state' = [state EXCEPT ![j] = "completed"]
            /\ Goto(j, "idle") /\ UNCHANGED fileVars
       ELSE AttemptFails(j)
    /\ UNCHANGED <<upstream, dirVars, deletes, attempt, done, faulty, disturbed>>

-----------------------------------------------------------------------------
(* Environment *)

\* The process dies outside git, or the report cannot be written.
Crash(j) ==
    /\ Active(j) /\ pc[j] # "cloning"
    /\ CutShort(j, held[j])
    /\ Fault(j)
    /\ AttemptFails(j)
    /\ UNCHANGED <<upstream, repo, cloner, tree, deletes, attempt, done>>

Push ==
    /\ upstream + 1 \in Versions
    /\ upstream' = upstream + 1
    /\ UNCHANGED <<dirVars, deletes, jobVars, disturbed>>

\* deleteHandler: os.RemoveAll of the tag's directory.
DeleteArtifact ==
    /\ deletes < MaxDeletes
    /\ repo # "none" \/ output # Empty
    /\ deletes' = deletes + 1
    /\ repo' = "none" /\ cloner' = NoJob /\ tree' = Empty /\ output' = Empty
    /\ DisturbOthers(NoJob)
    /\ UNCHANGED <<upstream, jobVars>>

Init ==
    /\ upstream = 1
    /\ repo = "none" /\ cloner = NoJob /\ tree = Empty /\ output = Empty
    /\ deletes = 0
    /\ state = [j \in Jobs |-> "available"]
    /\ attempt = [j \in Jobs |-> 0]
    /\ done = [j \in Jobs |-> {}]
    /\ pc = [j \in Jobs |-> "idle"]
    /\ todo = [j \in Jobs |-> {}]
    /\ held = [j \in Jobs |-> {}]
    /\ failed = [j \in Jobs |-> FALSE]
    /\ faulty = [j \in Jobs |-> {}]
    /\ disturbed = [j \in Jobs |-> FALSE]

Work(j) == \/ Begin(j) \/ Stat(j) \/ StartClone(j) \/ FinishClone(j) \/ CloneRefused(j)
           \/ Update(j) \/ UpdateRefused(j) \/ SaveCheckpoint(j)
           \/ ListFiles(j) \/ ReadFile(j) \/ WriteFile(j) \/ FilesDone(j) \/ Verify(j)

Faults(j) == GitFails(j) \/ GitKilled(j) \/ SaveFails(j) \/ FileFails(j) \/ Crash(j)

Over == (\A j \in Jobs : state[j] \in Final) /\ UNCHANGED vars

Next == \/ \E j \in Jobs : Work(j) \/ Faults(j)
        \/ Push \/ DeleteArtifact \/ Over

Spec == Init /\ [][Next]_vars

\* River fetches what is available, and what Work waits for ends by itself or at
\* the job's timeout.
FairSpec == Spec /\ \A j \in Jobs : WF_vars(Work(j))

-----------------------------------------------------------------------------
Trees == [Files -> Versions \union {0}]
Outputs == [Files -> Texts \union {0}]

TypeOK ==
    /\ upstream \in Versions
    /\ repo \in {"none", "partial", "ok", "broken"}
    /\ cloner \in Jobs \union {NoJob}
    /\ tree \in Trees /\ output \in Outputs
    /\ deletes \in 0..MaxDeletes
    /\ state \in [Jobs -> {"available", "running"} \union Final]
    /\ attempt \in [Jobs -> 0..MaxAttempts]
    /\ done \in [Jobs -> SUBSET Steps]
    /\ pc \in [Jobs -> {"idle", "stat", "clone", "cloning", "update", "saveClone", "list",
                        "process", "savePreprocess", "verify"}]
    /\ todo \in [Jobs -> SUBSET Files]
    /\ held \in [Jobs -> SUBSET (Files \X Versions)]
    /\ failed \in [Jobs -> BOOLEAN]
    /\ faulty \in [Jobs -> SUBSET (1..MaxAttempts)]
    /\ disturbed \in [Jobs -> BOOLEAN]

\* A job completes with every text taken whole from the clone it leaves behind, though
\* verification compares names only and texts of earlier jobs and of attempts that were
\* cut short lie around.
CompletedIsOfTheClone ==
    [][\A j \in Jobs :
          state'[j] # state[j] /\ state'[j] = "completed" /\ ~disturbed[j] =>
              output = [f \in Files |-> IF f \in Listed(j) THEN tree[f] ELSE 0]]_vars

Leftover(j) == Present(output) \ Listed(j) # {}

\* What can make an undisturbed job fail though some attempt met no fault: a git
\* that was killed, a file in the output that is not in the clone any more, the
\* choice of include directories, a text or the size of all texts. Never work that was
\* left undone.
WhyDiscarded ==
    [][\A j \in Jobs :
          /\ state'[j] # state[j] /\ state'[j] = "discarded" /\ ~disturbed[j]
          /\ attempt[j] \notin faulty'[j]
          => \/ repo = "broken"
             \/ Leftover(j)
             \/ ~DirsExist(j)
             \/ \E d, e \in IncludeDirs[j] : d # e /\ Under[d] \intersect Under[e] # {}
             \/ \E f \in Files : <<f, output[f]>> \in Rejected
             \/ ~TotalSize(j)]_vars

\* Every job ends, whatever fails and whoever interferes.
JobsEnd == \A j \in Jobs : <>(state[j] \in Final)

-----------------------------------------------------------------------------
(* The inductive invariant behind CompletedIsOfTheClone, proved in           *)
(* PreprocessJobProofs.                                                      *)

CloneSteps == {"stat", "clone", "cloning", "update", "saveClone"}

\* Where Work is and what its checkpoint names agree, also after a retry.
CheckpointOK(j) ==
    /\ state[j] = "running" <=> pc[j] # "idle"
    /\ state[j] = "running" \/ done[j] # {} => attempt[j] > 0
    /\ state[j] = "available" => attempt[j] < MaxAttempts
    /\ "preprocess_done" \in done[j] => "clone_done" \in done[j]
    /\ pc[j] \in CloneSteps => "clone_done" \notin done[j]
    /\ pc[j] \in {"list", "process", "savePreprocess", "verify"} =>
           "clone_done" \in done[j] /\ (pc[j] = "verify" <=> "preprocess_done" \in done[j])
    /\ pc[j] # "process" => held[j] = {}

\* While nobody else touches the directories, each file of the job is still to be
\* read, on its way, or in the output as it is in the clone.
TextsOK(j) ==
    state[j] \notin Final /\ ~disturbed[j] =>
        /\ \A text \in held[j] : text[2] = tree[text[1]]
        /\ pc[j] = "process" /\ ~failed[j] =>
               \A f \in Listed(j) : \/ f \in todo[j] \/ <<f, tree[f]>> \in held[j]
                                    \/ output[f] = tree[f]
        /\ pc[j] = "savePreprocess" \/ "preprocess_done" \in done[j] =>
               \A f \in Listed(j) : output[f] = tree[f]

IInv == TypeOK /\ \A j \in Jobs : CheckpointOK(j) /\ TextsOK(j)

(* The inductive invariant behind WhyDiscarded, on top of IInv.              *)

\* Without a whole clone there are no files, and git clone is at work in a part of one.
CloneOK == /\ repo \in {"none", "partial"} => tree = Empty
           /\ cloner # NoJob => repo = "partial"

\* A goroutine of ProcessAllFiles fails in ProcessAllFiles; while nobody else touches the
\* directories, git clone finds what os.Stat saw, no listed file is gone, and a goroutine
\* fails by a fault of the attempt.
FailuresOK(j) ==
    /\ failed[j] => pc[j] = "process"
    /\ ~disturbed[j] =>
           /\ pc[j] = "clone" => repo = "none"
           /\ pc[j] = "cloning" => cloner = j
           /\ pc[j] = "process" => todo[j] \subseteq Present(tree)
           /\ failed[j] => attempt[j] \in faulty[j]

WhyInv == CloneOK /\ \A j \in Jobs : FailuresOK(j)

-----------------------------------------------------------------------------
\* What one would expect, and TLC refutes with the constants of the run (README,
\* Findings): a retry recovers from the last completed step, so a job that nobody interferes
\* with, and whose last attempt meets no fault, is not discarded.
DiscardedOnlyByFaults ==
    \A j \in Jobs : state[j] = "discarded" /\ ~disturbed[j] => attempt[j] \in faulty[j]
=============================================================================
