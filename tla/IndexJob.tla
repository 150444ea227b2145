------------------------------- MODULE IndexJob -------------------------------
(***************************************************************************)
(* One index job over all its attempts: RunIndexing                        *)
(* (internal/workflow/index_worker.go) opens its dependencies, lists the   *)
(* documents, makes sure of the collection and runs a bounded pool of      *)
(* goroutines, one for each document.                                      *)
(*                                                                         *)
(* Focus is any one of the documents, followed step by step as             *)
(* IndexDocument tells it; the others are there for the place they take in *)
(* the pool and come to be indexed or skipped. The pool takes documents in *)
(* the order of the listing; here in any order, so Focus stands for each.  *)
(***************************************************************************)
EXTENDS IndexDocument

CONSTANTS Focus,        \* the document looked at
          Others,       \* the other documents of the input
          Concurrency,  \* IndexArgs.IndexConcurrency, positive for the API
          MaxAttempts,  \* MAX_RETRIES of the API server
          JobFaults     \* what may go wrong: a subset of JobFaultKinds

\* "start": configuration, connection, probe or collection fail. "walk": a
\* directory cannot be read. "stat": a file cannot, or is too large. "cancel":
\* the hour of a job is over, or workerd stops. "crash": its process dies.
\* "drop": the index is deleted. "foreign": another job makes the collection.
JobFaultKinds == {"start", "walk", "stat", "cancel", "crash", "drop", "foreign"}

ASSUME IndexJobAssumption ==
    /\ Focus \notin Others
    /\ Concurrency \in Nat \ {0}
    /\ MaxAttempts \in Nat \ {0}
    /\ JobFaults \subseteq JobFaultKinds
    /\ JobFaults \intersect {"drop", "foreign"} # {} => "service" \in Faults

VARIABLES state,        \* the job in River
          attempt,      \* attempts started
          pc,           \* where RunIndexing is
          jobDone,      \* the job's context is done
          listed,       \* mdFiles
          doc,          \* what the attempt has made of each document
          collection,   \* "none", "fits", or "unfit": of another dimension
          dropped,      \* deleted since this attempt made sure of it
          kept          \* chunks of Focus whose point is in the collection

poolVars == <<state, attempt, pc, jobDone, listed, doc>>
collVars == <<collection, dropped, kept>>
jobVars  == <<poolVars, collVars>>
allVars  == <<vars, jobVars>>

Docs == Others \union {Focus}

-----------------------------------------------------------------------------
Running == {d \in Docs : doc[d] = "running"}

Retried == IF attempt < MaxAttempts THEN "available" ELSE "discarded"

Untouched == [d \in Docs |-> "waiting"]

\* Work returned an error, or its process died: what it noted is gone.
AttemptFails ==
    /\ state' = Retried /\ pc' = "idle"
    /\ doc' = Untouched
    /\ UNCHANGED <<attempt, jobDone>>

\* A call with a done context fails.
MayFail == "start" \in JobFaults \/ jobDone

\* A collection of the tag may be there from an earlier job, whose documents
\* are not those of this one.
JobInit ==
    /\ state = "available" /\ attempt = 0 /\ pc = "idle"
    /\ jobDone = FALSE /\ listed = {} /\ doc = Untouched
    /\ collection \in IF "foreign" \in JobFaults THEN {"none", "fits", "unfit"}
                                                 ELSE {"none"}
    /\ dropped = FALSE /\ kept = {}
    /\ ctxDone = TRUE
    /\ chunker = "none" /\ offered = 0 /\ chunkErr = FALSE
    /\ file = "left" /\ last = FALSE
    /\ received = 0 /\ chunksCount = 0 /\ points = {} /\ result = "failed"

-----------------------------------------------------------------------------
(* RunIndexing up to its pool *)

Fetch ==
    /\ state = "available"
    /\ state' = "running" /\ attempt' = attempt + 1
    /\ pc' = "open" /\ jobDone' = FALSE
    /\ UNCHANGED <<vars, listed, doc, collVars>>

\* The walk only logs what it cannot read, its root included. Without
\* documents there is no probe, no collection, and nothing to wait for.
List ==
    /\ pc = "open"
    /\ \E L \in SUBSET Docs :
        /\ L = Docs \/ "walk" \in JobFaults
        /\ listed' = L
        /\ pc' = IF L = {} THEN "index" ELSE "ensure"
    /\ UNCHANGED <<vars, state, attempt, jobDone, doc, collVars>>

\* The probe for the vectors' dimension, and CollectionExists: a collection that
\* exists is taken as it is.
Ensure ==
    /\ pc = "ensure" /\ ~jobDone
    /\ pc' = IF collection = "none" THEN "create" ELSE "index"
    /\ dropped' = FALSE
    /\ UNCHANGED <<vars, state, attempt, jobDone, listed, doc, collection, kept>>

Create ==
    /\ pc = "create" /\ ~jobDone
    /\ collection = "none"
    /\ collection' = "fits" /\ dropped' = FALSE
    /\ pc' = "index"
    /\ UNCHANGED <<vars, state, attempt, jobDone, listed, doc, kept>>

\* Create is refused when another job has made the collection since, and may
\* report an error for one it has made.
StartFails ==
    /\ \/ /\ pc \in {"open", "ensure", "create"} /\ MayFail
          /\ UNCHANGED collection
       \/ /\ pc = "create" /\ collection # "none"
          /\ UNCHANGED collection
       \/ /\ pc = "create" /\ collection = "none" /\ MayFail
          /\ collection' = "fits"
    /\ AttemptFails
    /\ UNCHANGED <<vars, listed, dropped, kept>>

-----------------------------------------------------------------------------
(* The pool *)

\* g.Go blocks while IndexConcurrency documents are under way, and goes on
\* starting them when the job's context is done.
HasPlace(d) ==
    /\ pc = "index"
    /\ d \in listed /\ doc[d] = "waiting"
    /\ Cardinality(Running) < Concurrency

StartOther(d) ==
    /\ d \in Others /\ HasPlace(d)
    /\ doc' = [doc EXCEPT ![d] = "running"]
    /\ UNCHANGED <<vars, state, attempt, pc, jobDone, listed, collVars>>

FinishOther(d) ==
    /\ d \in Others /\ doc[d] = "running" /\ pc = "index"
    /\ \E o \in {"indexed", "skipped"} : doc' = [doc EXCEPT ![d] = o]
    /\ UNCHANGED <<vars, state, attempt, pc, jobDone, listed, collVars>>

\* context.WithTimeout of the job's context. A chunker of an earlier attempt has
\* ended by the time River has retried the job.
StartFocus ==
    /\ HasPlace(Focus) /\ chunker \in {"none", "done"}
    /\ doc' = [doc EXCEPT ![Focus] = "running"]
    /\ \E t \in DocTimeouts : ctxDone' = (jobDone \/ t = 0)
    /\ chunker' = "none" /\ offered' = 0 /\ chunkErr' = FALSE
    /\ file' = "parse" /\ last' = FALSE
    /\ received' = 0 /\ chunksCount' = 0 /\ points' = {} /\ result' = "none"
    /\ UNCHANGED <<state, attempt, pc, jobDone, listed, collVars>>

\* os.Stat fails, or the file is larger than maxIndexFileSize.
SkipFocus ==
    /\ HasPlace(Focus) /\ "stat" \in JobFaults
    /\ doc' = [doc EXCEPT ![Focus] = "skipped"]
    /\ UNCHANGED <<vars, state, attempt, pc, jobDone, listed, collVars>>

\* Only a collection that fits takes points. Whatever processFile returns, the
\* function that called it returns nil: the document is counted, or its error
\* is put with skipErrors.
FocusStep ==
    /\ doc[Focus] = "running"
    /\ FileStep
    /\ file = "store" /\ collection # "fits" =>
           points' = points /\ result' = "failed"
    /\ kept' = kept \union (points' \ points)
    /\ doc' = IF file' # "left" THEN doc
              ELSE [doc EXCEPT ![Focus] = IF Indexed THEN "indexed" ELSE "skipped"]
    /\ UNCHANGED <<state, attempt, pc, jobDone, listed, collection, dropped>>

ChunkerGoesOn == ChunkerStep /\ UNCHANGED jobVars

DocDeadline == Deadline /\ UNCHANGED jobVars

\* g.Wait has no error to return, so River records the job as completed.
Complete ==
    /\ pc = "index"
    /\ \A d \in listed : doc[d] \in {"indexed", "skipped"}
    /\ state' = "completed" /\ pc' = "idle"
    /\ UNCHANGED <<vars, attempt, jobDone, listed, doc, collVars>>

-----------------------------------------------------------------------------
(* What comes from outside *)

CancelJob ==
    /\ "cancel" \in JobFaults
    /\ state = "running" /\ ~jobDone
    /\ jobDone' = TRUE /\ ctxDone' = TRUE
    /\ UNCHANGED <<chunkVars, fileVars, state, attempt, pc, listed, doc, collVars>>

\* Every goroutine is gone. A batch on its way may have been stored in part.
Crash ==
    /\ "crash" \in JobFaults
    /\ pc # "idle"
    /\ AttemptFails
    /\ \E k \in chunksCount..received :
           /\ k > chunksCount => file = "store" /\ collection = "fits"
           /\ kept' = kept \union ((chunksCount + 1)..k)
    /\ ctxDone' = TRUE
    /\ chunker' = "done" /\ chunkErr' = FALSE
    /\ file' = "left" /\ result' = "failed"
    /\ UNCHANGED <<offered, last, received, chunksCount, points, listed,
                   collection, dropped>>

DropCollection ==
    /\ "drop" \in JobFaults
    /\ collection # "none"
    /\ collection' = "none" /\ dropped' = TRUE /\ kept' = {}
    /\ UNCHANGED <<vars, poolVars>>

OtherJobCreates ==
    /\ "foreign" \in JobFaults
    /\ collection = "none"
    /\ collection' \in {"fits", "unfit"}
    /\ UNCHANGED <<vars, poolVars, dropped, kept>>

JobOver == /\ state \in {"completed", "discarded"} /\ chunker \in {"none", "done"}
           /\ UNCHANGED allVars

RunIndexing == \/ List \/ Ensure \/ Create \/ StartFails
               \/ \E d \in Others : StartOther(d) \/ FinishOther(d)
               \/ StartFocus \/ SkipFocus \/ FocusStep \/ Complete

Outside == DocDeadline \/ CancelJob \/ Crash \/ DropCollection \/ OtherJobCreates

JobNext == Fetch \/ RunIndexing \/ ChunkerGoesOn \/ Outside \/ JobOver

JobSpec == JobInit /\ [][JobNext]_allVars

\* River fetches, every goroutine is scheduled, and calls end within their five
\* minutes; nothing need ever go wrong.
JobFairSpec == JobSpec /\ WF_allVars(Fetch \/ RunIndexing)
                       /\ WF_allVars(ChunkerGoesOn)

-----------------------------------------------------------------------------
JobTypeOK ==
    /\ state \in {"available", "running", "completed", "discarded"}
    /\ attempt \in 0..MaxAttempts
    /\ pc \in {"idle", "open", "ensure", "create", "index"}
    /\ jobDone \in BOOLEAN /\ dropped \in BOOLEAN
    /\ listed \subseteq Docs
    /\ doc \in [Docs -> {"waiting", "running", "indexed", "skipped"}]
    /\ collection \in {"none", "fits", "unfit"}
    /\ kept \subseteq Chunks

\* A completed job promises little: any document may be missing from its index.
\* But when one is, in whole or in part, then the listing did not find it, or
\* the log of the last attempt names it as skipped, or the index was deleted
\* after the attempt had made sure of it, or its time, the document's or the
\* job's, was up exactly between two batches. No document is lost otherwise,
\* whatever earlier attempts had stored, and whoever made the collection.
CompletedIsExplained ==
    state = "completed" /\ kept # Chunks =>
        \/ Focus \notin listed
        \/ doc[Focus] = "skipped"
        \/ dropped
        \/ chunkErr /\ ctxDone /\ WholeBatches

\* The job ends, and no goroutine outlives it: also after an early return of
\* processFile, with a chunk in its hand and nobody to take it, the chunker ends.
IndexJobEnds == <>[](/\ state \in {"completed", "discarded"}
                /\ chunker \in {"none", "done"})

-----------------------------------------------------------------------------
(* The inductive invariant behind the first, proved in IndexJobProofs.      *)

\* The pool starts with nothing, what is counted was returned as such, and what
\* the attempt has stored stays unless the collection goes.
PoolOK ==
    /\ state = "running" <=> pc # "idle"
    /\ pc = "index" \/ state = "completed" \/ doc[Focus] = "waiting"
    /\ doc[Focus] = "running" => pc = "index" /\ Focus \in listed
    /\ state = "available" => attempt < MaxAttempts
    /\ doc[Focus] = "indexed" => Indexed
    /\ doc[Focus] = "running" \/ file = "left"
    /\ state = "completed" /\ Focus \in listed =>
           doc[Focus] \in {"indexed", "skipped"}
    /\ ~dropped /\ doc[Focus] \in {"running", "indexed"} => points \subseteq kept

JobIInv == JobTypeOK /\ IInv /\ PoolOK

-----------------------------------------------------------------------------
(* What one would expect, and TLC refutes with the constants of the run: a   *)
(* job whose time is up, or whose index is deleted, completes all the same.  *)

CompletedIsIndexed == state = "completed" => kept = Chunks
=============================================================================
