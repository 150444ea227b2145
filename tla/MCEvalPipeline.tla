--------------------------- MODULE MCEvalPipeline ---------------------------
(* Model values and fault sets for the runs of EvalPipeline. *)
EXTENDS EvalPipeline

CONSTANTS w1, w2

MCWorkers == {w1, w2}

AllFaults == FaultKinds
DBFaults  == {"db"}
=============================================================================
