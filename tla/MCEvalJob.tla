------------------------------ MODULE MCEvalJob ------------------------------
(* The constants of EvalJob are numbers given in the configurations. *)
EXTENDS EvalJob
=============================================================================
