----------------------------- MODULE MCWordChunks -----------------------------
(* The constants of WordChunks are numbers given in the configurations. *)
EXTENDS WordChunks
=============================================================================
