---------------------------- MODULE MCQdrantStore ----------------------------
(* Model values for the runs of QdrantStore. *)
EXTENDS QdrantStore

CONSTANTS c1, c2

TwoCallers == {c1, c2}
=============================================================================
