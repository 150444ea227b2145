----------------------------- MODULE MCIndexJob -----------------------------
(* Fault sets for the runs of IndexJob. *)
EXTENDS IndexJob

CONSTANTS d1, d2, d3

AllFaults == FaultKinds
AllJobFaults == JobFaultKinds
OtherDocs == {d2, d3}
=============================================================================
