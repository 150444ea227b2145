---------------------------- MODULE MCListPages ----------------------------
(***************************************************************************)
(* Small instances of ListPages.                                           *)
(***************************************************************************)
EXTENDS ListPages

CONSTANTS a, b

AllResources == {"artifacts", "indexes", "datasets"}
OnlyIndexes  == {"indexes"}
OnlyDatasets == {"datasets"}

\* The table is worked where there are several rows and no jobs.
Calls  == [r \in Resources |-> IF r = "datasets" THEN 2 ELSE 1]
Faults == [r \in Resources |-> IF r = "indexes" THEN 1 ELSE 0]
NoFaults == [r \in Resources |-> 0]
=============================================================================
