---------------------------- MODULE MCEvalPages ----------------------------
(***************************************************************************)
(* A small instance of EvalPages: three runs, the second a hair better     *)
(* than the first and with the same tag, the third without HitRate@5 and   *)
(* with a tag the radar has a use for.                                     *)
(***************************************************************************)
EXTENDS EvalPages

All(v, keys) == [k \in keys |-> v]
Metrics3 == << All(1000, MetricKeys), All(1005, MetricKeys), All(2000, MetricKeys \ {"HitRate.5"}) >>
Tags3 == <<"docs", "docs", "Base">>

\* Scores and latencies at the ends of their bins.
Question(score, latency, category) == [score |-> score, latency |-> latency, category |-> category]
Questions3 == << Question(100, 1000, "how"), Question(0, 10000, "why"), Question(70, 0, "why") >>

Scene0 == [pages |-> {"list"}, runs |-> 2, room |-> 2, evaluating |-> FALSE,
           visits |-> 0, calls |-> 0, faults |-> 0]

Comparing  == [Scene0 EXCEPT !.pages = @ \cup {"compare"}, !.runs = 3, !.room = 3,
                             !.visits = 1, !.calls = 1]
Reading    == [Scene0 EXCEPT !.pages = @ \cup {"detail"}, !.runs = 1, !.evaluating = TRUE,
                             !.visits = 1, !.faults = 1]
Jumping    == [Scene0 EXCEPT !.pages = @ \cup {"detail"}, !.visits = 3]
Evaluating == [Scene0 EXCEPT !.pages = @ \cup {"create", "dashboard"}, !.runs = 1, !.calls = 1]
Failing    == [Scene0 EXCEPT !.pages = @ \cup {"dashboard"}, !.runs = 1, !.evaluating = TRUE,
                             !.faults = 2]
Deleting   == [Scene0 EXCEPT !.calls = 1, !.faults = 1]

AllScenes == {Comparing, Reading, Jumping, Evaluating, Failing, Deleting}
=============================================================================
