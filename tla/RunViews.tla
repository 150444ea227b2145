------------------------------ MODULE RunViews ------------------------------
(***************************************************************************)
(* What the evaluation pages compute from the runs they are sent: the      *)
(* cells of RunList, the signs of RunCompare, the distributions of         *)
(* RunDetail and the panels of Dashboard (src/web/src/pages).              *)
(*                                                                         *)
(* The metrics of a run are a function from the keys it has to numbers of  *)
(* ten-thousandths: none before the run has ended, and no HitRate.5 when   *)
(* 5 is not among its K values.                                            *)
(***************************************************************************)
EXTENDS Integers, Sequences, FiniteSets, SequencesExt, FiniteSetsExt

CONSTANT MaxCategories  \* bars of the category chart (8 in the code)

-----------------------------------------------------------------------------
(* RunCompare                                                              *)

ComparisonRow(key, higherIsBetter) == [key |-> key, higherIsBetter |-> higherIsBetter]

comparisonRows ==
    {ComparisonRow(k, TRUE)  : k \in {"HitRate.5", "MRR", "NDCG.5", "AvgAnswerScore"}} \cup
    {ComparisonRow(k, FALSE) : k \in {"AvgLatencyMs", "AvgPromptTokens", "AvgCompletionTokens"}}

MetricKeys == {row.key : row \in comparisonRows}

\* What is missing is compared as 0.
getMetric(metrics, key) == IF key \in DOMAIN metrics THEN metrics[key] ELSE 0

\* Less than a thousandth apart.
Close(base, comp) == comp - base \in -9 .. 9

formatDelta(base, comp) == IF Close(base, comp) THEN "0" ELSE IF comp >= base THEN "+" ELSE "-"

deltaColor(base, comp, higherIsBetter) ==
    IF Close(base, comp) THEN "muted"
    ELSE IF (comp > base) = higherIsBetter THEN "success" ELSE "destructive"

\* The bar of "Metric Delta vs Base": its colour, and the side of the middle it is on.
deltaBar(base, comp, higherIsBetter) ==
    IF comp = base THEN [color |-> "none", side |-> "none"]
    ELSE [color |-> IF (comp > base) = higherIsBetter THEN "success" ELSE "destructive",
          side  |-> IF comp > base THEN "left" ELSE "right"]

\* Faulty variant: the arrow tells the direction of the number.
directionArrow(base, comp, higherIsBetter) ==
    IF comp > base THEN "up" ELSE IF comp < base THEN "down" ELSE "none"

deltaArrow(base, comp, higherIsBetter) ==
    IF comp > base THEN (IF higherIsBetter THEN "up" ELSE "down")
    ELSE IF comp < base THEN (IF higherIsBetter THEN "down" ELSE "up")
    ELSE "none"

RADAR_METRICS == {"HitRate.5", "MRR", "NDCG.5", "AvgAnswerScore"}

(* The data of the radar, by label: the base's, then each target's over    *)
(* it, so that the last with a label is drawn.  A label is the tag, cut to *)
(* fourteen characters; the cut tags are the tags here.                    *)
Drawn(label, tags, base, targets) ==
    LET labelled == {i \in DOMAIN targets : tags[targets[i]] = label}
    IN  IF labelled = {} THEN base ELSE targets[Max(labelled)]

buildRadarData(metrics, tags, base, targets) ==
    [m \in RADAR_METRICS |->
        [label \in {"Base"} \cup {tags[targets[i]] : i \in DOMAIN targets} |->
            getMetric(metrics[Drawn(label, tags, base, targets)], m)]]

\* The line of the radar with a label.
RadarLine(data, label) == [m \in RADAR_METRICS |-> data[m][label]]

-----------------------------------------------------------------------------
(* RunDetail: a question is [score, latency, category], the score in       *)
(* tenths and the latency in milliseconds.                                 *)

Floor(score) == score \div 10

\* The bin of a score in 0 .. 100: 0-1, 1-2, ... and 9-10 with 10 itself.
ScoreBin(score) == IF Floor(score) < 9 THEN Floor(score) ELSE 9

buildScoreDist(questions) ==
    [bin \in 0 .. 9 |-> Cardinality({i \in DOMAIN questions :
                              /\ questions[i].score \in 0 .. 100
                              /\ ScoreBin(questions[i].score) = bin})]

\* Where the buckets start, in milliseconds; the last has no end.
Buckets == <<0, 1000, 3000, 5000, 10000>>

\* Faulty variant: a latency where a bucket starts is outside it.
StrictlyInBucket(latency, b) ==
    Buckets[b] < latency /\ (b < Len(Buckets) => latency < Buckets[b + 1])

InBucket(latency, b) ==
    Buckets[b] <= latency /\ (b < Len(Buckets) => latency < Buckets[b + 1])

buildLatencyDist(questions) ==
    [b \in DOMAIN Buckets |->
        Cardinality({i \in DOMAIN questions : InBucket(questions[i].latency, b)})]

InCategory(questions, cat) == {i \in DOMAIN questions : questions[i].category = cat}
Categories(questions) == {questions[i].category : i \in DOMAIN questions}

\* sort: the larger category first, of equal ones the one that was met first.
Ahead(questions, a, b) ==
    LET A == InCategory(questions, a)
        B == InCategory(questions, b)
    IN  \/ Cardinality(A) > Cardinality(B)
        \/ Cardinality(A) = Cardinality(B) /\ Min(A) < Min(B)

AheadOf(questions, cat) == {other \in Categories(questions) : Ahead(questions, other, cat)}

buildCategoryBreakdown(questions) ==
    [cat \in {c \in Categories(questions) : Cardinality(AheadOf(questions, c)) < MaxCategories} |->
        [count |-> Cardinality(InCategory(questions, cat)),
         totalScore |-> MapThenSumSet(LAMBDA i : questions[i].score, InCategory(questions, cat))]]

\* The sum of a distribution.
Total(dist) == MapThenSumSet(LAMBDA k : dist[k], DOMAIN dist)

\* The three charts over the questions of the page; the second is drawn without any data, too.
Charts(questions) ==
    [score    |-> IF Total(buildScoreDist(questions)) = 0 THEN "No data" ELSE "bars",
     latency  |-> "bars",
     category |-> IF DOMAIN buildCategoryBreakdown(questions) = {} THEN "No data" ELSE "bars"]

scoreColor(score) ==
    IF score >= 70 THEN "success" ELSE IF score >= 40 THEN "warning" ELSE "destructive"

\* The table of page p, size to a page; expanded is the place of the open row, if any.
QuestionRows(questions, p, size, expanded) ==
    [i \in DOMAIN questions |->
        [number |-> (p - 1) * size + i, color |-> scoreColor(questions[i].score),
         open |-> i \in expanded]]

Dash == "-"

MetricCards(metrics) ==
    [m \in RADAR_METRICS |-> IF m \in DOMAIN metrics THEN "number" ELSE Dash]

-----------------------------------------------------------------------------
(* RunList: the cells of a run.                                            *)

MetricBadge(metrics, key) == IF key \in DOMAIN metrics THEN "number" ELSE Dash

RunCells(metrics) ==
    [key \in {"HitRate.5", "MRR", "NDCG.5", "AvgAnswerScore"} |-> MetricBadge(metrics, key)]
=============================================================================
