----------------------------- MODULE EvalPages -----------------------------
(***************************************************************************)
(* The evaluation pages: Dashboard, RunList, EvalCreate, RunDetail and     *)
(* RunCompare (src/web/src/pages), over the runs of the API while a job    *)
(* evaluates and the user deletes.                                         *)
(*                                                                         *)
(* A page reads the cache under the keys below; the cache outlives the     *)
(* pages.  Runs are numbered in the order they are created.  The server    *)
(* (src/internal/api, River, src/internal/workflow) is external.  A page   *)
(* that throws while it renders takes the whole application down, for      *)
(* there is no error boundary; only a reload helps.                        *)
(*                                                                         *)
(* A behaviour is one scene: the pages the user moves between, the runs    *)
(* there are at first and may be, whether a job of somebody else waits to  *)
(* evaluate, and the bounds on the pages of runs and comparisons gone to   *)
(* (visits), on the user's POST and DELETE requests (calls) and on the     *)
(* requests that get no answer (faults).  The pages of different scenes    *)
(* meet only in the list, which is in all of them.                         *)
(***************************************************************************)
EXTENDS RunViews, QueryCache, Forms

CONSTANTS
    MaxRuns,        \* runs that may exist
    MaxRows,        \* questions of an evaluation
    MaxCompare,     \* targets of one comparison (5 in the code, on both sides)
    ListLimit,      \* runs on the one page of runs that is fetched (20 in the code)
    PageSize,       \* questions on a page of RunDetail (50 in the code)
    MetricsOf,      \* MetricsOf[r]: what run r measures
    TagOf,          \* TagOf[r]: its tag, cut as the radar cuts it
    Questions,      \* the questions of an evaluation, in their order
    Refused,        \* the answer 400 or 404
    NoRun,
    Scenes          \* what happens in a behaviour, and its bounds (see below)

Runs == 1 .. MaxRuns

\* JudgeAnswer lets no score outside 0 .. 1 pass; no average is negative.
ASSUME EvalPagesAssumption ==
    /\ MaxRuns \in Nat /\ MaxRows \in Nat /\ MaxCategories \in Nat \ {0}
    /\ MaxCompare \in Nat \ {0} /\ ListLimit \in Nat \ {0} /\ PageSize \in Nat \ {0}
    /\ Questions \in Seq(Range(Questions)) /\ Len(Questions) = MaxRows
    /\ \A q \in Range(Questions) : q.score \in 0 .. 100 /\ q.latency \in Nat
    /\ DOMAIN MetricsOf = Runs /\ DOMAIN TagOf = Runs
    /\ \A r \in Runs : \A key \in DOMAIN MetricsOf[r] : MetricsOf[r][key] \in Nat
    /\ NoRun \notin Runs /\ Refused # NoData
    /\ \A s \in Scenes : /\ "list" \in s.pages /\ s.runs \in 0 .. s.room /\ s.room \in 0 .. MaxRuns
                         /\ s.visits \in Nat /\ s.calls \in Nat /\ s.faults \in Nat

VARIABLES
    scene,
    created,        \* runs 1 .. created have been created
    gone,           \* those that were deleted
    rows,           \* rows[r]: results stored for run r
    measured,       \* the runs whose metrics are written
    job,            \* the evaluation under way: its state and its run
    page,           \* what the route shows
    query,          \* the cache
    baseId, selectedIds, deleteTarget,  \* RunList
    detailPage, expanded,               \* RunDetail
    jumped,         \* keys asked for by a jump since the application was loaded (ghost)
    baseAdded,      \* choices of a base that added to the selection (ghost)
    calls, sentCalls, visits, seen, faults

serverVars == <<scene, created, gone, rows, measured, job>>
listVars   == <<baseId, selectedIds, deleteTarget, baseAdded>>
detailVars == <<detailPage, expanded, jumped>>
boundVars  == <<sentCalls, visits, seen, faults>>
vars == <<serverVars, page, query, listVars, detailVars, calls, boundVars>>

-----------------------------------------------------------------------------
(* Keys of the cache, and the queries a page uses.                         *)

ListKey == <<"eval-runs">>
JobsKey == <<"workflows">>
DetailKey(r, p) == <<"eval-run", r, p>>
CompareKey(b, targets) == <<"eval-compare", b, targets>>

At(name) == page[1] = name
DetailPage(r) == <<"detail", r>>
ComparePage(b, targets) == <<"compare", b, targets>>

UsedBy(p, dp) ==
    CASE p[1] = "dashboard" -> {ListKey, JobsKey}
      [] p[1] = "list"      -> {ListKey}
      [] p[1] = "create"    -> {}
      [] p[1] = "detail"    -> {DetailKey(p[2], dp)}
      [] p[1] = "compare"   -> {CompareKey(p[2], p[3])}

Active(k) == k \in UsedBy(page, detailPage)

Cached(q, k) == IF k \in DOMAIN q THEN q[k] ELSE NewQuery
Q(k) == Cached(query, k)

Updated(q, k, new) == [x \in DOMAIN q \cup {k} |-> IF x = k THEN new ELSE q[x]]

\* The queries of page p at page dp of its questions are mounted.
MountedQueries(q, p, dp) ==
    [k \in DOMAIN q \cup UsedBy(p, dp) |->
        IF k \in UsedBy(p, dp) THEN Mounted(Cached(q, k)) ELSE q[k]]

-----------------------------------------------------------------------------
(* What the API answers.                                                   *)

Exists(r) == r <= created /\ r \notin gone
Metrics(r) == IF r \in measured THEN MetricsOf[r] ELSE <<>>

Newest == SelectSeq([i \in 1 .. created |-> created + 1 - i], Exists)

fetchRuns == [runs  |-> SubSeq(Newest, 1, IF ListLimit < Len(Newest) THEN ListLimit ELSE Len(Newest)),
              total |-> Len(Newest)]

\* No row at all is sent as null, which is the empty sequence here.
fetchRunDetail(r, p) ==
    IF ~Exists(r) THEN Refused
    ELSE LET last == IF p * PageSize < rows[r] THEN p * PageSize ELSE rows[r]
         IN  [questions |-> SubSeq(Questions, (p - 1) * PageSize + 1, last),
              total |-> rows[r], metrics |-> Metrics(r)]

compareRuns(b, targets) ==
    IF Cardinality(targets) > MaxCompare \/ \E r \in targets \cup {b} : ~Exists(r)
    THEN Refused
    ELSE [r \in targets \cup {b} |-> Metrics(r)]

AskedStates == {"available", "running"}
fetchJobs == [states |-> {job.state} \cap AskedStates]

Answer(k) ==
    CASE k = ListKey               -> fetchRuns
      [] k = JobsKey               -> fetchJobs
      [] k[1] = "eval-run"         -> fetchRunDetail(k[2], k[3])
      [] k[1] = "eval-compare"     -> compareRuns(k[2], k[3])

-----------------------------------------------------------------------------
(* What the pages show.                                                    *)

ListedRuns == IF Q(ListKey).data = NoData THEN <<>> ELSE Q(ListKey).data.runs
ListedIds == Range(ListedRuns)

\* Chosen for a comparison with the base.
compareIds == selectedIds \ {baseId}

DetailQuery == Q(DetailKey(page[2], detailPage))
CompareQuery == Q(CompareKey(page[2], page[3]))

\* Faulty variant: the dashboard waits for data, as RunDetail does.
DashboardLacksData == \E k \in {ListKey, JobsKey} : Q(k).data = NoData

\* Of the five queries of the page those of this module: the others are lists of ListPages.
DashboardLoading == \E k \in {ListKey, JobsKey} : Loading(Q(k))

DashboardView ==
    IF DashboardLoading THEN "skeleton" ELSE "panels"

RunListView == IF Loading(Q(ListKey)) THEN "skeleton"
               ELSE IF ListedRuns = <<>> THEN "No evaluations yet" ELSE "table"

\* questions.map throws when the run is there and its questions are null.
RunDetailView == IF DetailQuery.data = NoData THEN "skeleton"
                 ELSE IF DetailQuery.data.questions = <<>> THEN "throws" ELSE "run"

\* The base is looked for among the runs of the answer.
RunCompareView == IF CompareQuery.data = NoData THEN "skeleton"
                  ELSE IF page[2] \notin DOMAIN CompareQuery.data THEN "Base run not found."
                  ELSE "comparison"

View == CASE At("dashboard") -> DashboardView
          [] At("list")      -> RunListView
          [] At("create")    -> "form"
          [] At("detail")    -> RunDetailView
          [] At("compare")   -> RunCompareView

Crashed == View = "throws"

\* The panels of the dashboard; a job is its state here.
polledJobs  == IF Q(JobsKey).data = NoData THEN {} ELSE Q(JobsKey).data.states
runningJobs == polledJobs \cap {"running", "retrying", "available"}
statCard    == IF Q(ListKey).data = NoData THEN 0 ELSE Q(ListKey).data.total
trendData   == Reverse(ListedRuns)

TrendsPanel == IF trendData = <<>> THEN "No evaluation runs yet" ELSE "chart"

ActiveJobsPanel == IF runningJobs = {} THEN "No active jobs" ELSE "jobs"

RecentJobsPanel ==
    [badge |-> IF runningJobs # {} THEN "active" ELSE "All complete",
     body  |-> IF polledJobs = {} THEN "No jobs recorded yet" ELSE "jobs"]

-----------------------------------------------------------------------------
JobStates == {"none", "available", "running", "retrying", "completed", "failed"}

\* There are runs already, perhaps of a job that failed before it stored anything.
Init ==
    /\ scene \in Scenes
    /\ created = scene.runs /\ gone = {}
    /\ \E bare \in SUBSET {1} :
          rows = [r \in Runs |-> IF r <= created /\ r \notin bare THEN MaxRows ELSE 0]
    /\ measured = {r \in Runs : rows[r] > 0}
    /\ job = [state |-> IF scene.evaluating THEN "available" ELSE "none", run |-> NoRun]
    /\ page = <<"list">>
    /\ query = MountedQueries(<<>>, page, 1)
    /\ baseId = NoRun /\ selectedIds = {} /\ deleteTarget = NoRun /\ baseAdded = {}
    /\ detailPage = 1 /\ expanded = {} /\ jumped = {}
    /\ calls = {} /\ sentCalls = 0 /\ visits = 0 /\ seen = {} /\ faults = 0

-----------------------------------------------------------------------------
(* The user moves.  What a page keeps in useState goes with it.            *)

Visit(p, q) ==
    /\ page' = p
    /\ query' = MountedQueries(q, p, 1)
    /\ baseId' = NoRun /\ selectedIds' = {} /\ deleteTarget' = NoRun /\ baseAdded' = {}
    /\ detailPage' = 1 /\ expanded' = {}

FormLeft == calls' = {[c EXCEPT !.here = FALSE] : c \in calls}

GoTo(name) ==
    /\ ~Crashed /\ ~At(name) /\ name \in scene.pages
    /\ Visit(<<name>>, query)
    /\ FormLeft
    /\ UNCHANGED <<serverVars, jumped, boundVars>>

ShowsTable == At("list") /\ RunListView = "table"

\* The tag of a row, and "View Details" in its menu.
OpenRun(r) ==
    /\ "detail" \in scene.pages
    /\ ShowsTable /\ r \in ListedIds /\ visits < scene.visits
    /\ Visit(DetailPage(r), query)
    /\ visits' = visits + 1 /\ seen' = seen \cup {r}
    /\ UNCHANGED <<serverVars, jumped, calls, sentCalls, faults>>

(* The browser's history leads from one run to another: the same component *)
(* with another id, which keeps its page of questions.                     *)
JumpTo(r) ==
    /\ At("detail") /\ ~Crashed /\ r \in seen \ {page[2]} /\ visits < scene.visits
    /\ page' = DetailPage(r)
    /\ query' = MountedQueries(query, DetailPage(r), detailPage)
    /\ jumped' = jumped \cup {DetailKey(r, detailPage)}
    /\ visits' = visits + 1
    /\ UNCHANGED <<serverVars, listVars, detailPage, expanded, calls, sentCalls, seen, faults>>

\* After a crash: the same page in a new application; requests under way are given up.
Reload ==
    /\ Crashed
    /\ Visit(page, <<>>)
    /\ jumped' = {} /\ calls' = {}
    /\ UNCHANGED <<serverVars, boundVars>>

-----------------------------------------------------------------------------
(* RunList                                                                 *)

OnTable == /\ ShowsTable /\ deleteTarget = NoRun
           /\ UNCHANGED <<serverVars, page, query, detailVars, boundVars>>

\* Faulty variant: the comparison may hold one more.
RoomForOneMore(selected) == Cardinality(selected) <= MaxCompare

RoomFor(selected) == Cardinality(selected) < MaxCompare

\* A selection that is not compared changes nothing else.
WillCompare == "compare" \in scene.pages /\ visits < scene.visits

\* Faulty variant: the checkbox of the base works.
NeverDisabled(r) == FALSE

\* The checkbox of the base is disabled.
Disabled(r) == r \in selectedIds /\ r = baseId

toggleSelect(r) ==
    /\ OnTable /\ r \in ListedIds /\ WillCompare
    /\ ~Disabled(r)
    /\ IF r \in selectedIds
       THEN selectedIds' = selectedIds \ {r} /\ baseAdded' = baseAdded \ {r}
       ELSE RoomFor(selectedIds) /\ selectedIds' = selectedIds \cup {r} /\ UNCHANGED baseAdded
    /\ UNCHANGED <<baseId, deleteTarget, calls>>

handleBaseChange(r) ==
    /\ OnTable /\ r \in ListedIds /\ r # baseId /\ WillCompare
    /\ baseId' = r
    /\ selectedIds' = selectedIds \cup {r}
    /\ baseAdded' = IF r \in selectedIds THEN baseAdded ELSE baseAdded \cup {r}
    /\ UNCHANGED <<deleteTarget, calls>>

PickDelete(r) ==
    /\ OnTable /\ r \in ListedIds
    /\ deleteTarget' = r
    /\ UNCHANGED <<baseId, selectedIds, baseAdded, calls>>

CloseDialog(confirmed) ==
    /\ At("list") /\ RunListView # "skeleton" /\ deleteTarget # NoRun
    /\ deleteTarget' = NoRun
    /\ IF confirmed
       THEN /\ sentCalls < scene.calls /\ sentCalls' = sentCalls + 1
            /\ calls' = calls \cup {[op |-> "delete", run |-> deleteTarget, phase |-> "sent",
                                     refusal |-> Accept, here |-> FALSE]}
       ELSE UNCHANGED <<calls, sentCalls>>
    /\ UNCHANGED <<serverVars, page, query, baseId, selectedIds, baseAdded, detailVars,
                    visits, seen, faults>>

\* The button is there with a base and at least one other run, whatever has become of them.
Compare ==
    /\ At("list") /\ RunListView # "skeleton" /\ deleteTarget = NoRun /\ WillCompare
    /\ baseId # NoRun /\ compareIds # {}
    /\ Visit(ComparePage(baseId, compareIds), query)
    /\ visits' = visits + 1
    /\ UNCHANGED <<serverVars, jumped, calls, sentCalls, seen, faults>>

-----------------------------------------------------------------------------
(* RunDetail                                                               *)

ShowsRun == At("detail") /\ RunDetailView = "run"

ToPage(p) ==
    /\ detailPage' = p
    /\ query' = MountedQueries(query, page, p)
    /\ UNCHANGED <<serverVars, page, listVars, expanded, jumped, calls, boundVars>>

HasPager == DetailQuery.data.total > PageSize

Previous == ShowsRun /\ HasPager /\ detailPage > 1 /\ ToPage(detailPage - 1)

\* Faulty variant: Next is not disabled on a last page that is full.
MoreThanShown == (detailPage - 1) * PageSize < DetailQuery.data.total

HasNext == detailPage * PageSize < DetailQuery.data.total

NextQuestions == ShowsRun /\ HasPager /\ HasNext /\ ToPage(detailPage + 1)

\* The row that is open is known by its place, on whatever page.
setExpanded(i) ==
    /\ ShowsRun /\ i \in DOMAIN DetailQuery.data.questions
    /\ expanded' = IF expanded = {i} THEN {} ELSE {i}
    /\ UNCHANGED <<serverVars, page, query, listVars, detailPage, jumped, calls, boundVars>>

-----------------------------------------------------------------------------
(* EvalCreate                                                              *)

\* What can be filled in: the fields that decide what happens.
EvalForms ==
    {[RoleProviderChange(NewEvalForm, role, p) EXCEPT
        !.indexTag = i, !.datasetPath = d, !.tag = t, !.ksInput = ks, !.batchSize = b] :
     role \in {"llm", "embed", "judge"}, p \in {"openai", "lmstudio"},
     i, d, t \in {Blank, Text}, ks \in {<<1, 3, 5>>, <<NaN, 0>>}, b \in {0, 20}}

\* A form without a K value is not sent.
EvalOutcomes ==
    {EvalRefusal(EvalPayload(f)) : f \in {f \in EvalForms : EvalFormValid(f) /\ EvalSubmits(f)}}

SubmitEval ==
    /\ At("create") /\ job.state = "none" /\ ~\E c \in calls : c.op = "create"
    /\ sentCalls < scene.calls /\ sentCalls' = sentCalls + 1
    /\ \E refusal \in EvalOutcomes :
          calls' = calls \cup {[op |-> "create", run |-> NoRun, phase |-> "sent",
                                refusal |-> refusal, here |-> TRUE]}
    /\ UNCHANGED <<serverVars, page, query, listVars, detailVars, visits, seen, faults>>

-----------------------------------------------------------------------------
(* The cache.                                                              *)

OnlyQuery(k, new) ==
    /\ query' = Updated(query, k, new)
    /\ UNCHANGED <<serverVars, page, listVars, detailVars, calls, sentCalls, visits, seen>>

Read(k) ==
    /\ Q(k).wire = Sent
    /\ OnlyQuery(k, Answered(Q(k), Answer(k)))
    /\ UNCHANGED faults

Arrives(k) ==
    /\ ~Crashed /\ HasAnswer(Q(k))
    /\ OnlyQuery(k, IF Q(k).wire = Refused THEN Errored(Q(k), Active(k)) ELSE Succeeded(Q(k)))
    /\ UNCHANGED faults

FetchFails(k) ==
    /\ ~Crashed /\ Fetching(Q(k)) /\ faults < scene.faults
    /\ OnlyQuery(k, Errored(Q(k), Active(k)))
    /\ faults' = faults + 1

\* While a page shows it the age of a query has no effect.
GetsOld(k) ==
    /\ ~Crashed /\ ~Active(k) /\ Q(k).data # NoData /\ ~Q(k).stale
    /\ OnlyQuery(k, Aged(Q(k)))
    /\ UNCHANGED faults

\* Faulty variant: a job that waits for a worker is not watched.
hasStarted == "running" \in polledJobs

\* refetchInterval of useJobs: every 5 seconds while a job it knows goes on.
hasRunning == polledJobs \ {"completed", "failed"} # {}

Poll ==
    /\ At("dashboard") /\ hasRunning /\ ~Fetching(Q(JobsKey))
    /\ OnlyQuery(JobsKey, Fetch(Q(JobsKey)))
    /\ UNCHANGED faults

-----------------------------------------------------------------------------
(* The user's requests.                                                    *)

Done(c) == calls' = (calls \ {c}) \cup {[c EXCEPT !.phase = "done"]}
Fails(c) == calls' = calls \ {c}

InsertJob(c) ==
    /\ c.op = "create"
    /\ IF c.refusal = Accept
       THEN job' = [job EXCEPT !.state = "available"] /\ Done(c)
       ELSE UNCHANGED job /\ Fails(c)
    /\ UNCHANGED <<scene, created, gone, rows, measured>>

RemoveRun(c) ==
    /\ c.op = "delete"
    /\ IF Exists(c.run)
       THEN gone' = gone \cup {c.run} /\ rows' = [rows EXCEPT ![c.run] = 0] /\ Done(c)
       ELSE UNCHANGED <<gone, rows>> /\ Fails(c)
    /\ UNCHANGED <<scene, created, measured, job>>

CarryOut(c) ==
    /\ c.phase = "sent"
    /\ InsertJob(c) \/ RemoveRun(c)
    /\ UNCHANGED <<page, query, listVars, detailVars, boundVars>>

LoseCall(c) ==
    /\ faults < scene.faults /\ faults' = faults + 1
    /\ Fails(c)
    /\ UNCHANGED <<serverVars, page, query, listVars, detailVars, sentCalls, visits, seen>>

\* useCreateEval invalidates the jobs; useDeleteEvalRun every list of runs.
Invalidates(op) == IF op = "create" THEN JobsKey ELSE ListKey

Settle(c) ==
    LET k == Invalidates(c.op)
        q == IF k \in DOMAIN query THEN Updated(query, k, Invalidated(Q(k), Active(k))) ELSE query
    IN  /\ ~Crashed /\ c.phase = "done"
        /\ IF c.here
           THEN Visit(<<"list">>, q)
           ELSE query' = q /\ UNCHANGED <<page, listVars, detailPage, expanded>>
        /\ calls' = calls \ {c}
        /\ UNCHANGED <<serverVars, jumped, boundVars>>

-----------------------------------------------------------------------------
(* The evaluation (see EvalJob): an attempt creates a run and fills it.    *)

EvalStep == UNCHANGED <<scene, gone, page, query, listVars, detailVars, calls, boundVars>>

\* A retry removes the rows its checkpoint names, then makes a run of its own.
CleanUp ==
    /\ job.state = "retrying" /\ rows[job.run] > 0
    /\ rows' = [rows EXCEPT ![job.run] = 0]
    /\ UNCHANGED <<created, measured, job>> /\ EvalStep

CreateRun ==
    /\ job.state \in {"available", "retrying"} /\ created < scene.room
    /\ created' = created + 1
    /\ job' = [state |-> "running", run |-> created + 1]
    /\ UNCHANGED <<rows, measured>> /\ EvalStep

StoreRows ==
    /\ job.state = "running" /\ Exists(job.run)
    /\ \E n \in rows[job.run] + 1 .. MaxRows : rows' = [rows EXCEPT ![job.run] = n]
    /\ UNCHANGED <<created, measured, job>> /\ EvalStep

EndEval(state) ==
    /\ job.state = "running" /\ (state = "completed" => rows[job.run] > 0)
    /\ job' = [job EXCEPT !.state = state]
    /\ measured' = IF state = "completed" THEN measured \cup {job.run} ELSE measured
    /\ UNCHANGED <<created, rows>> /\ EvalStep

RunEval == CleanUp \/ CreateRun \/ StoreRows
           \/ \E state \in {"completed", "retrying", "failed"} : EndEval(state)

-----------------------------------------------------------------------------
User ==
    \/ \E name \in {"dashboard", "list", "create"} : GoTo(name)
    \/ \E r \in Runs : OpenRun(r)
    \/ \E r \in Runs : JumpTo(r)
    \/ Reload
    \/ \E r \in Runs : toggleSelect(r)
    \/ \E r \in Runs : handleBaseChange(r)
    \/ \E r \in Runs : PickDelete(r)
    \/ \E confirmed \in BOOLEAN : CloseDialog(confirmed)
    \/ Compare
    \/ Previous
    \/ NextQuestions
    \/ \E i \in 1 .. PageSize : setExpanded(i)
    \/ SubmitEval

Client ==
    \/ \E k \in DOMAIN query : Arrives(k)
    \/ \E k \in DOMAIN query : GetsOld(k)
    \/ Poll
    \/ \E c \in calls : Settle(c)

Server ==
    \/ \E k \in DOMAIN query : Read(k)
    \/ \E k \in DOMAIN query : FetchFails(k)
    \/ \E c \in calls : CarryOut(c)
    \/ \E c \in calls : LoseCall(c)
    \/ RunEval

Next == User \/ Client \/ Server

(* Answers come: to the queries several pages share, and to the one query  *)
(* of the run or the comparison that is shown; so does the timer.          *)
Own == UsedBy(page, detailPage) \ {ListKey, JobsKey}
Fairness ==
    /\ \A k \in {ListKey, JobsKey} : WF_vars(Read(k)) /\ WF_vars(Arrives(k))
    /\ WF_vars(\E k \in Own : Read(k))
    /\ WF_vars(\E k \in Own : Arrives(k))
    /\ WF_vars(Poll)

Spec == Init /\ [][Next]_vars /\ Fairness

-----------------------------------------------------------------------------
(* Types; a base is always among the selected runs.                        *)
TypeOK ==
    /\ scene \in Scenes
    /\ created \in 0 .. MaxRuns /\ gone \subseteq 1 .. created
    /\ rows \in [Runs -> 0 .. MaxRows] /\ measured \subseteq 1 .. created
    /\ job.state \in JobStates /\ job.run \in Runs \cup {NoRun}
    /\ selectedIds \subseteq Runs /\ baseAdded \subseteq selectedIds
    /\ baseId = NoRun \/ baseId \in selectedIds
    /\ deleteTarget \in Runs \cup {NoRun}
    /\ detailPage \in {1} \cup 2 .. MaxRows /\ expanded \in {{}} \cup {{i} : i \in 1 .. PageSize}
    /\ \A c \in calls : /\ c.op \in {"create", "delete"} /\ c.phase \in {"sent", "done"}
                        /\ c.run \in Runs \cup {NoRun} /\ c.here \in BOOLEAN
    /\ \A k \in DOMAIN query : query[k].data # Refused

(* A comparison asks for more runs than the API compares only if one that  *)
(* was the base before is still among its targets: the checkboxes count,   *)
(* the choice of a base does not.                                          *)
OverLimitOnlyByFormerBase ==
    Cardinality(compareIds) > MaxCompare => baseAdded \ {baseId} # {}

(* The pager of RunDetail never leads past the last question: a run whose  *)
(* page throws had no result at all when it was read, or was asked for     *)
(* that page by a jump from another run, perhaps long before: what a jump  *)
(* has brought stays in the cache, and the pager may lead to it later.     *)
PagingNeverCrashes ==
    Crashed => DetailQuery.data.total = 0 \/ DetailKey(page[2], detailPage) \in jumped

(* Every question of the page is in exactly one bar of each distribution,  *)
(* except those of categories the chart has no room for, and of these none *)
(* has more questions than one that is shown; so no chart claims there are *)
(* no questions.  The numbers of the rows lie within the pager's total.    *)
EveryQuestionIsCounted ==
    At("detail") /\ View = "run" =>
        LET qs == DetailQuery.data.questions
            categories == buildCategoryBreakdown(qs)
        IN  /\ Total(buildLatencyDist(qs)) = Len(qs)
            /\ Total(buildScoreDist(qs)) = Len(qs)
            /\ Cardinality(Categories(qs)) <= MaxCategories =>
                   Total([cat \in DOMAIN categories |-> categories[cat].count]) = Len(qs)
            /\ \A left \in Categories(qs) \ DOMAIN categories, shown \in DOMAIN categories :
                   Cardinality(InCategory(qs, left)) <= categories[shown].count
            /\ \A chart \in Range(Charts(qs)) : chart = "bars"
            /\ \A row \in Range(QuestionRows(qs, detailPage, PageSize, expanded)) :
                  row.number <= DetailQuery.data.total

(* The text, the bar and the arrow of a difference never contradict one    *)
(* another, and a target whose metric is missing is never shown as better  *)
(* where more is better (where less is, its 0 is).  A line of the radar is *)
(* its run's own unless another line has the same label.                   *)
SignsAgree(base, comp, better) ==
    LET color == deltaColor(base, comp, better)
        bar   == deltaBar(base, comp, better)
    IN  /\ color = "muted" <=> formatDelta(base, comp) = "0"
        /\ color = "success" => bar.color = "success" /\ deltaArrow(base, comp, better) = "up"
        /\ color = "destructive" => bar.color = "destructive" /\ deltaArrow(base, comp, better) = "down"
        /\ (bar.side = "left") <=> comp > base

ComparisonIsCoherent ==
    At("compare") /\ View = "comparison" =>
        LET metrics == CompareQuery.data
            base    == page[2]
            targets == SetToSeq(page[3])
            radar   == buildRadarData(metrics, TagOf, base, targets)
        IN  \A t \in page[3] :
              /\ \A row \in comparisonRows :
                    LET b == getMetric(metrics[base], row.key)
                        v == getMetric(metrics[t], row.key)
                    IN  /\ SignsAgree(b, v, row.higherIsBetter)
                        /\ row.key \notin DOMAIN metrics[t] /\ deltaColor(b, v, row.higherIsBetter) = "success"
                              => ~row.higherIsBetter
              /\ \A m \in RADAR_METRICS :
                    \/ RadarLine(radar, TagOf[t])[m] = getMetric(metrics[t], m)
                    \/ \E u \in page[3] \ {t} : TagOf[u] = TagOf[t]

(* Whatever the user, the evaluation and the connection do, no page keeps  *)
(* its skeleton for ever, but for a run or a comparison the API refuses or *)
(* whose request got no answer: these two pages never say so.              *)
Hopeless ==
    LET q == IF At("detail") THEN DetailQuery ELSE CompareQuery
    IN  /\ At("detail") \/ At("compare")
        /\ q.data = NoData /\ ~Fetching(q)
        /\ \/ faults > 0
           \/ At("detail") /\ ~Exists(page[2])
           \/ At("compare") /\ compareRuns(page[2], page[3]) = Refused

PagesSettle == (View = "skeleton") ~> (View # "skeleton" \/ Hopeless)

(* A dashboard that is left open ends by showing no active job after the   *)
(* evaluation has ended, and its panels agree on it: the poll does not     *)
(* stop with the job still on the page, whatever answers it misses.        *)
EvaluationEnded == job.state \in {"completed", "failed"}
ShowsIdle == /\ ActiveJobsPanel = "No active jobs"
             /\ RecentJobsPanel = [badge |-> "All complete", body |-> "No jobs recorded yet"]
DashboardGoesIdle ==
    (EvaluationEnded /\ At("dashboard")) ~> (~EvaluationEnded \/ ~At("dashboard") \/ ShowsIdle)

(* The only complaints of the API about an evaluation the browser sends    *)
(* are the two selections nothing requires.                                *)
RefusedOnlyForTheSelects ==
    \A c \in calls : c.refusal \in {Accept, "index_tag is required", "dataset_path is required"}
=============================================================================
