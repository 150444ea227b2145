----------------------------- MODULE ListPages -----------------------------
(***************************************************************************)
(* One list page of the dashboard, Artifacts, Indexes or Datasets, its     *)
(* creation form, and what both show of the server while jobs, deletions,  *)
(* uploads and other pages change it.                                      *)
(*                                                                         *)
(* A behaviour is about one resource, chosen in the initial state: the     *)
(* three lists keep their data under different keys and do not interact.   *)
(* A list of artifacts or indexes merges what exists with the jobs that    *)
(* are making more; datasets are uploaded and have no jobs.  The server    *)
(* (src/internal/api, River, the disk and Qdrant) is external: it is what  *)
(* the hooks of src/web/src/hooks call.                                    *)
(***************************************************************************)
EXTENDS Forms, DataTable, QueryCache, FiniteSets, FiniteSetsExt

CONSTANTS
    Resources,      \* the resources a behaviour may be about
    TableUsers,     \* those on whose page the user also works the table
    JobNames,       \* the names that artifacts and indexes may have
    MaxJobs,        \* jobs that may be inserted
    MaxCalls,       \* MaxCalls[r]: POST and DELETE requests of this user about resource r
    MaxFaults,      \* MaxFaults[r]: requests for resource r that fail or lose their answer
    NoName          \* no row is picked for deletion

ASSUME ListPagesAssumption ==
    /\ Resources \subseteq {"artifacts", "indexes", "datasets"}
    /\ TableUsers \subseteq Resources /\ JobNames \subseteq Names
    /\ MaxJobs \in Nat /\ MaxCalls \in [Resources -> Nat]
    /\ MaxFaults \in [Resources -> Nat]
    /\ NoName \notin Names

VARIABLES
    resource,       \* the resource of this behaviour
    stored,         \* stored[n]: "absent", "empty" or "filled", on the server
    jobs,           \* the jobs in River, in the order of their ids
    applied,        \* requests of this user the server has carried out
    page,           \* "list", "create" or "other"
    query,          \* the cached list and the cached jobs
    calls,          \* this user's requests under way
    sentCalls,      \* how many there have been (bound)
    acked,          \* acked[k]: the last change of this user that query k owes him
    table,          \* the table's own state
    deleteTarget,   \* the row the confirmation asks about
    chips, chipInput,  \* the chip field of the artifact form
    shrunk,         \* rows have left the table since its page was last set
    faults

serverVars == <<stored, jobs, applied>>
formVars   == <<chips, chipInput>>
pageVars   == <<page, table, deleteTarget, chips, chipInput, shrunk>>
vars == <<resource, stored, jobs, applied, page, query, calls, sentCalls, acked,
          table, deleteTarget, chips, chipInput, shrunk, faults>>

HasJobs == resource # "datasets"

KnownNames == IF HasJobs THEN JobNames ELSE Names

\* For datasets, "other" is any page without the list; for the others it is the form.
Elsewhere == IF HasJobs THEN "create" ELSE "other"

Keys == {"list", "jobs"}
\* The queries the list page uses; the form and the other pages use none of them.
Used == IF HasJobs THEN Keys ELSE {"list"}
Active(p, k) == p = "list" /\ k \in Used

JobStates == {"available", "running", "retrying", "completed", "failed"}
TERMINAL_STATES == {"completed", "failed"}
Ended(j) == j.state \in TERMINAL_STATES

-----------------------------------------------------------------------------
(* What the API answers.                                                   *)

\* useJobs asks for the jobs in these states.
AskedStates == {"available", "running"}

fetchJobs == [at |-> applied,
              jobs |-> {[id |-> i, tag |-> jobs[i].tag, state |-> jobs[i].state] :
                        i \in {i \in DOMAIN jobs : jobs[i].state \in AskedStates}}]

Existing == {n \in Names : stored[n] # "absent"}

fetchList == [at |-> applied,
              items |-> [n \in Existing |-> stored[n] = "filled"]]

Answer(k) == IF k = "jobs" THEN fetchJobs ELSE fetchList

\* What the cache marks a request with is not an answer.
Answers ==
    [at : Nat, jobs : SUBSET [id : Nat, tag : Names, state : AskedStates]]
    \cup [at : Nat, items : UNION {[S -> BOOLEAN] : S \in SUBSET Names}]

ASSUME AnswersAssumption == Idle # Sent /\ {Idle, Sent} \cap Answers = {}

-----------------------------------------------------------------------------
(* What the pages show, and so what their user can act on.                 *)

Items(q) == IF q["list"].data = NoData THEN <<>> ELSE q["list"].data.items
Polled(q) == IF HasJobs /\ q["jobs"].data # NoData THEN q["jobs"].data.jobs ELSE {}

ListedRow(q, n) == [name |-> n, filled |-> Items(q)[n], pending |-> FALSE,
                    job |-> 0, state |-> "none"]
PendingRow(j) == [name |-> j.tag, filled |-> FALSE, pending |-> TRUE,
                  job |-> j.id, state |-> j.state]

ListedRows(q) ==
    LET names == SetToSeq(DOMAIN Items(q))
    IN  [i \in DOMAIN names |-> ListedRow(q, names[i])]

\* useMemo in useIndexes: what Qdrant lists, then the jobs it does not list.
mergedIndexes(q) ==
    LET qdrantNames == DOMAIN Items(q)
        running == {j \in Polled(q) : j.tag \notin qdrantNames}
        pending == SortedBy(running, LAMBDA j, k : j.id < k.id)
    IN  ListedRows(q) \o [i \in DOMAIN pending |-> PendingRow(pending[i])]

\* The same of useArtifacts, over the directories on disk.
mergedArtifacts(q) ==
    LET diskTags == DOMAIN Items(q)
        running == {j \in Polled(q) : j.tag \notin diskTags}
        pending == SortedBy(running, LAMBDA j, k : j.id < k.id)
    IN  ListedRows(q) \o [i \in DOMAIN pending |-> PendingRow(pending[i])]

Rows(q) == CASE resource = "indexes"   -> mergedIndexes(q)
             [] resource = "artifacts" -> mergedArtifacts(q)
             [] resource = "datasets"  -> ListedRows(q)

RowsOf(q, n) == Cardinality({i \in DOMAIN Rows(q) : Rows(q)[i].name = n})

\* isLoading of useIndexes and useArtifacts; of useDatasets.
IsLoading(q) == \E k \in Used : Loading(q[k])

\* The three bodies a list page can have.
IndexesView(q)   == IF IsLoading(q) THEN "skeleton"
                    ELSE IF Rows(q) = <<>> THEN "No indexes yet" ELSE "table"
ArtifactsView(q) == IF IsLoading(q) THEN "skeleton"
                    ELSE IF Rows(q) = <<>> THEN "No artifacts yet" ELSE "table"
DatasetsView(q)  == IF IsLoading(q) THEN "skeleton"
                    ELSE IF Rows(q) = <<>> THEN "No datasets yet" ELSE "table"

View(q) == CASE resource = "indexes"   -> IndexesView(q)
             [] resource = "artifacts" -> ArtifactsView(q)
             [] resource = "datasets"  -> DatasetsView(q)

HasTable(p, q) == p = "list" /\ View(q) = "table"

\* Columns whose header can be clicked, and the status a row shows.
SortableKeys == CASE resource = "indexes"   -> {"name", "vectors", "dimensions", "distance"}
                  [] resource = "artifacts" -> {"tag", "type", "files"}
                  [] resource = "datasets"  -> {"name", "size", "questions"}

Dash == "-"

\* The state of a job, and a spinner while it has not ended.
JobBadge(state) == [text |-> state, spins |-> state \in {"available", "running", "retrying"}]
Ready == [text |-> "Ready", spins |-> FALSE]

\* The columns of the three tables; the last one is the row's menu.
IndexCells(r) ==
    [vectors    |-> IF r.filled THEN "number" ELSE Dash,
     dimensions |-> IF r.pending THEN Dash ELSE "number",
     distance   |-> IF r.pending THEN Dash ELSE "text",
     status     |-> IF r.pending THEN JobBadge(r.state) ELSE Ready,
     menu       |-> {"Delete"}]

ArtifactCells(r) ==
    [files  |-> IF r.filled THEN "number" ELSE Dash,
     status |-> IF r.pending THEN JobBadge(r.state) ELSE Ready,
     menu   |-> {"Delete"}]

DatasetCells(r) == [size |-> "number", questions |-> "number", menu |-> {"Delete"}]

Cells(r) == CASE resource = "indexes"   -> IndexCells(r)
              [] resource = "artifacts" -> ArtifactCells(r)
              [] resource = "datasets"  -> DatasetCells(r)

-----------------------------------------------------------------------------
Job == [tag: Names, state: JobStates, made: BOOLEAN]

ListAnswer(a) == a.at \in 0 .. MaxCalls[resource] /\ a.items \in [DOMAIN a.items -> BOOLEAN]
                 /\ DOMAIN a.items \subseteq Names
JobsAnswer(a) == a.at \in 0 .. MaxCalls[resource]
                 /\ \A j \in a.jobs : j.id \in 1 .. MaxJobs /\ j.tag \in Names /\ j.state \in AskedStates

Init ==
    /\ resource \in Resources
    /\ stored \in [Names -> {"absent", "filled"}]
    /\ Existing \subseteq KnownNames
    /\ jobs = <<>>
    /\ applied = 0
    /\ page = Elsewhere
    /\ query = [k \in Keys |-> NewQuery]
    /\ calls = {}
    /\ sentCalls = 0
    /\ acked = [k \in Keys |-> 0]
    /\ table = FreshTable
    /\ deleteTarget = NoName
    /\ chips = <<>> /\ chipInput = Blank
    /\ shrunk = FALSE
    /\ faults = 0

(* The table keeps its state while it is mounted: a page that shows its    *)
(* skeleton or its empty state unmounts it.  One that nobody works with    *)
(* stays fresh anyway.                                                     *)
Works == resource \in TableUsers

TableAfter(t) ==
    /\ table' = IF Works /\ HasTable(page', query') THEN t ELSE FreshTable
    /\ shrunk' = (/\ Works /\ HasTable(page', query')
                  /\ \/ shrunk
                     \/ /\ HasTable(page, query)
                        /\ \E n \in Names : RowsOf(query', n) < RowsOf(query, n))

\* A step that leaves the page and its form as they are, but not its data.
SamePage == page' = page /\ UNCHANGED <<deleteTarget, chips, chipInput>> /\ TableAfter(table)

-----------------------------------------------------------------------------
(* The user moves between pages.  Leaving the form forgets its mutation's  *)
(* own onSuccess, so only a form that is still shown navigates.            *)

MountedQueries(q, p) == [k \in Keys |-> IF Active(p, k) THEN Mounted(q[k]) ELSE q[k]]

Go(p) ==
    /\ p # page
    /\ page' = p
    /\ query' = MountedQueries(query, p)
    /\ calls' = {[c EXCEPT !.here = FALSE] : c \in calls}
    /\ deleteTarget' = NoName /\ chips' = <<>> /\ chipInput' = Blank
    /\ TableAfter(FreshTable)
    /\ UNCHANGED <<resource, serverVars, sentCalls, acked, faults>>

-----------------------------------------------------------------------------
(* The forms.                                                              *)

TypeChip(text) ==
    /\ page = "create" /\ resource = "artifacts"
    /\ chipInput' = text
    /\ UNCHANGED <<resource, serverVars, page, query, calls, sentCalls, acked, table,
                    deleteTarget, chips, shrunk, faults>>

\* Enter, and every click elsewhere (onBlur).
AddChip ==
    /\ page = "create" /\ resource = "artifacts" /\ chipInput # Blank
    /\ chips' = addChip(chips, chipInput)
    /\ chipInput' = Blank
    /\ UNCHANGED <<resource, serverVars, page, query, calls, sentCalls, acked, table,
                    deleteTarget, shrunk, faults>>

RemovesChip(chip) ==
    /\ chips' = removeChip(chips, chip)
    /\ UNCHANGED <<resource, serverVars, page, query, calls, sentCalls, acked, table,
                    deleteTarget, chipInput, shrunk, faults>>

\* A chip's button: a text that was being typed has been added by the click.
RemoveChip(chip) == page = "create" /\ chipInput = Blank /\ RemovesChip(chip)

Backspace == page = "create" /\ BackspaceRemoves(chips, chipInput) /\ RemovesChip(Last(chips))

\* The forms a user can have filled in: the fields that decide what happens.
ArtifactForms == {[NewArtifactForm EXCEPT !.tag = t, !.repoUrl = u] : t, u \in {Blank, Text}}

FilledIndexForm(p, i, t, typed, o, b) ==
    [handleProviderChange(NewIndexForm, p) EXCEPT
        !.inputTag = i, !.tag = t, !.model = IF typed THEN Text ELSE @,
        !.chunkOverlap = o, !.batchSize = b]

IndexForms ==
    {FilledIndexForm(p, i, t, typed, o, b) :
     p \in {"openai", "lmstudio"}, i, t \in {Blank, Text},
     typed \in BOOLEAN, o \in {0, 1025}, b \in {0, 20}}

\* The first complaint of the API about a form the browser lets through.
ArtifactOutcomes(dirs) ==
    {PreprocessRefusal(PreprocessPayload(f, dirs)) : f \in {f \in ArtifactForms : ArtifactFormValid(f)}}
IndexOutcomes == {IndexRefusal(IndexPayload(f)) : f \in {f \in IndexForms : IndexFormValid(f)}}

\* What the API says of a request; the chips are nothing it looks at.
Verdicts == {Accept} \cup ArtifactOutcomes(<<>>) \cup IndexOutcomes

Call == [op: {"create", "upload", "delete"}, tag: Names,
         phase: {"sent", "done"}, refusal: Verdicts,
         at: 0 .. MaxCalls[resource], here: BOOLEAN]

FormOutcomes == IF resource = "artifacts" THEN ArtifactOutcomes(chips) ELSE IndexOutcomes

\* isPending of the form that is shown.
IsPending == \E c \in calls : c.op = "create" /\ c.here

NewCall(op, tag, refusal) ==
    /\ sentCalls < MaxCalls[resource]
    /\ ~\E c \in calls : c.op = op /\ c.tag = tag
    /\ calls' = calls \cup {[op |-> op, tag |-> tag, phase |-> "sent", refusal |-> refusal,
                             at |-> 0, here |-> op = "create"]}
    /\ sentCalls' = sentCalls + 1

SubmitForm(tag) ==
    /\ page = "create" /\ ~IsPending /\ chipInput = Blank
    /\ Len(jobs) + Cardinality({c \in calls : c.op = "create"}) < MaxJobs
    /\ \E refusal \in FormOutcomes : NewCall("create", tag, refusal)
    /\ UNCHANGED <<resource, serverVars, pageVars, query, acked, faults>>

-----------------------------------------------------------------------------
(* The list page.                                                          *)

\* FileUpload takes another file while one is being uploaded.
Upload(name) ==
    /\ page = "list" /\ resource = "datasets" /\ View(query) # "skeleton"
    /\ NewCall("upload", name, Accept)
    /\ UNCHANGED <<resource, serverVars, pageVars, query, acked, faults>>

\* The menu of a row that is shown, pending rows included.
PickDelete(i) ==
    /\ HasTable(page, query) /\ deleteTarget = NoName
    /\ i \in DOMAIN Paged(table, Rows(query))
    /\ LET row == Paged(table, Rows(query))[i]
       IN  "Delete" \in Cells(row).menu /\ deleteTarget' = row.name
    /\ UNCHANGED <<resource, serverVars, page, query, calls, sentCalls, acked, table,
                    chips, chipInput, shrunk, faults>>

DialogOpen == page = "list" /\ View(query) # "skeleton" /\ deleteTarget # NoName

CancelDelete ==
    /\ DialogOpen
    /\ deleteTarget' = NoName
    /\ UNCHANGED <<resource, serverVars, page, query, calls, sentCalls, acked, table,
                    chips, chipInput, shrunk, faults>>

ConfirmDelete ==
    /\ DialogOpen
    /\ NewCall("delete", deleteTarget, Accept)
    /\ deleteTarget' = NoName
    /\ UNCHANGED <<resource, serverVars, page, query, acked, table,
                    chips, chipInput, shrunk, faults>>

UsesTable == /\ Works /\ HasTable(page, query) /\ deleteTarget = NoName
             /\ UNCHANGED <<resource, serverVars, page, query, calls, sentCalls, acked,
                             deleteTarget, chips, chipInput, faults>>

Search(matches) ==
    /\ UsesTable /\ matches # table.matches
    /\ table' = Searched(table, matches) /\ shrunk' = FALSE

SortBy(key) ==
    /\ UsesTable /\ key \in SortableKeys
    /\ table' = handleSort(table, key) /\ shrunk' = FALSE

PrevPage ==
    /\ UsesTable /\ CanPrev(table, Rows(query))
    /\ table' = ToPrev(table) /\ UNCHANGED shrunk

NextPage ==
    /\ UsesTable /\ CanNext(table, Rows(query))
    /\ table' = ToNext(table) /\ UNCHANGED shrunk

-----------------------------------------------------------------------------
(* The cache.                                                              *)

\* The server reads what query k asks for.
Read(k) ==
    /\ query[k].wire = Sent
    /\ query' = [query EXCEPT ![k] = Answered(@, Answer(k))]
    /\ SamePage
    /\ UNCHANGED <<resource, serverVars, calls, sentCalls, acked, faults>>

Arrives(k) ==
    /\ HasAnswer(query[k])
    /\ query' = [query EXCEPT ![k] = Succeeded(@)]
    /\ SamePage
    /\ UNCHANGED <<resource, serverVars, calls, sentCalls, acked, faults>>

\* No answer, or one of the problems that apiFetch throws.
FetchFails(k) ==
    /\ Fetching(query[k]) /\ faults < MaxFaults[resource]
    /\ faults' = faults + 1
    /\ query' = [query EXCEPT ![k] = Errored(@, Active(page, k))]
    /\ SamePage
    /\ UNCHANGED <<resource, serverVars, calls, sentCalls, acked>>

\* 30 seconds after an answer; while a page shows it the age of a query has no effect.
GetsOld(k) ==
    /\ ~Active(page, k)
    /\ query[k].data # NoData /\ ~query[k].stale
    /\ query' = [query EXCEPT ![k] = Aged(@)]
    /\ SamePage
    /\ UNCHANGED <<resource, serverVars, calls, sentCalls, acked, faults>>

\* Faulty variant: a job that waits for a worker is not watched.
hasStarted == \E j \in Polled(query) : j.state = "running"

\* refetchInterval of useJobs: every 5 seconds while a job it knows goes on.
hasRunning == \E j \in Polled(query) : j.state \notin TERMINAL_STATES

Poll ==
    /\ Active(page, "jobs") /\ hasRunning /\ ~Fetching(query["jobs"])
    /\ query' = [query EXCEPT !["jobs"] = Fetch(@)]
    /\ SamePage
    /\ UNCHANGED <<resource, serverVars, calls, sentCalls, acked, faults>>

-----------------------------------------------------------------------------
(* The user's requests.                                                    *)

Applies(c) == /\ applied' = applied + 1
              /\ calls' = (calls \ {c}) \cup {[c EXCEPT !.phase = "done", !.at = applied + 1]}

\* onError, for a refusal or a broken connection, is a toast and nothing else.
EndsInError(c) == calls' = calls \ {c}

Refuses(c) == EndsInError(c) /\ UNCHANGED serverVars

\* POST /workflows/preprocess or /workflows/index.
InsertJob(c) ==
    /\ c.op = "create"
    /\ IF c.refusal = Accept
       THEN /\ jobs' = Append(jobs, [tag |-> c.tag, state |-> "available", made |-> FALSE])
            /\ Applies(c) /\ UNCHANGED stored
       ELSE Refuses(c)

\* POST /datasets.  A request that is refused early changes nothing; a file that is not
\* JSONL is refused after it has replaced the one of its name, and is removed.
StoreFile(c) ==
    /\ c.op = "upload"
    /\ \/ stored' = [stored EXCEPT ![c.tag] = "filled"] /\ Applies(c) /\ UNCHANGED jobs
       \/ stored' = [stored EXCEPT ![c.tag] = "absent"] /\ EndsInError(c)
          /\ UNCHANGED <<jobs, applied>>
       \/ Refuses(c)

RemoveEntry(c) ==
    /\ c.op = "delete"
    /\ IF stored[c.tag] # "absent"
       THEN stored' = [stored EXCEPT ![c.tag] = "absent"] /\ Applies(c) /\ UNCHANGED jobs
       ELSE Refuses(c)

CarryOut(c) ==
    /\ c.phase = "sent"
    /\ InsertJob(c) \/ StoreFile(c) \/ RemoveEntry(c)
    /\ UNCHANGED <<resource, pageVars, query, sentCalls, acked, faults>>

\* The connection breaks, before or after the server has done its part.
LoseCall(c) ==
    /\ faults < MaxFaults[resource] /\ faults' = faults + 1
    /\ EndsInError(c)
    /\ UNCHANGED <<resource, serverVars, pageVars, query, sentCalls, acked>>

\* Faulty variant: the key of another query.
deleteInvalidatesJobs == {"jobs"}

\* What an onSuccess invalidates: the jobs, or the list of the resource.
createInvalidates == {"jobs"}
deleteInvalidates == {"list"}
uploadInvalidates == {"list"}

Invalidates(op) == CASE op = "create" -> createInvalidates
                     [] op = "delete" -> deleteInvalidates
                     [] op = "upload" -> uploadInvalidates

\* The query that a request of the user changes.
Changes(op) == IF op = "create" THEN "jobs" ELSE "list"

\* onSuccess of the hook, then, for a form that is still shown, navigate.
Settle(c) ==
    LET keys == Invalidates(c.op)
        navigates == c.op = "create" /\ c.here
        invalidated == [k \in Keys |-> IF k \in keys
                                       THEN Invalidated(query[k], Active(page, k)) ELSE query[k]]
    IN  /\ c.phase = "done"
        /\ page' = IF navigates THEN "list" ELSE page
        /\ query' = IF navigates THEN MountedQueries(invalidated, "list") ELSE invalidated
        /\ acked' = [acked EXCEPT ![Changes(c.op)] = IF @ < c.at THEN c.at ELSE @]
        /\ calls' = calls \ {c}
        /\ IF navigates THEN chips' = <<>> /\ chipInput' = Blank ELSE UNCHANGED formVars
        /\ TableAfter(table)
        /\ UNCHANGED <<resource, serverVars, sentCalls, deleteTarget, faults>>

-----------------------------------------------------------------------------
(* The jobs, as River and the workers of src/internal/workflow run them:   *)
(* what a job makes exists from its beginning and is filled when it ends.  *)

JobStep(i, job) ==
    /\ jobs' = [jobs EXCEPT ![i] = job]
    /\ UNCHANGED <<resource, applied, pageVars, query, calls, sentCalls, acked, faults>>

StartJob(i) ==
    /\ jobs[i].state \in {"available", "retrying"}
    /\ JobStep(i, [jobs[i] EXCEPT !.state = "running"])
    /\ UNCHANGED stored

Make(i) ==
    /\ jobs[i].state = "running" /\ ~jobs[i].made
    /\ stored' = [stored EXCEPT ![jobs[i].tag] = IF @ = "absent" THEN "empty" ELSE @]
    /\ JobStep(i, [jobs[i] EXCEPT !.made = TRUE])

CompleteJob(i) ==
    /\ jobs[i].state = "running" /\ jobs[i].made
    /\ stored' = [stored EXCEPT ![jobs[i].tag] = IF @ = "empty" THEN "filled" ELSE @]
    /\ JobStep(i, [jobs[i] EXCEPT !.state = "completed", !.made = FALSE])

FailJob(i) ==
    /\ jobs[i].state = "running"
    /\ \E state \in {"retrying", "failed"} :
          JobStep(i, [jobs[i] EXCEPT !.state = state, !.made = FALSE])
    /\ UNCHANGED stored

RunJob(i) == StartJob(i) \/ Make(i) \/ CompleteJob(i) \/ FailJob(i)

-----------------------------------------------------------------------------
CONSTANTS
    ChipTexts,      \* what is typed in the chip field
    ClickedKeys     \* the headers that are clicked

User ==
    \/ \E p \in {"list", Elsewhere} : Go(p)
    \/ \E text \in ChipTexts : TypeChip(text)
    \/ AddChip
    \/ \E chip \in ChipTexts : Contains(chips, chip) /\ RemoveChip(chip)
    \/ Backspace
    \/ \E n \in KnownNames : SubmitForm(n)
    \/ \E n \in Names : Upload(n)
    \/ \E i \in 1 .. PageSize : PickDelete(i)
    \/ CancelDelete
    \/ ConfirmDelete
    \/ \E matches \in SUBSET Names : Search(matches)
    \/ \E key \in ClickedKeys : SortBy(key)
    \/ PrevPage
    \/ NextPage

Client ==
    \/ \E k \in Keys : Arrives(k)
    \/ \E k \in Keys : GetsOld(k)
    \/ Poll
    \/ \E c \in calls : Settle(c)

Server ==
    \/ \E k \in Keys : Read(k)
    \/ \E k \in Keys : FetchFails(k)
    \/ \E c \in calls : CarryOut(c)
    \/ \E c \in calls : LoseCall(c)
    \/ \E i \in DOMAIN jobs : RunJob(i)

Next == User \/ Client \/ Server

(* The timer of the poll and the answers to queries come; the user, his    *)
(* requests and the jobs need not do anything.                             *)
Fairness ==
    /\ \A k \in Keys : WF_vars(Read(k)) /\ WF_vars(Arrives(k))
    /\ WF_vars(Poll)

Spec == Init /\ [][Next]_vars /\ Fairness

-----------------------------------------------------------------------------
(* Types; the chips are React keys, so they differ.                        *)
TypeOK ==
    /\ resource \in Resources
    /\ stored \in [Names -> {"absent", "empty", "filled"}]
    /\ Len(jobs) <= MaxJobs /\ \A i \in DOMAIN jobs : jobs[i] \in Job
    /\ applied \in 0 .. MaxCalls[resource]
    /\ page \in {"list", Elsewhere}
    /\ \A k \in Keys :
          LET AnswerOK(a) == IF k = "jobs" THEN JobsAnswer(a) ELSE ListAnswer(a)
          IN  /\ query[k].data = NoData \/ AnswerOK(query[k].data)
              /\ query[k].wire \in {Idle, Sent} \/ AnswerOK(query[k].wire)
    /\ calls \subseteq Call /\ sentCalls \in 0 .. MaxCalls[resource]
    /\ acked \in [Keys -> 0 .. MaxCalls[resource]]
    /\ table \in TableOf(SortableKeys)
    /\ deleteTarget \in Names \cup {NoName}
    /\ chipInput \in ChipTexts \cup {Blank}
    /\ Range(chips) \subseteq ChipTexts /\ IsInjective(chips)
    /\ shrunk \in BOOLEAN /\ faults \in 0 .. MaxFaults[resource]

(* Data that the cache takes for fresh, which a page shows without asking  *)
(* again, are not older than the user's last acknowledged deletion, upload *)
(* or submission, unless the acknowledgement met a fetch that it did not   *)
(* replace: a first one, or that of a page already left.  A poll asks      *)
(* again although the data are fresh.                                      *)
FreshShowsOwnChanges ==
    \A k \in Used :
        query[k].data # NoData /\ ~query[k].stale /\ ~Fetching(query[k])
            => query[k].data.at >= acked[k] \/ query[k].overtaken

(* The table claims that there is no data, though rows match its filter,   *)
(* only when rows have left it since the user chose the page: nothing      *)
(* brings the page back into range then.                                   *)
EmptyPageMeansShrunk ==
    HasTable(page, query) /\ ShowsNoData(table, Rows(query)) /\ Found(table, Rows(query)) # <<>>
        => shrunk

(* Whatever is filled in, the only complaint of the API about a form that  *)
(* the browser submits is the artifact that was not selected: required,    *)
(* min and the presets cover all its other checks.                         *)
RefusedOnlyForTheSource ==
    \A c \in calls : c.refusal \in {Accept, "input_tag is required"}

(* A pending row goes when its job has ended, completed or failed, while   *)
(* the user stays and whatever fails on the way: the poll does not stop    *)
(* before.  docs/web-user-interaction-flows.md:152 says otherwise of a job *)
(* that failed: that its row stays, with a red badge, and that a toast     *)
(* shows the error.  The code asks for available and running jobs only, so *)
(* that a failed one leaves the page without a word.                       *)
ShowsPending(i) == \E j \in Polled(query) : j.id = i
PendingRowsFollowTheirJob ==
    \A i \in 1 .. MaxJobs :
        (page = "list" /\ i \in DOMAIN jobs /\ Ended(jobs[i]))
            ~> (page # "list" \/ ~ShowsPending(i))

(* What docs/web-user-interaction-flows.md says of a job that completes:   *)
(* its result is fetched and shown, while the user stays on the page.      *)
ShowsReady(n) == \E r \in Range(Rows(query)) : r.name = n /\ Cells(r).status = Ready
Finished(i) == i \in DOMAIN jobs /\ jobs[i].state = "completed"
FinishedIsShown ==
    \A i \in 1 .. MaxJobs :
        (page = "list" /\ Finished(i))
            ~> (\/ page # "list"
                \/ Finished(i) /\ (stored[jobs[i].tag] = "absent" \/ ShowsReady(jobs[i].tag)))
=============================================================================
