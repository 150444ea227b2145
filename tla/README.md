# Verification of raglab

raglab runs retrieval-augmented-generation experiments: it preprocesses a
documentation repository, indexes it in Qdrant, evaluates a dataset of questions
against the index, answers questions in a chat, and shows all of it in a web
dashboard. This directory holds TLA+ models of its Go services and of the
dashboard, the TLC configurations that check them, and TLAPS proofs.

    tlc -workers 2 -config EvalPipelineFaults.cfg MCEvalPipeline
    tlapm EvalPipelineProofs.tla

`PROJECT.json` maps every definition to the lines it models, and lists the runs,
the mutants (plausible slips that each property is known to notice), the hazards
and the findings.

## Inventory

Two processes share Postgres and Qdrant: `api` inserts jobs and serves reads and
chat; `workerd` runs the jobs through River, a Postgres job queue. The dashboard is
a React application that asks `api` for everything it shows. Source paths are under
`src/internal`, those of the dashboard under `src/web/src`, unless said otherwise.

| Component | State it keeps | Operations | What is hard | What must be right |
|---|---|---|---|---|
| Evaluation attempt: `workflow/eval_worker.go`, `eval/worker.go`, `eval/store.go` | three bounded channels, two slices of results, rows of `eval_queries`, metrics of `eval_runs`, River output | publish, embed, retrieve/generate/judge, collect, checkpoint, aggregate | a dozen goroutines, cancellation, closes that run before an error is known, ambiguous commits | no row twice; checkpoint, metrics and rows agree; success means everything; Work returns |
| Evaluation job: the same, over retries | checkpoint `{run_id, questions_processed}`, the runs of earlier attempts | fetch, clean up, skip, retry, rescue, discard | crash between any two writes | what a completed job's run contains; why a job is discarded; the job ends |
| Preprocess job: `workflow/preprocess_worker.go`, `preprocessor/` | clone directory, output directory, checkpoint | clone or update, process files, verify | kill half-way, jobs of one tag side by side, artifact deleted under a checkpoint | the output is that of the clone; a retry repairs |
| Index job: `workflow/index_worker.go`, `chunker/` | a chunker goroutine with two channels per document, a pool of documents, skipped errors, points in Qdrant | parse, chunk, embed and store in batches | race of the two channels, timeouts, partial upserts | a document counted as indexed is indexed whole; nothing leaks |
| Chunkers: `chunker/` | a window of words | split with overlap | boundaries | every word in a chunk, the overlap as configured |
| Vector store client: `store/qdrant.go` | a connection shared by goroutines | connect, ensure collection, upsert, search, reconnect, back off | reconnect without a lock, check-then-create | one live client; who is hurt by a reconnect |
| Circuit breakers: `store/`, `embedder/`, `generator/circuitbreaker.go` | closed / open / half-open, counts, expiry | call, succeed, fail, time out | late answers, probes | opens after the threshold, recovers |
| HTTP retry: `embedder/retry.go`, `generator/retry.go` | a back-off that all requests share | request, retry, give up | each request resets the others' clock | a request ends |
| Chat API: `api/router_chat.go`, `api/service_chat.go` | one response per request | check, retrieve, stream, end | a stream cut short by the server's timeout | the answer is of the conversation sent |
| Services: `api/service_*.go`, `api/router_*.go`, `api/types.go` | files under `artifacts/`, collections, datasets, runs | list, delete, upload, start workflows, validate | a delete or upload under a running job | a job never silently works on half of its input |
| Query cache and hooks: `lib/queryClient.ts`, `hooks/` | an answer per key, its age, the fetch under way | mount, poll, invalidate, retry, merge | answers read before a change arrive after it; fetches that join; pages that are left | fresh data are fresh; polls stop exactly at the end |
| List pages and forms: `pages/`, `components/DataTable.tsx` | filter, sort, page, the row to delete; what is typed | search, sort, page, delete, upload, submit | rows change under filter and page | nothing is hidden; what the browser lets through the API takes |
| Evaluation pages: `pages/Evaluations/`, `pages/Dashboard.tsx` | selection, base, page of questions | select, compare, page, expand, delete, evaluate | runs vanish or grow between list and detail; missing metrics | limits kept; no crash; charts and signs agree; skeletons end |
| Chat page: `pages/Chat.tsx` | the conversation, settings, the stream | ask, stop, change settings, leave | streams that end late, stop racing an answer | answers stand under their questions; the prompt is the conversation |
| Shell: `components/Layout.tsx`, `theme-provider.tsx`, `CommandPalette.tsx`, `ui/sidebar.tsx` | theme in every tab and in the storage, sidebar, route | key d, toggle, navigate, resize | tabs learn of one another late; the system's scheme changes | tabs agree; what is shown is the theme |
| Algorithms: `retriever/retriever.go` (MMR), `eval/metrics.go` | none | rerank, measure | boundaries | agree with their definitions |
| Chat memory: `memory/memory.go`; River poller: `workflow/poll_job.go` | turns of a conversation; last state seen | | | no program uses either |

Components interact by River rows (api inserts, workerd updates state and output),
by `eval_runs` and `eval_queries` (written by the evaluation, read by the api),
by files (preprocess writes, index reads, api deletes), by Qdrant collections
(index writes, evaluation and chat read, api deletes), and by HTTP between the
dashboard and the api: the dashboard has no push channel, so it learns of a job only
by polling. Left out altogether: configuration, migrations, wiring, the text
clean-up of documents (regular expressions with no state), and the dashboard's styled
primitives.

## Modules

| Module | Models | Role |
|---|---|---|
| `EvalAttempt` | what one evaluation attempt promises | abstract specification |
| `EvalPipeline` | `EvalWorker.Work` from the errgroup to `g.Wait` | implements `EvalAttempt` |
| `EvalJob` | all attempts of one evaluation job | composed of `EvalAttempt` and River |
| `PreprocessJob` | all attempts of the preprocess jobs of one tag | component |
| `IndexDocument` | `processFile`, `embedAndStore` and the chunker's goroutine | component |
| `IndexJob` | `RunIndexing` over all attempts of one index job | composed of `IndexDocument` for one document, the pool, the collection and River |
| `WordChunks` | how both chunkers cut a run of words | algorithm |
| `QdrantStore` | the connection of `QdrantStore` under `retryWithBackoff` | component |
| `QueryCache` | one query of TanStack Query as the hooks configure it | operators, external |
| `Arrays` | `filter` and `sort` of JavaScript's arrays | operators, external |
| `DataTable` | filter, sort and pages of every list | operators |
| `Forms` | the three creation forms and the checks of the API | operators |
| `ListPages` | a list page with its form, on `DataTable`, `Forms`, `QueryCache` and a server | composition |
| `RunViews` | what the evaluation pages compute from runs | operators |
| `EvalPages` | dashboard, run list, creation, detail, comparison, on `RunViews`, `Forms`, `QueryCache` and a server | composition |
| `ChatPage` | the chat page and the streaming handler | component |
| `AppShell` | theme, sidebar, palette and routes in several tabs | component |
| `EvalPipelineProofs`, `EvalJobProofs`, `PreprocessJobProofs`, `IndexJobProofs`, `QdrantStoreProofs`, `EvalPagesProofs`, `ChatPageProofs`, `DashboardProofs` | | theorems about the module they name (`IndexJobProofs` also about `IndexDocument` and `WordChunks`; `DashboardProofs` about `AppShell` and `ListPages`) |
| `MC...` | | constants for TLC |

The operators called faulty variants are the slips of the mutants. No specification
uses them.

### EvalPipeline

One action per step between two communications. The program counters are
`pub` (`publishQuestions`), `emb` (`embedQuestions`), `worker[w]`
(`evaluateQuestions`), `closer` and `coll` (`collectResults`); `"err"` is the state
of a goroutine whose function has returned an error and whose deferred close or
`Done` has run, but whose error the errgroup has not recorded: the `Record...`
actions do that and cancel the context, `ctxDone`. The window between the two
exists in the code, because `defer close(questionChan)` runs inside the function
that `g.Go` calls.

Questions are numbered in the order the publisher sends them. `questionChan` and
`workChan` are FIFO with one sender each, so they are the intervals
`taken+1..published` and `received+1..embedded`; `resultChan` has many senders and
is a set, since a question has at most one result and the collector does not look
at the order. `results`, `allResults`, `rows`, `saved`, `metrics` are the variables
and the database columns of those names (`saved` the questions counted by the
last checkpoint). Texts, embeddings, answers and scores are left out: no control
depends on them, except that the averages over no result are 0/0, which
`json.Marshal` refuses, so `UpdateRunMetrics` fails on an empty run.

`Faults` says what may go wrong: `scan` (read error, or a line over 1 MB), `embed`,
`db` (a call may fail, and an insert or update may be committed all the same) and
`cancel` (job timeout or shutdown). Retrieval may always fail, since that is an
ordinary outcome of a question. A call made with a done context fails at once; one
under way when the context ends may go either way.

### EvalAttempt and EvalJob

`EvalAttempt` has the five variables a reader of the results can see. `EvalJob`
instantiates it (`Run == INSTANCE EvalAttempt`) and takes its steps in the order of
`collectResults`, one attempt after the other: `Clean` (delete the rows of the
checkpointed run), `CreateRun` (skip as many questions as the checkpoint counts),
batches each followed by a checkpoint that may be lost, the final flush without a
checkpoint, metrics, return. `batchSize` is the `batch_size` the job was inserted
with, the same for all its attempts. `Crash` ends an attempt anywhere, between the
database and River included; it also stands for an attempt that hangs (`Wedged`) and
is rescued. River is external: it retries until `MaxAttempts` (`MAX_RETRIES`, 3 by
default) and discards then.

### PreprocessJob

`repo` is what `os.Stat` and git find at `repoPath` (nothing, a clone under way, an
intact clone, one that a killed git left unusable), `tree` and `output` give for
each file the upstream version its text comes from. One job has a program counter
and the sets of files its ten goroutines have not read (`todo`) or not written
(`held`); reading and writing are steps of their own, so a job of the same tag, or
the API's delete, comes between them. `done` is the checkpoint in River's output.
Git is external: it updates only an intact clone, removes what a failed clone made,
and when it is killed leaves either end of what it was doing, or a mixture with a
lock in it. `os.WriteFile` empties a file before it writes, so a write that fails or is
killed leaves the old text, or the new one cut short (`Cut`, `CutShort`), which later steps
take for a text like any other. The checks of verification on one text are the constant
`Rejected`, for cut texts, too, of which not all are noticed; the check on the sizes of both
directories (`checkTotalSize`) is `TotalSize`, over the sizes `SrcSize` and `DstSize`. `faulty` and `disturbed`
are history: the attempts in which something failed by itself, and whether anybody
else changed the directories since the job began.

### IndexDocument, IndexJob and WordChunks

`IndexDocument` is one document: `chunker` and `file` are the two goroutines,
`offered`, `received` and `chunksCount` number the chunks made, taken from `chunkCh`
and stored. `chunkCh` has no buffer, so sending is one step of both; `chunkErr` is
the one place of `errCh`. The `select` of `processFile` is the choice between
`ReceiveChunk`, `ChunksClosed` and `ReceiveError`, any of which may be taken when
several are ready. `result` is what `processFile` returned and `ctxDone` the
document's context, which a timeout of 0 ends before it begins.

`IndexJob` extends it to the whole job. `Focus` is any one of the documents, and its
steps are those of `IndexDocument`, begun anew by every attempt (`StartFocus`), told apart
from the collection they write to (`points` is what this attempt has stored, `kept` what the
collection has) and ended by a crash. The other documents only take places in the pool.
`List` takes any subset of the documents when a directory cannot be read, since the walk
only logs that; `Ensure` and `Create` are the two calls of `ensureCollectionOnce`, between
which another job may make the collection, of another dimension too (`"unfit"`, whose
upserts are refused); `CancelJob` is the end of the job's hour or of workerd. Whatever
happens to a document, `RunIndexing` returns nil, so `Complete` asks only that each listed
document be over. `dropped` is history: the collection went after this attempt had made
sure of it. The run checks `IndexDocument`'s property and its goroutines within this job.

`WordChunks` has the loops of `FixedChunker.Chunk` (read a word; while the window is
full, send it and slide) and of `hardWordSplit`, with sizes, overlaps and lengths
chosen in `CutInit`. A chunk is an interval of words. Its state and names are told apart
from those of `IndexDocument`, so that one module can prove about both.

### QdrantStore

One process per goroutine that calls `Store`. Every access to the field `s.client`
is a step, since nothing guards it: the check of `storeOnce`, its second read for
every request of up to 100 points, the check, close and clear of `reconnect`, and the
assignment in `Connect`. `open` holds the clients that are not closed. A lost
connection is what `isConnError` accepts: the server is down, the client was closed
by somebody else, the context is done.

### The dashboard: QueryCache, Arrays, DataTable, Forms, RunViews

These have no variables: they are the functions the page modules are made of.
`QueryCache` says what mounting, ageing (30 seconds), polling, invalidation, an
answer and an error do to the record of one query. Three details of the library carry
the properties: a second fetch joins the one under way, an invalidation cancels and
restarts a refetch but joins a *first* fetch, and the fetch of a page that was left goes
on. `Arrays` states `filter` and `sort` by the place of each element (the k-th has k - 1
before it) and not by the library's recursions, so that their results can be proved about.
`DataTable` is generic in its rows; a sort compares `String()` of what a column's
accessor returns, which is an element on every page and hence the same text for all
rows (`CellRank` is 0). `Forms` keeps of a text whether it is empty, and of a number its
value; the browser's own checks (`required`, `min`, `max`) decide what is submitted, and
`Validate` of `api/types.go`, external to these modules, what is refused. `RunViews`
counts metrics in ten-thousandths and scores in tenths, so the thresholds of the code
(a thousandth; whole scores) fall on numbers of the model. The chart of categories has room
for `MaxCategories`, the largest first (`slice(0, 8)`, `RunDetail.tsx:84`) and, of one size, the
one that is met first. The colours of a comparison are those of the code: it colours the rows
of tokens by the sign of the difference, too, which
`docs/web-user-interaction-flows.md:494` calls neutral gray.

### ListPages

A behaviour is about one resource (artifacts, indexes or datasets). The server's part
is what exists (`stored`) and the jobs of River; the page's part its cached list and
jobs, the table, the confirmation and the form. A fetch is three steps: sent, read by the
server, arrived, so a change, a poll or a deletion comes between any two. `at` in an
answer counts the changes of this user the server had carried out when it read, which
is what `FreshShowsOwnChanges` compares with `acked`.

An upload may be refused early, which changes nothing, or once it turns out to be no JSONL:
by then the file has replaced the dataset of its name (`router_dataset.go:63`), and it is
removed (`:79`), so that `StoreFile` takes the dataset away and answers with an error, after
which nothing invalidates the list. The file between these two points is not modelled.

`shrunk` and a query's `overtaken` are history: a name has fewer rows in the table than
before, and a change was acknowledged while a fetch was under way that it did not replace. The
attempt to prove `FreshShowsOwnChanges` showed that it cannot be claimed of data that are
being fetched again: with two jobs submitted, an acknowledgement meets the first fetch of the
jobs, whose answer lacks that job and is taken as fresh; the next poll begins another fetch,
and until it arrives the page shows the old answer, with no word of having been overtaken. The
property is therefore about queries at rest. TLC finds the same in 11 steps with two jobs. It
also finds that pending rows of one name can leave without the name leaving, so `shrunk` counts
the rows of a name.

### EvalPages

One page at a time over one cache, with runs that a job is evaluating and that the user
and others delete. A page that throws while it renders takes the application down
(`Crashed`): nothing in it is an error boundary. A behaviour is one *scene*, which
fixes the pages the user moves between and the bounds: `Comparing` (three runs, choices
of base and targets, one deletion), `Reading` (questions of a run that is being
evaluated, one failed request), `Jumping` (two runs' pages, by the browser's history),
`Evaluating` (form, list and dashboard while an evaluation starts and ends), `Failing`
(the dashboard with two failed requests) and `Deleting`. The scenes share the list and
meet nowhere else: the pages keep their state apart and their data under different keys.

`baseAdded` and `jumped` are history. A jump by the browser's history keeps the page of
questions, so it may ask for a page the other run does not have; what it brought stays in
the cache after the page is left. `jumped` therefore holds the keys that jumps have asked
for since the application was loaded. The attempt to prove `PagingNeverCrashes` showed that
a flag for the page in view is not enough: a jump asks for page 2 of a run with one question
and the page is left before the answer is shown; the run grows; the pager, which reads the
new total on page 1, leads to the old answer on page 2. TLC finds this too, in 20 steps,
once the run that is jumped to grows.

### ChatPage

`messages`, `status` and `error` are those of `useChat`, `streams` the answers under way:
a stopped one may still be read by the server, but no longer by the page. `Serve` is a
step of the handler (check, retrieve, sources, a piece of text, end or failure),
`Receive` what the SDK makes of the next part. A text is the number of its words.
`fate` is history: what became of each question. A connection that breaks between a text's
end and the stream's end (`Break`) does to the page what one does that breaks just before the
text's end: the text is all there, and the status and the error are the same. It has no step
of its own.

### AppShell

`theme`, `shown` and `inbox` are per tab: the theme in React's state, the class of the
document, and the storage events on their way. `storedTheme` and `system` are shared. A scene
is either several tabs whose theme changes, or one tab the user moves about in; nothing
but the key d connects the two. A new document takes two steps: the first render reads the
storage (`Load`, the tab is in `rendered`), its effects add the listeners (`Mount`, it is in
`running`), and a change in between is heard of by nobody. Another page of the origin may
overwrite the theme or clear the storage; `localStorage.clear()` sends an event without a
key, which `handleStorageChange` ignores. `strayed` is history: the last change of the
storage does not reach the tab, since it had changed the theme itself before it had heard of
another's change, was between render and effects, or the storage was cleared.

Addresses may be typed in other letters (`RespelledPaths`): `RouteOf` ignores capitals, as a
`Route` without `caseSensitive` does (`App.tsx:23`), and `isActive` does not
(`Layout.tsx:69`). The palette takes the application down
(`OpenPalette`): its input has no `Command` around it.

## Runs

| Run | Bounds | Distinct states | Shows |
|---|---|---|---|
| `EvalPipelineFaults` | 3 questions, 2 subscribers, batch 2, all faults | 61,938 | success is complete; the refinement of `EvalAttempt`; where alone it can stop for good |
| `EvalPipelineHang` | 3 questions, batch 1, database faults | | violation: it does stop there |
| `EvalJobRetries` | 4 questions, batches of 1 to 3, 3 attempts, 3 faults | 53,253 | what retries keep; why a job is discarded; the job ends |
| `PreprocessFaults` | 2 jobs of one tag, 2 files whose texts may be cut short, 3 versions of different sizes, 2 attempts of which one may meet faults, 1 deletion | 483,549 | what a completed job says of the directories; why a job is discarded; jobs end |
| `IndexJobFaults` | 3 documents in a pool of 2, one of them of 5 chunks in batches of 2, with and without a timeout of 0; 2 attempts; all faults | 241,672 | when a part is reported as a whole; why a document may be missing from the index of a completed job; the job and its goroutines end |
| `WordChunksAll` | up to 14 words, sizes 1 to 5, overlaps 0 to 6 | 3,739 | both chunkers cut as the reference definition |
| `QdrantStoreOverlap` | 2 goroutines, 2 requests, 3 attempts, 1 outage | 70,735 | who is hurt by overlapping reconnects; every Store returns and leaves an open client |
| `ListPagesRaces` | the three resources, 2 names, pages of 1 row, 1 job, 2 calls for datasets and 1 otherwise, 1 fault for indexes | 330,004 | what fresh data may lack, when a table is empty, what the API refuses, when pending rows go |
| `ListPagesFinished` | indexes, 1 name, 1 job, no fault | | violation: what a finished job has made is not shown |
| `EvalPagesRaces` | 3 runs, 3 questions, pages of 2, a chart of 1 category, comparisons with 1 target, six scenes | 412,596 | the limit of comparisons, paging, charts and signs; skeletons end; the dashboard goes idle |
| `ChatPageStream` | 3 questions with 1 change of settings, or 2 with 2; 1 source and 1 token per answer; 2 visits; 2 faults | 255,043 | order of the conversation, the prompt, what is refused, what is shown; waiting ends |
| `AppShellTabs` | 3 tabs with at most 2 events on their way to each, or 1 tab that moves | 1,465,678 | tabs agree, what is shown is the theme, the section's item is marked, labels or tooltips |

Bounds. Two subscribers suffice for one to end while the other holds a question.
Three questions with batch 2 give a full batch, a partial one and an embedder
whose last batch is partial. Batch 1 makes every channel full after one send: the
hang needs a full `resultChan`, a subscriber in the unconditional send, and a
collector that has stopped. Four questions in batches of 1, 2 or 3 are all full
batches, or leave a rest, and with three attempts of which each may fault a job meets a
retry from a checkpoint, a retry of a retry, a retry from a checkpoint older than the last
attempt, and an attempt with nothing left. In
`PreprocessFaults` one version adds a file and the next removes it, one job includes
the whole tree and the other two directories, one of which does not always exist: so
missing directories, leftovers of an earlier version, texts of two versions side by
side and a file that vanishes between the listing and the read all occur. One file's cut
text is noticed and the other's is not; a text has half, once or twice the size of its
source, and the last version's is too large. Five
chunks in batches of two give two full batches and a rest; fourteen words are almost
three of the largest windows. Two goroutines and one outage let each
find the client of the other nil, closed, or replaced. Three documents and a pool of two make
the one looked at wait, and run beside another; with two attempts, points of the first are
there when the second stores them again.

In the dashboard one row a page makes two rows two pages, so that a deletion, by this
user or by others, can take the page shown away; one job suffices for a pending row that
overtakes its index. Three runs and one target make the limit reachable by three
checkboxes and a changed base; their metrics differ by less and by more than a
thousandth, one is missing, and two have the same tag. Three questions let a stopped
answer be followed by one that fails and one that ends. Three tabs let one change cross
another on the way to a third. `MaxFaults`, `MaxDeletes`, `MaxOutages`,
`LastVersion`, `MaxJobs`, `MaxCalls`, `MaxRuns`, `MaxRows`, `MaxDocs`, `MaxTokens`,
`MaxUnderWay`, the numbers in `Scenes` and `Bounds`, and the three maxima of `WordChunks`
are bounds of the models, not of the code; `MaxCompare`, `MaxCategories`,
`ListLimit` and `PageSize` are 5, 8, 20 and 50 (25 in the tables) in the code.

Deadlock is checked wherever the system may not stop; a wedged evaluation attempt is a
stopped system, so the two `EvalPipeline` runs do not check it and `ReturnsOrWedges`
says what the stop looks like instead.

Fairness is weak and assumed per goroutine: the Go scheduler runs every goroutine
that can take a step, and every call of an evaluation ends because the job's timeout
of 60 minutes (`src/cmd/workerd/main.go:52`) cancels the context it was made with.
In `IndexJob` the five minutes of a batch end its calls, and the chunker's goroutine is
scheduled by itself. In `QdrantStore` each caller is fair by itself.
It is never assumed that a fault happens, that the server comes back, or that a
`select` prefers one ready case. For jobs, fairness is that River keeps fetching and
recording and that an attempt nothing stops goes on; crashes are not fair. For the pages,
the browser keeps a request until it is answered or has failed, delivers what arrived
and calls the timer of a poll; the handler of a stream goes on, which its context
guarantees by `API_REQUEST_TIMEOUT` (60 s, `config/config.go:68`, `api/middleware.go:80`).
Neither the user nor a job nor a lost answer is fair: no liveness property rests on a
click, or on a job that ends.

### Findings

Three disagreements have runs:

1. **An evaluation attempt can hang** (`eval_worker.go:283`, `EvalPipelineHang`). The send
   of a failed retrieval has no `ctx.Done()` alternative. If the database fails, the
   collector returns; the context is cancelled, so further retrievals fail too; the failed
   results fill `resultChan` and the next one blocks for ever. `g.Wait` does not
   return, so Work does not return the error that should start a retry, and the
   job's timeout cannot reach the blocked send. Goroutines and worker slot are held
   until River's rescuer gives the job up as stuck (about an hour past the timeout) or
   the process ends; a graceful stop waits for it (`cmd/workerd/main.go:76`).
2. **A finished job's result is not shown** (`hooks/useWorkflows.ts:9`,
   `ListPagesFinished`). `docs/web-user-interaction-flows.md:50` says that both queries are
   invalidated when a poll detects `completed`. Only the jobs are polled, the API is asked
   for available and running ones, and nothing invalidates the list: the pending row
   goes, and the index is nowhere until the page is left and, after 30 seconds,
   mounted again.
3. **A failed job's row goes without a word** (`hooks/useWorkflows.ts:5`, `ListPagesRaces`).
   `docs/web-user-interaction-flows.md:152` says: "If the job later `failed`, the merged
   row's badge turns red and a toast shows the error summary." The API is asked for
   available and running jobs only, so the next poll takes the row of a job that failed, or
   waits for its retry, and nothing raises a toast. `PendingRowsFollowTheirJob` shows that the
   row always goes, for a failed job as for a completed one: the run passes where the document
   would have it fail.

Four more were found with TLC and are now explained by a property that holds. Each can
be reproduced with the definition named, which stands at the end of its module, in place of
the properties of the module's run:

4. **A retry loses what the checkpoint counted** (`eval_worker.go:208`;
   `CompletedIsComplete` of `EvalJob`). Its rows are deleted with the previous run and its
   questions are skipped. `CompletedRunIsSuffix` says exactly what is left. Since subscribers
   finish in any order, the number of stored results does not even say which questions they
   were.
5. **A retry with nothing left can never complete** (`eval/metrics.go:22`;
   `DiscardedOnlyByFaults` of `EvalJob`): the averages are 0/0, and NaN cannot be encoded.
   `WhyDiscarded` has this as its second reason.
6. **A killed clone is never repaired** (`preprocess_worker.go:86`;
   `DiscardedOnlyByFaults` of `PreprocessJob`). Any directory counts as a clone, so
   retries update what a killed `git clone` left, and fail.
7. **A document indexed in part may be reported as indexed** (`index_worker.go:94`;
   `IndexedIsWhole` of `IndexDocument`): the `select` may take the closed `chunkCh` and leave
   the error in `errCh`. `PartialOnlyBetweenBatches` says when alone this happens. Likewise
   **a job that was cancelled, or whose index was deleted, completes** (`index_worker.go:231`;
   `CompletedIsIndexed` of `IndexJob`): after its hour every further document fails at once,
   and the job is recorded as completed. `CompletedIsExplained` lists what may be behind a
   document that is missing.
8. **A reconnect breaks the retries of others** (`qdrant.go:297`; `LostConnectionIsRetried`
   of `QdrantStore`): they meet a nil client, which is not retried, or dereference it.
   `OnlyOverlapHurts` says when alone.

Seen on the way in the Go code: an evaluation that ends before its first
checkpoint leaves its run and rows behind, though the comment at `eval_worker.go:102`
speaks of every retry; a document timeout of 0 fails every document, though
`api/service_workflow.go:23` logs it as "no timeout"; the fixed chunker may add a chunk
that repeats only the overlap (`CutAsExpected` allows it that, and nothing else),
unlike the sketch in `docs/streaming-architecture-design.md:99`; a preprocess job whose
tag was used for an earlier version with more files, or with other include directories,
cannot pass verification, and its retries only verify again (`WhyDiscarded`).

Seen on the way in the dashboard; the models do what the code does in each case.

- Lists. A failed first load shows "No ... yet", since no page reads `isError`. A sort is
  a no-op (`DataTable.tsx:70`). The page is not moved back when rows leave
  (`DataTable.tsx:87`): `EmptyPageMeansShrunk` is exact. Two jobs of one tag give rows of the
  same key. A job that waits for its retry is in neither state the API is asked for
  (`useWorkflows.ts:5`), so its row vanishes and the dashboard says "All complete". An upload
  that is no JSONL deletes the dataset of its name, and the list goes on showing it.
- Runs. A deleted run stays selected (`RunList.tsx:36`), and its comparison is a skeleton
  for ever (`RunCompare.tsx:77`); so is one of six targets, which a changed base makes
  possible. The row that is open stays open on the next page of questions
  (`RunDetail.tsx:97`). The page number also stays when the browser's history leads to
  another run, and the empty page this may bring stays cached: the pager can lead to it
  later (`jumped`). A run without questions is `null` in the API's answer and throws in
  RunDetail. A missing metric is compared as 0 and looks better where less is better
  (`RunCompare.tsx:22`); a run tagged "Base", or two tags with the same first 14 characters,
  share a line of the radar (`RunCompare.tsx:54`). Rows of tokens are coloured
  (`RunCompare.tsx:272`), against `docs/web-user-interaction-flows.md:494`.
- Chat. Answers cut short and questions without an answer stay in the next prompt; leaving
  the page loses the conversation; the settings are in no form, so 0, fractions and empty
  models reach the API. `README.md:105` of the repository describes a `conversation_id` and
  a ring buffer that the code does not use.
- Shell. Ctrl+K takes the application down (`ui/command.tsx:47`). Two tabs that press d
  across each other's events end with different themes (`theme-provider.tsx:182`); a tab that
  starts misses a change between its render and its effects, and every tab ignores
  `localStorage.clear()`: these are the three cases of `strayed` in `TabsAgree`. `/Datasets`,
  typed with a capital, shows the page with no item marked, which is the exception in
  `SectionIsMarked`. The sidebar's cookie is written and never read. On a
  narrow screen nothing but Ctrl+B opens the sidebar, and it stays open after a link.

## Proofs

Every module of proofs has the same outline: `Init` establishes `IInv`, every action
preserves it, and the theorems follow from `IInv` by PTL. The only assumptions are
those on the constants, named in the modules.

**`EvalPipelineProofs`**, for every number of questions, every finite non-empty set of
subscribers, every positive batch size (what `Validate` in `api/types.go` enforces) and
every set of faults: `TypeCorrect`, `RowsUnique`, `CheckpointDurable`, `MetricsAgree`,
`SuccessComplete`, `PartialFails`, and `ImplementsAttempt`, that every step of the
goroutines is a step of `EvalAttempt` or a stutter.

None of the invariants is inductive alone. That success is complete is decided
long before `Returned`: a question must not have been lost anywhere on its way. So
`IInv` says where every question is. `CountersOrdered` orders the four counters,
which places the questions in the two FIFO channels; `HandsOK` and `OnePlace` say
that one past them is in one subscriber's hand, in `resultChan`, in the batch or
stored, and in one of these only; `EndsOK` says that a goroutine that ended without
an error did so because its input had ended, and that no question is missing until
some goroutine ends with one. Two facts carry the weight. The deferred closes only
tell "no more input", so a stage cannot know whether its input ended or broke off:
`EndsOK` is therefore conditional on `~groupErr`, and success on the error having
been recorded before `g.Wait` returns. And after an insert that failed ambiguously
the collector has stopped, so `RowsExact` may be given up exactly there (`coll` in
`Closed`) without touching metrics, which are never written afterwards. `MetricsOK`
then needs `Drained`: when the collector aggregates, every subscriber has ended
*and its error, if any, would be recorded*: a subscriber's error arises only from
a done context, and with a done context every further call of the collector fails.
The refinement maps the goroutines to `outcome` and otherwise uses the database
variables as they are.

**`IndexJobProofs`** is about `IndexDocument` first, for every number of chunks, batch size,
timeouts and faults: `CountReported`, `PrefixStored`, `PartialBetweenBatches`. `CountersOK`
places every chunk (offered, in the batch, stored) and keeps the batch below its size;
`EndOK` says that the chunker stops early only under a done context, and then leaves its
error; `PointsOK` that until `processFile` fails exactly the counted batches are stored. The
exception of `PartialOnlyBetweenBatches` needs `WholeBatches`: a rest is embedded only
after `chunkCh` was closed, and embedding under a done context fails. Then about the job,
for any documents, pool, attempts and faults: `PartialInJob` and `MissingExplained`. Every
step of the job is a step of `IndexDocument` for `Focus`, leaves that document alone, begins
it anew, or stops it (`DocInv`), so `IInv` of `IndexDocument` carries over; `PoolOK` adds that
a document is counted only as `processFile` returned it, and that what the attempt stored
is in the collection until it is dropped.

Last about `WordChunks`, for every size, overlap and length: `NothingLost`, `OverlapKept` and
`CutIsExpected`. `WindowOK` bounds the window, `CutSoFar` ties the last chunk to its first
word; the step `size - overlap` is positive because the constructors correct the overlap.
`CutAsExpected` speaks of finished chunkers, so `OnGrid` says of an unfinished one that its
chunks are the first windows of the reference (`WindowsGrow` adds one) and that the next one
begins where the reference's does; `FirstToReach` then shows that the window that reaches
the end is the reference's last.

**`QdrantStoreProofs`**, for every number of goroutines, requests, attempts and outages:
`AlwaysRepaired`, `HurtByOverlap`, `NoStaleClient`. All rest on `SomeoneRepairs`: while the
field is nil somebody is at "connect", and while it holds a closed client somebody is at
"nil". The goroutine that repairs may change when several reconnect, but one remains,
because only the assignment in `Connect` leaves these places.

**`EvalJobProofs`**, for every number of questions, set of batch sizes, number of attempts
and number of faults: `CompletedIsSuffix`, `CheckpointedIsCleaned`, `DiscardExplained`.
`CompletedRunIsSuffix` speaks of the last step of a job only, so `RunOK` says of the run
under way that it is over what whole batches have left and, until the final flush, holds
whole batches; `CheckpointOK` ties the checkpoint to a run: either the one under way,
which has at least as many rows, or an earlier one, which has been cleaned and whose
count is where this attempt began. That a checkpoint is a number of *whole* batches needs
the order of `collectResults`, in which only full batches are followed by one. `FaultsOK`
counts: each ended attempt met a fault, until a checkpoint counts everything. Its step is
`UpdateMetrics`, the one place where an attempt fails without a fault, and there
`CheckpointOK` shows that nothing was left. Numbers of questions are cardinalities of
sets; `BatchAdds` and `OneMoreBatch` are the facts about them.

**`PreprocessJobProofs`**, for any number of jobs of a tag, files, include directories,
upstream versions, faults and deletions: `TypeCorrect` and `CompletedFromClone`, the
action property `CompletedIsOfTheClone`. Verification compares names, never texts, so
the theorem rests on what was written earlier, possibly by an earlier attempt:
`CheckpointOK` says where Work can be under each checkpoint (no clone step once
`clone_done` is recorded, so the tree stays as it is), and `TextsOK` that while nobody else
touches the directories each listed file is still to be read, in a goroutine's hand, or in
the output as it is in the tree. `UntouchedJob` shows once for all actions that a step of
one job keeps the invariant of every other: whoever changes the directories marks them.
`DiscardExplained` is the action property `WhyDiscarded`. On top of `IInv` it needs `CloneOK`
(without a whole clone there is no tree, and one git at a time makes one) and `FailuresOK`: a
job nobody disturbed finds what it saw a step before, so a goroutine of its
`ProcessAllFiles` fails only by a fault of the attempt. What is left is verification:
`VerificationFails` shows that undisturbed files which were all processed pass it but for
the reasons `WhyDiscarded` lists, texts that are refused and the two sizes among them; a text
cut short by an earlier attempt has been written again by then, as `CheckpointOK` says that
verification comes after `preprocess_done`. That the two counts agree is the lemma `EachListedOnce`, a
bijection between the files met on the walks and the listed ones, which exists unless two
include directories have a file in common.

**`EvalPagesProofs`**, for any number of runs and questions, any limits, metrics and scenes:
`TypeCorrect`, `OverLimitByFormerBase`, `PagerIsSafe`, `OnlyTheSelectsAreRefused`, and
`SignsNeverDisagree`, which needs no state. The pager acts on an answer that may be old: since
it was read the run may have grown, been emptied by a retry, or been deleted, and the answer
to the page it leads to may be read at any later time. What makes it safe is that a run's
rows only grow until they are all deleted, and then never come back, since a retry makes a
run of its own. `Emptied` says that, `Reached` that a page was there once or the run is
empty, and both are kept by every step (`Onward`). `AskedOK` then says that each page of
questions in the cache was asked for while it was reached, or by a jump, and `AnswerOK` that
an answer, on its way or stored, has no questions only if the run had none at all or a
jump asked. `OverLimitOnlyByFormerBase` rests on `SelectionOK`: what is selected beside the
additions by a choice of base is at most `MaxCompare`, because a checkbox counts everything
that is selected. `OutcomesOK` goes through the checks of `EvalRefusal` for every form.

`EveryQuestionCounted` is about three sums over classes of questions. Since `Total` folds
`+` over a set, the proof makes its own induction: `SumsExist` takes a set of least size for
which the recursion of the fold has no solution (`Least`, from the well-founded order of `Nat`)
and shows that there is none; `CountAll` then adds a class at a time. `BucketsPartition` and
`BinsCover` are what is left of the code: every latency from 0 is in exactly one bucket, every
score JudgeAnswer lets pass in one of ten bins. The categories are counted whole; that a
chart with fewer bars than categories shows the largest is `LargestShown`. `ComparisonCoherent` needs `MaxIsMember` and
`RadarShowsALabelled`: of the lines with one label the radar keeps the last target's. The
assumption on the constants says for both that scores are within 0 .. 100 and that latencies
and averages are not negative.

**`ChatPageProofs`**, for any indexes, providers among the two the page knows, lengths of a
talk, sources, pieces of text and faults: `TypeCorrect` and the four invariants of the run,
`AnswersFollow`, `PromptIsWhole`, `RefusedForTyped`, `DotsTellTheTruth`. Streams outlive the
page's interest in them, so the first part of `IInv` is `StatusOK`: what the page still reads
is one answer at most, to the last question, and every other question's fate is decided.
`TalkOK` says of a conversation where its messages stand, and is kept for the page and for the
body of the request, which were the same when it was sent. `StreamOK` ties the three places of
an answer: what was asked, what the handler has put on the wire, what the page shows.
`WireOK` needs the order of the parts (sources, start, text, end), which `Lead`, the number
of parts before the text, makes arithmetic: nothing is shown only while a part that will be
shown, or an error, is still on the wire, and that is what the three dots promise.
`PromptIsTheConversation` follows since a question without an answer below it has a fate, and
`RefusedOnlyForWhatWasTyped` since a field is off its default only if it was typed in
(`AsTyped`).

**`DashboardProofs`** is about `AppShell` first, for any set of tabs, scenes and bound on the
events on their way: `ThemeIsShown`, `AllTabsAgree` and the action property `KeyFlips`.
`LastWordIsStored` says that the last event on its way to a tab carries what is stored, or
that the tab has it already, for every tab that has not `strayed`. That the events arrive in
their order is what `LastOfTail` uses. `ShellInv` is about the tab the user moves
about in: `ShellTypeCorrect`, `PagesSectionIsMarked` and `NamedOnce`. `PlacesOK` says that links,
palette and history lead to routes only; `MarkedBySection` and `MarkedItem` compute `isActive`
of every item for every page, so that exactly the section's item is marked, and none outside
the layout; `MarkedOnRespelled` does it for the addresses in other letters, `byUrl` in `PlacesOK`
says that these were typed; `NewsOK` bounds what is on its way between the tabs.

Then about `ListPages`, for any resource, names, number of jobs, requests and faults:
`FreshData`, `OnlyTheSourceIsRefused`, `ListTypeCorrect` and `PageHasRows`. A change that is acknowledged finds the query in one
of three ways, and `FreshFrom` has a word for each: it marks what is stored (`stale`), replaces
the fetch under way (`wire` is `Sent` again, so the server has yet to read), or, if it may not
replace it, leaves word (`overtaken`). An answer that the server reads now has every change
carried out so far (`applied`), and nothing is acknowledged before it is carried out (`CallOK`
keeps the number a request got), so what is on the wire, and later in the cache, is at least as
new as `acked`. `InvalidatedFresh` and `QueriesFresh` show that each operation of `QueryCache`
keeps this, for any number in the place of `acked`. `OnlyTheSourceIsRefused` goes through every
check of the API for every form that the browser lets through (`FormsAccepted`). The proof
assumes of the model values `Idle` and `Sent` that they are no answers (`AnswersAssumption`).

The other two rest on `PageInv`. `CountOK` keeps the requests within their bounds: those
carried out and those on their way are no more than were sent, and the jobs with the
unanswered creations no more than there may be. `CacheTyped` says that what is cached, or on its
way, is what the server may have answered, with no job twice. `FormOK` has the chips: `addChip`
adds none that is there, and what `filter` leaves of different chips is different
(`InOrder`, `EveryPlaceIsTaken`: the places of `SortedBy` are a bijection). `TableOK` is for
the table: it is fresh where it is not shown, and unless `shrunk` its page is the first or has
rows. Search and sort go to the first page and the pager stays within `TotalPages`, whose
division is in `PagesNeeded`; rows change under the table only by an answer, and `MatchesStay`
shows that a filter keeps at least as many rows as long as no name has fewer: classes that grow
one by one grow together, again by induction over a finite set. That is why a table needs
finitely many names, `DataTableAssumption`. `OutOfRangeIsEmpty` links the range to the empty
page. `shrunk` therefore is the whole reason for a "No data" over matching rows.

Which of these a run checks, too: `SuccessIsComplete`, `RefinesAttempt`,
`CompletedRunIsSuffix`, `CheckpointedRunIsCleaned`, `WhyDiscarded` of `EvalJob` and of
`PreprocessJob`, `CompletedIsOfTheClone`, `PartialOnlyBetweenBatches`, `CompletedIsExplained`,
`CutAsExpected`, `OnlyOverlapHurts`, all six invariants of `EvalPages`, all four of
`ListPages`, all five of `ChatPage`, and of `AppShell`
`ShownIsTheTheme`, `TabsAgree`, `KeyFlipsWhatIsShown`, `SectionIsMarked` and `LabelOrTooltip`.
That is every invariant and every action property of the passing runs, and the refinement.
The type invariants of the Go modules and of `AppShell`, the inductive invariants and the
remaining theorems were checked with TLC before they were proved and have no run of their own
any more.

Model-checked only: liveness (`AttemptReturns`, `ReturnsOrWedges`, `JobEnds`, `JobsEnd`,
`IndexJobEnds`, `StoresEndConnected`, `PendingRowsFollowTheirJob`, `PagesSettle`,
`DashboardGoesIdle`, `WaitingEnds`), which is out of the prover's reach. That is all of what
the passing runs check and no theorem states. The prover cannot instantiate an induction
theorem either; where a fold over a set had to be reasoned about (sums of counts, rows by name)
the induction is written out, by a least counterexample.

## Hazards no property covers

`PROJECT.json` lists the hazards with the properties that would notice them. These are
known and have none:

- a crash after `UpdateRunMetrics` and before River records the result
  (`eval_worker.go:104`): the retry deletes the rows but leaves the metrics of that run;
- the dataset replaced between attempts (`eval_worker.go:189`, `router_dataset.go:63`);
- points of chunks that a re-index no longer has (`qdrant.go:122`): nothing removes them;
- the back-off that all requests share (`embedder/retry.go:32`);
- a negative overlap in the fixed chunker (`fixed.go:78`), which nothing on the server refuses:
  only the form's `min` keeps it from being entered;
- a deleted run stays selected, or the base (`RunList.tsx:52`).

Two groups listed there with properties are narrower than they look: `WhyDiscarded` and
`CompletedIsOfTheClone` say nothing of preprocess jobs that somebody else disturbed, and
`PagesSettle` nothing of a comparison that was refused or has failed. What the
code does there contradicts no sentence of the documentation.

## Not modelled

The circuit breakers, whose state machine is the library gobreaker's; rate limiting and HTTP retry,
which the models see as a call that succeeds or fails; MMR and the averages of metrics
(floating-point); the recursive chunker's descent through headings and sentences; prompts,
texts, parser, configuration, migrations. Chat memory and `PollUntilTerminal`, which no
program uses. In the dashboard the styled primitives, which have no state, the drawing of
charts and Markdown, and the components no page imports (`MetricsTable`, `MetricsCards`,
`JobTimeline`, `EmptyState`, `api/chat.ts`, `useJob`, and most of `components/ui`). In
`AppShell` the browser's history, addresses with percent escapes, and storage events of other
keys or of the session's storage, which change nothing.

The documents of an index job are taken not to change between its attempts, and a chunker
of one attempt to end before the next attempt begins the same document. The dataset file is
taken not to change during a job; a checkout is taken to change all
files at once unless it is killed; verification reads clone and output in one step; what an
included file adds to another is not told apart from that file's own text. Jobs are never
`cancelled`, since nothing cancels one.
