# Verification of filepipeline

TLA+ models of `filepipeline`, model-checked with TLC on small instances, and
theorems about them checked by TLAPS. Paths below are relative to the
repository; `repository/`, `worker/` and so on are under `internal/`.

## 1. The system

A file is uploaded through an HTTP API, becomes a row of the SQLite table
`tasks`, and passes the stages VALIDATE, EXTRACT, SCAN and DONE. The API
(`cmd/api`) and the workers (`cmd/worker`; docs/01, 4.3 provides for several
processes) share nothing but the database file and the upload directory.

| Component | State | Operations | Hard part |
| --- | --- | --- | --- |
| `domain` | none | `NewTask`, `Stage.Next`, `CanTransition`, `Retryable`, `FormatTime` | the rules are restated in SQL and may disagree |
| `repository` | `tasks`, `task_events` | one statement or transaction per write | its callers hold copies of rows; what each WHERE compares |
| `worker.Processor` | the claimed copy | execute a stage, persist the outcome | the claim may be lost meanwhile |
| `worker.Worker` | job channel, goroutines, tickers | poll, dispatch, reclaim, shut down | bounded channel, leases that run while queued, cancellation |
| `service` | none (random source) | validate, extract, scan, backoff | the scan service answers now, later, twice or never; limits in bytes against text in characters |
| `api` | none | upload, detail, list, manual retry, scan callback | read, check, then write in another transaction; two reads without one |
| `storage` | files | save, open, remove | a file and its row are not written together |
| `migrate` | `schema_migrations` | apply what is missing | two processes migrate at once |
| `telemetry`, `api/middleware` | counters under a mutex | begin, observe, snapshot, recover | one request is counted in two critical sections; panics |
| `web/app.js` | filter, page, total, selection, what is displayed | load list, load detail, page, refresh | overlapping calls answered in any order |
| `config` | none | read and check settings | the limits the arithmetic relies on |

What makes each correct: the repository never lets two claims of a row both
write, counts each stage once, and keeps attempts and manual retries within
their limits; a waiting task stops waiting; an uploaded task ends, whatever
crashes; an ended task is never touched again; the pool uses its channel as Go
demands, drains it, and stops when cancelled; deadlines hold although they are
compared as text; the stages judge the file that was uploaded; a snapshot of the
counters adds up; the page comes to show what the table says.

`PROJECT.json` lists every component and, under `hazards`, every place in the
code that is hard to test, with the properties that cover it.

## 2. The modules

| Module | Models |
| --- | --- |
| `TaskDomain` | `domain/status.go`, `domain/task.go`: a row, statuses, stages, limits |
| `TaskStore` | `repository/task_repo.go`: each statement's WHERE clause and effect as operators on the row in the table and the caller's copy |
| `FilePipeline` | the whole: table, log, worker processes, API handlers, time, crashes. EXTENDS `TaskStore` |
| `TaskLifecycle` | the abstract specification: the moves one task can make, without rows, leases, versions or workers |
| `WorkerPool` | `worker/worker.go`: the goroutines, the channel and the shutdown of one process |
| `Migrator` | `migrate/migrate.go`: several processes bring one schema up to date |
| `Upload` | `api.Upload` and `storage/local.go`: an upload's file and its row |
| `Deadlines` | `domain.FormatTime`, the comparisons of its texts in SQL, `service/retry.go` |
| `FileContent` | `service/validator.go`, `service/extractor.go`, what `storage.Save` records: operators on classes of bytes |
| `TimedTask` | one task on a clock with its file: what `FilePipeline` abstracts from. EXTENDS `Deadlines`, `FileContent` |
| `Telemetry` | `telemetry/` and `api/middleware.go`: the handler chain around every request, and the counters |
| `WebPage` | `web/app.js`, the handlers `GetTask` and `ListTasks` and their reads. EXTENDS `TaskLifecycle`: the table it reads moves as the abstract specification lets it |
| `FilePipelineProofs`, `LifecycleProofs` | theorems about `FilePipeline`; the second EXTENDS the first and has the refinement and the logs |
| `MigratorProofs`, `UploadProofs`, `WorkerPoolProofs`, `TelemetryProofs`, `WebPageProofs`, `TimedTaskProofs` | theorems about the module they are named for |
| `MC...` | the specifications with symmetry sets or small data, for TLC |

The parts compose in two ways. `FilePipeline` composes table, workers and
handlers; its refinement of `TaskLifecycle` is what `WebPage` builds on, so a page
is checked against any pipeline that keeps that promise. `WorkerPool`,
`TimedTask` and `Upload` look closer at what `FilePipeline` leaves open: where a
claim is between poller and goroutine, when a deadline passes and how a stage
decides, how a row comes to have its file.

### The row, and time

`Row` has the columns the code decides on. `leased_until` and `next_run_at` are
kept as what a comparison with the clock can tell: a lease is absent, live or
expired; `next_run_at` is in the future or due. `LeaseExpires` and
`NextRunComes` let each pass at any moment, so no property depends on lease
lengths, backoff, callback wait or the clocks of two processes agreeing. `error`
is whether `error_code` is set. The log is the number of events of each kind
per task, with SUCCEEDED counted under its stage.

### Steps

SQLite serves one statement or transaction at a time, so each is one step, and
so is each step of a process in its own memory. In `FilePipeline`:

| Action | Code |
| --- | --- |
| `CreateTask` | `Repository.CreateTask`, the INSERT of an upload |
| `SelectPending`, `ClaimPending`, `ClaimError` | `ClaimPending`: the SELECT, one UPDATE for each candidate, an UPDATE that fails midway |
| `Dispatch` | the send in `claimAndDispatch` |
| `Execute` | `Pipeline.Execute`, with the outcomes of validator, extractor and scanner |
| `Process`, `ProcessError` | `Processor.Process` and `handleFailure`: the transaction for the outcome, lost to the fence or to an error |
| `ReclaimExpired`, `ReclaimCallbackTimeouts` | the two tickers of `Worker.reclaim`; one transaction for all the rows |
| `Crash`, `Restart` | the death of a process; `Run`'s reclaim at startup |
| `ReadForCallback`, `ScanCallback` | the handler's GetTask and check; `ApplyCallback` |
| `ReadForRetry`, `RetryTask` | `ManualRetry`'s read and check; its transaction |

A copy in `candidates`, `claimed`, `jobs`, `executed` or `callbacks` is the row
as it was read. `TaskStore` keeps the source's choice of what a clause or an
assignment takes from the row and what from the copy: `FailStage` counts from
the copy, `MarkWaitingCallback` from the row, `ApplyCallback` decides on a copy
that no WHERE compares. `submitted` is what the scan service knows; a request
whose answer is lost is an error for the worker while the service has it.

`LIMIT` keeps any `BatchSize` of the due rows, not the oldest: `created_at` is
text in which times of one second do not sort by time. The channel is a set:
its order does not matter to the table. In `WorkerPool` it is a sequence, and a
row is its status alone: there the question is the protocol of the goroutines.
A copy carries `fresh` in place of a version, and a reclaim of its row ages it.

`Migrator` is the path of `Apply` and `applyOne`, one label of `pc` for each
statement. SQLite's write lock is taken by BEGIN IMMEDIATE and left by COMMIT or
by the deferred ROLLBACK. A file's SQL can be repeated (001 creates what does not
exist) or not (002 and 003 add columns). `Error` is any call that fails, a busy
timeout included; `Crash` loses the transaction; `Restart` runs `Apply` again.

`Upload` follows a request through `Save`, `NewTask`, the INSERT and the removals
on the way out. A file and its row are their length in chunks, which stands for
the hash as well. The client may leave at any moment, which cancels the request's
context: `Save` looks at it before each read, the INSERT fails under it, and
`Remove` is called without it. `CreateTaskLate` is an INSERT that takes effect
and still returns the context's error; `database/sql` does not exclude it. In
`FilePipeline` an upload is its row alone; what `Upload` adds there is that the
row of an upload answered with 201 can be validated.

`TimedTask` has a clock in ticks, `Radix^Digits` of them to a second (10^9 in the
code). `FormatTime` keeps a time as the seconds and the characters that follow
them, without trailing zeros, and `Before` and `NotAfter` compare as SQLite
compares text. Its row, claim, failure and reclaim are those of `TaskStore` with
times in place of "due" and "expired". `Validate` is the list of checks in the
source's order with the code of the first that is not passed; a file is a
sequence of bytes of the kinds the checks tell apart, a character outside ASCII
being two bytes, and the limits (512 bytes, 64 KiB, 10 MiB, 4 KiB of summary)
are constants. `Damage` is a stored file lost or written over at any moment.

`Telemetry` takes a request through Instrument, Recover, Logging and the mux:
`Begin`, any headers and writes of the handler, `Return` or a panic (`Recover`),
and then the two critical sections `Finish` and `ObserveHTTP`. The metrics
endpoints are themselves requests, so they see themselves in flight. `sent` is
what net/http has put on the wire and `status` what the recorder believes;
`Ledger` compares the counters with the former. `NormalizeRoute` works on the
parts of a path and on what `looksLikeIdentifier` asks of each.

`WebPage` sends a call without waiting for the last, as `loadTasks` and
`loadDetail` do; a handler makes its two reads as two steps; answers come in any
order, or not at all, and `RenderDetail` does not ask whether the task is still
selected, since the code does not. The panes share nothing but the table, so a
behaviour has one in use, which keeps the instance small and loses no
interleaving.

## 3. The properties

Checked by TLC and, where section 5 says so, proved. Of `FilePipeline`:
`FenceSound` (an equal version means the claimed row), `SingleOwner`,
`VerdictGate`, `StageLedger` (each stage has exactly one SUCCEEDED event once
passed), `FailureLedger`, `AttemptBudget`, `DeadIsExhausted`, `RetryLimit` (each
callback answered costs the limit on manual retries one at most),
`EveryWriteVersioned`, `ChangesLogged` (BR-7 as the code keeps it),
`EveryTaskSettles` (liveness; a wait for a callback ends, or its task would not),
and the refinement `LifecycleSpec`. Of `WorkerPool`: `OneFreshCopy`,
`ChannelProtocol`, `DrainedOnReturn`, `ShutdownEnds`, `PollerUnblocks`. Of
`Migrator`: `RecordedIsChanged`, `InOrder`, `ReadyIsComplete`, `FailureHasCause`,
`AllBecomeReady`. Of `Upload`: `TaskHasFile`, `AnsweredIsStored`, `OrphanHasCause`.

Of `TimedTask`: `BackoffRespected` and `LeaseRespected` (neither deadline is cut
short by more than the second in which texts may be misordered), `BackoffBounded`
(the documented backoff and its jitter, no more), `FilesJudged` (with a file that
fits the prefix, docs/01, 5.1 decides, but for two demands that the code does not make
and run `docs` shows, whatever happens to the stored file meanwhile), `SummaryWhole` (within the limit, and UTF-8 when the file
is). Of `Telemetry`: `Ledger` (what is counted is what clients were
answered), `HistogramIsTrue` (each cumulative series, `+Inf` included, is the number
of requests it stands for), `SnapshotBounds` (no request both in flight and
completed), `SnapshotsOrdered`, `BegunIsCounted`. Of `WebPage`: `DetailIsCovered`
(a row on display has its events beside it, for the row is read first),
`PageCoversTotal`, `PageExists`, `DetailConverges`, `ListConverges`.

Proved, and therefore not spent a run on: each module's `TypeOK`; `LeaseShape` and
`WaitingShape` (which columns go together), `FinalIsFinal` (BR-6), `LockHeld` (who
holds the migration lock), `InflightBalance` (the gauge is the requests between
its two updates) and `RefusedWhenCut` (a text is refused only when the prefix ends
within a character). `ExhaustedIsDead`, the retry limit as docs/05, 4.2 has it, is proved
for a pipeline without callbacks and refuted by the run `stale` for one with them;
`RetryLimit` is what the code keeps in general.

`LifecycleSpec` promises more than legal moves: `TaskLifecycle` keeps the log, so
each move leaves its event and a stage is logged once, by the move that passes it.

## 4. The runs

| Run | Instance | Question |
| --- | --- | --- |
| `race` | 1 task, 2 processes, 2 callbacks, 1 manual retry, 1 attempt, one slow lease, one crash | does the version fence hold when every holder of a row can be late or dead, and do callbacks, timeouts and retries, handled on stale copies, keep verdict, row and log consistent |
| `batch` | 2 tasks, batches of 2, 2 goroutines, 1 callback, 3 manual retries, limit 1, one fault | does every step of the table move each task legally, in a new version, and log it unless it is a claim; what can retries and a callback cost the limit |
| `settle` | 1 task, 2 attempts, 1 callback, one slow lease, one crash, one fault, with fairness | does the task end, whatever is late, lost, failed or done again, and is it never left to run without an attempt |
| `pool` | 2 tasks, 2 goroutines, batches of 2 (channel of 4), with fairness | is the channel used and drained as Go requires, is a blocked poller released, does a cancelled process end |
| `migrate` | 3 processes, 3 files, one failure, one death, with fairness | do processes that start together apply each file once, in order, without making each other fail, and all get to work |
| `upload` | 2 uploads of up to 3 chunks, limit 2, two failures, one late INSERT error, one crash | does every task have its file, does every file without a task have a cause |
| `timed` | 1 task, 14 ticks of a quarter second, 4 attempts, cap of 2 s, jitter 20%, lease of 5 ticks, 22 files of up to 6 bytes, 1 worker | do text-compared deadlines keep backoff and lease, do the stages judge the file that was uploaded |
| `telemetry` | 3 requests (3 scrapes, or 1 and two spellings of one route), 2 bounds, with fairness | do counters and snapshots add up under panics and concurrent reads |
| `page` | 2 tasks, pages of 1, 2 filters, 2 calls under way, 3 moves, 3 clicks, one failed call, with fairness | does what is displayed hang together, and come to agree with the table |

Bounds. One task is enough where the question is about one row, for no
statement but the batch of `reclaim` looks at two; two tasks make batches and
`LIMIT` real. Two processes are the fewest that can race; a third could only
repeat what either does, since each keeps copies and meets the others at the row
alone. `race` and `batch` have one attempt, so that a failure
is at once a last one, and the callbacks and retries that follow it fit in the state
graph; `settle` has two, so that a stage which failed, or whose callback timed out, is
submitted again after its backoff. `MaxManualRetries` is 0 or 1 in place of 3, and the
requests can pass it: in `batch` two retries of one task read it FAILED before either
writes, a callback on a stale copy leaves it FAILED with the limit used up, and a third
request is there to retry it once more. Leases run out under a live holder in `race` and
`settle`, processes die there, and a failed transaction or a claim that fails midway
has to be survived in `batch` and `settle`. `settle` has one task,
for TLC searches its state graph for cycles: that `LIMIT` never starves a task for ever
is not checked, and rests on the bound on attempts. `MaxSlow`, `MaxCrashes` and
`MaxFaults` bound how often a lease runs out under its holder, a process dies and
a call fails; leases that nobody holds always run out. Three
migration files give a repeatable one and two that are not, with an order between
them. Two uploads are there for the crash that ends both; they share nothing else.
Two chunks and a third past the limit give a file that is cut, one that ends on the
limit and an empty one. Two tasks fill the channel of four in `pool`, with stale
copies of claims whose lease ran out. In `timed` a second has two digits, so there
are fractions of no digit, one and two, which is all that the order of texts depends
on; four attempts pass the cap; one worker is enough for deadlines, and the
theorems hold for any number; the files include one for every check and every
cut. In `telemetry` three requests allow two snapshots around the two critical
sections of a third; durations lie below 0, which the code takes for 0 and that is a bound, and above all bounds. In
`page` two calls are the fewest that overtake each other, and two tasks on
pages of one make an insert or a move between COUNT and SELECT shift the page.
`CHECK_DEADLOCK` is off where the model may really stop: in `FilePipeline` when
the tasks have ended and the requests are used up, in `TimedTask` when its clock
reaches `MaxTime`, in `WebPage` when no pane is refreshed and the bounded clicks
and moves are used up. `WorkerPool`, `Migrator`, `Upload` and `Telemetry` end in a step
that says so (`Terminated`, `AllReady`, `AllEnded`, `AllCounted`): there a stuck state is an
error.

Symmetry is used in safety runs only; `Procs`, `Tasks` and requests are
interchangeable in them.

Each property of a passing run has a mutant in `PROJECT.json`: a small mistake
in a mapped definition (the operators named `...Variant...`) that breaks it.

### Fairness

A worker process keeps polling, sending, executing, persisting and reclaiming
(its loops have tickers and no exit but the signal); a stage returns, because the
scanner's client has a timeout; deadlines pass; a crashed process is started
again (the assumption is on its supervisor, docs/01, 7 speaks of continuing after
a restart). All of this is weak fairness. Nothing is assumed of clients or of the
scan service: callbacks and retries may never come. In `WorkerPool` there is
strong fairness on one step, `PollReturns`: when a tick and the cancellation are
both ready, `select` chooses at random, and a poller that comes to the choice
again and again takes the cancellation in the end. In `Migrator` a process takes
the steps it can and is started again when it failed; SQLite does not promise the
lock to one that waits, but the others take it finitely often, so weak fairness
is enough. In `Telemetry` a handler that has begun ends, by returning or by a panic,
because the server has timeouts, and what is deferred runs. In `WebPage` the
interval of a visible page fires and each call gets an answer or an error in the
end; nothing is assumed of the user or of the tasks, and the properties speak of
what holds once both rest. `Upload` has no liveness property: a client may stall.
`TimedTask` has none either: its clock is bounded.

### What the documents say and the code does not do

Three runs look for a counterexample to a sentence of the documents, and find it.

- `stale`: docs/05, 4.2 (line 125) makes a task DEAD when it fails with its
  manual retries used up. `ApplyCallback` decides on the handler's copy. A handler
  that read the task before its callback timed out, it failed, the last manual
  retry ran and a new wait began, leaves it FAILED with no retry left. In the same
  way `attempts` may go back to the copy's value, so that a scan can start more often
  than docs/01 (line 203) allows: `AttemptBudget` bounds the counter, not the scans.
- `cut`: docs/01, 5.1 (line 129) accepts text that is UTF-8 without NUL.
  `Validate` checks the first 64 KiB, and when they end within a character it
  refuses the file, on every attempt. `RefusedOnlyWhenCut` proves that a text is
  refused for no other reason.
- `docs`: the same list wants printable text, and a `.json` that begins with a brace
  or a bracket after white space (lines 129 and 130). `validateMagic` looks for no
  control character but NUL, and lets a `.json` of white space alone pass.
  `AsDocumented` is the documents' list; `Acceptable` is what is left of it without
  these two demands, and `FilesJudged` holds the code to that. TLC stops at a text
  with a control character; with that file taken out of `MCUploads`, at the `.json`.

Seen while modelling, and not worth a run:

- BR-7 (docs/01, line 234) logs every change of status; a claim is not logged.
  `ChangesLogged` shows that all the others are.
- docs/05, 7 rolls unfinished tasks back to PENDING at shutdown.
  `claimAndDispatch` drops those it has claimed and not sent; they stay PROCESSING
  until another process reclaims them. Its own comment says so.
- The table of docs/01, 4.2 and `domain.CanTransition`, which nothing calls, do not
  allow PENDING to become FAILED or DEAD; a callback timeout on the last attempt and
  a callback with verdict `error` do that. `TaskLifecycle` has the moves the code
  makes.
- docs/05, 4.1 (line 116) gives 30 s from the fourth attempt on; `Delay(4)` is 8 s.
  `BackoffBounded` and `BackoffRespected` hold the code to the formula above that table.
- A NUL, or bytes that are not UTF-8, after the first 64 KiB pass `Validate`;
  `FilesJudged` is about files that fit the prefix. A stored file that cannot be
  opened fails with ERR_MAGIC_MISMATCH. EXTRACT compares no hash: a file written over
  after VALIDATE is summarised as it then is. `.yml` is known to the extractor but not to
  the whitelist.
- A detail answer that comes after the pane was closed opens it again until the
  next click. A task inserted between COUNT and SELECT can hide the last row of a page until the next
  refresh, and paging through a filter skips tasks as others leave it.

## 5. The proofs

`FilePipelineProofs` proves, for any sets of tasks, processes and requests, and
any limits that satisfy `LimitsAssumption` (`MaxAttempts` at least 1, as
`NewTask` ensures) and `PoolAssumption` (not needed by the arguments):

| Theorem | States |
| --- | --- |
| `TypeCorrect` | `Spec => []TypeOK` |
| `Safety` | `Spec => []IInv`, the inductive invariant |
| `WaitingIsBetweenStages` | `[]WaitingShape` |
| `LeaseMeansProcessing` | `[]LeaseShape` |
| `FenceIsSound` | `[]FenceSound` |
| `VerdictIsRequired` | `[]VerdictGate` |
| `AttemptsAreBounded` | `[]AttemptBudget` |
| `DeadOnlyExhausted` | `[]DeadIsExhausted` |
| `WritesAreVersioned` | `EveryWriteVersioned` |
| `FinalStaysFinal` | `FinalIsFinal` |
| `OneOwner` | `[]SingleOwner` |
| `RetriesAreLimited` | `[]RetryLimit` |
| `ExhaustedDies` | `[]ExhaustedIsDead`, when `Callbacks` is empty |

The argument. None of the properties is inductive alone. `FailStage` keeps
`AttemptBudget` only if the attempts in its copy are the row's; that is
`FenceSound`. `FenceSound` survives other callers only if whatever they change
takes a new version, and a copy's version is never ahead of the row's. So
`IInv` says of every row that its columns agree (`RowOK`), and of every holder
what it may rely on: a candidate is the row when the versions agree
(`CandidateOK`), a claim is the row but for its lease (`ClaimOK`), an outcome is
one its stage can have (`OutcomeOK`), and a callback handler, whose copy no
version protects, has a retry count not above the row's (`CallbackOK`), which is
enough for `DeadIsExhausted` and not for its converse (run `stale`).
`Evolves(r, s)` states how a row may change in one step: by a new version, or by
a deadline that passes. `Frame` shows once that every copy that stays in place
keeps what it had when all rows evolve. Each action then has to show that the
rows it writes are well formed, that they evolve, and what its new copies are.
`WritesAreVersioned` and `FinalStaysFinal` come from the same steps: every step
lets all rows evolve, and no statement's WHERE clause admits a row that ended.
`OneOwner` rests on what `IInv` says of versions: a claim takes a version no older
copy has, so a claim that is current after a step either was current and in the
same place before it, or is new and the only one (`OneHolder` between processes,
`OneStep` within one).
`RetriesAreLimited` needs beside `IInv` that each request has one handler
(`Requested`), so that every write of a callback makes one more of those answered. A
write that decides on the row, or on a copy the fence has shown to be the row, leaves
it FAILED only when a retry was left, and adds to the retries only by the retry of a
FAILED row (`Lawful`), which keeps any limit. A callback decides on a copy that nothing
compares: it may leave the row FAILED with no retry left, and so cost one more, but it
does not change the count (`StaleCosts`). With no callbacks the allowance is zero,
which gives `ExhaustedDies`.

`LifecycleProofs` proves `PipelineIsLifecycle` (`LifecycleSpec`, the refinement, for
every task), `StagesAreCountedOnce` (`StageLedger`), `FailuresAreCounted`
(`FailureLedger`) and `ChangesAreLogged` (`ChangesLogged`). `ViewOf` is the abstract
task of a row and its log. What a write may do is said once, without actions: by
its fence, its row and its copy agree, so each of the repository's writes maps to
one move with that move's event (`WriteStep`, `LoggedMove`), a claim to `Start`
(`ClaimMove`), everything else to a stutter. The ledgers are then proved of the
abstract task, where they are an invariant of its moves (`MoveKeepsAccounts`), and
carried back through the view. `Inserted` (what is not a task has no events and no
copies) is the strengthening the refinement needs beside `IInv`.

`MigratorProofs` proves, for any processes and any number of files (at least one,
`CountAssumption`), `MigrationInvariant` (`Spec => []IInv`) and from it
`RecordedMeansChanged`, `MigrationsInOrder`, `ReadyMeansComplete` and
`FailuresHaveCauses`. What makes the properties inductive is `Known`: the versions
a process read are still recorded, all before its place in the loop are, and once
it has looked inside its transaction the version is not recorded until it commits,
since `LockHeld` and `OneWriter` keep the others out. `QuietStep` deals once with
the steps that commit nothing.

`UploadProofs` proves, for any requests and any limit (`LimitAssumption`),
`UploadInvariant`, `TasksHaveFiles`, `AnswersAreKept` and `OrphansHaveCauses`. The
strengthening is `Progress`: what is on disk and in the table at each point of the
handler. `OneRequest` says that a step of one request disturbs no other; only
`Crash` moves them all.

`MigrationTypes`, `LocksAreHeld` and `UploadTypes` are conjuncts of the two
invariants.

`WorkerPoolProofs` proves `PoolInvariant` and from it `PoolTypes`, `CopiesAreFresh`,
`ProtocolIsKept` and `RunDrains`, for any finite set of tasks (`TasksAssumption`; a
copy is counted, and the table's rows are finite), any number of goroutines and any
batch. `OneCopy` says where the copy of a task that may still write can be: in the
poller's batch, at one place of the channel, or with one goroutine, and nowhere
unless the row is PROCESSING; each action moves it from one place to the next.
`Returned` is what `WaitGroup.Wait` has seen when Run returns.

`TelemetryProofs` proves `TelemetryInvariant` and from it `TelemetryTypes`,
`GaugeBalances`, `LedgerBalances`, `HistogramsAreTrue`, `SnapshotsAreBounded` and
`SnapshotsAreOrdered`,
for any requests, paths, codes and bounds. Snapshots are ordered because each is
behind the registry as it is now (`Past`) and the registry never goes back; the
recorder's code is the one sent because only it passes headers on. A histogram's
series are sums over buckets, which is an induction; `SumOnSet` does it without one,
from the least number of buckets at which the sum would not be the count of the
requests in them.

`WebPageProofs` proves `PageInvariant` and from it `PageTypes`, `DetailCovered`,
`PagesExist` and `PagesCoverTotals`. `CallsCovered` says of a call whose row has been read and whose log
has not that the log in the table already accounts for that row; logs only grow,
so it still does when it is read. `TotalsBounded` says the same of counts: no
total that was ever read is above the count now, since tasks are never deleted. A
page is the tasks whose rank, the number of tasks not older, lies in its window. Ranks
are distinct and none is above the number of tasks, so every place is taken
(`RankIsOnto`), and a page has a row for each place of its window (`PageIsFull`).

`TimedTaskProofs` proves `TimesInvariant` and from it `TimedTypes`,
`BackoffsAreBounded`, `BackoffsAreKept` and `LeasesAreKept`, for any radix, digits, cap, jitter and lease
that satisfy the assumptions. All that is used of the text order is `PastLater`
and its companions: times that the texts misorder lie in the same second. The
deadlines on the row are tied to the times they were computed at (`ClaimTimes`,
`WaitTimes`), and a copy writes only while it is the row's claim (`CopiesFenced`). Whoever may
still run has an attempt left (`AttemptsLeft`), which keeps attempts in their type.

Its second part is about the file, for any bytes and limits: `FileInvariant`, and from
it `FilesAreJudged`, `SummariesAreWhole` and `RefusedOnlyWhenCut`. `PassesIs` shows that the seven checks of
`Validate`, in the form the code has them, let exactly the files pass that are `Acceptable`;
`CutIsText` that a text cut where characters start is text, which covers the lines,
the white space, the braces and the limit at which `Extract` cuts. The keys of a YAML
file are picked from many places of it: `KeysAreText` shows that no key cuts a
character, and `BytesAtAreText` that whole characters from any places make a text. That the row keeps
what was decided is again the fence's work: the write that takes effect is of the row
itself, and a stored file that was damaged is never again the one that was uploaded.

`tlapm FilePipelineProofs.tla` checks a module in full, and so for the others.

Every invariant and every action property that a passing run checks has a theorem.
Only model-checked are the liveness properties (`EveryTaskSettles`, `ShutdownEnds`,
`PollerUnblocks`, `AllBecomeReady`, `BegunIsCounted`, `DetailConverges`,
`ListConverges`), since TLAPS does not reason about fairness and ENABLED. Where an
argument needs induction on numbers, it takes a least counterexample (`WFMin` on
`NatLessThanWellFounded`), for the library's induction theorems cannot be instantiated
with the provers used.

## 6. Not modelled

- XML, the counts of words and lines, and the wording of summaries, events and
  errors. `Extractable` has of JSON one flat object, of YAML the one way its
  scanner fails, and of CSV no failure. The top-level keys of YAML are in its summary,
  each once, with a byte between them, in the file's order (`unique` sorts them).
- `net/http`'s content sniffing beyond a NUL and one signature, which counts only where
  the content begins.
- In `TimedTask`: callback waits and manual retries, which `FilePipeline` has
  without a clock; a clock that is set back. `Delay` cannot overflow: `config`
  keeps attempts at 20 or below.
- HTTP parsing and signatures (a callback that reaches the model has passed them).
- In `Telemetry`: times of day, the text of the two outputs, label escaping, and
  the recorder's `Flush`, `Hijack` and `Unwrap`, which Logging's `statusWriter`
  hides from the handlers.
- In `WebPage`: the disabled state of the buttons, the order of rows within a
  page, messages, the progress of an upload. An upload's end is `SetFilter` and
  `View`; a retry is `View` after a move of the task.
- Reading the environment and wiring in `config`, `router` and the mains: no state
  outlives those calls.

## 7. Plan

1. Core: `TaskDomain`, `TaskStore`, `FilePipeline`, `TaskLifecycle`,
   `WorkerPool`. Done, safety proved.
2. `Migrator` and `Upload`: done, safety proved.
3. `WebPage` (detail and list against concurrent writes), `TimedTask` with
   `Deadlines` and `FileContent`, `Telemetry`. Done, safety proved.
4. What could follow: callback waits on the clock of `TimedTask`.
