# timesync-analyzer in TLA+

Models, model checks and proofs for timesync-analyzer, a Go program that collects
clock synchronisation metrics from the nodes of a cluster, stores them in
PostgreSQL/TimescaleDB, and renders PDF reports of them, on request, periodically,
and when Grafana raises an alert.  Paths below are relative to the repository.

## 1. Inventory

| part | state it keeps | operations | talks to |
|---|---|---|---|
| **reportd job service** `internal/reportd/service.go`, `types.go` | `jobs`, `jobOrder` under `mu`; the channel `queue`; the atomic `seq`; one timer per delayed job | `enqueue`, `releaseScheduled`, `worker`/`runJob`, `markJob*`, trim, `getJob`/`listJobs` | HTTP handlers, webhook and periodic loop call `enqueue`; workers call `report.Generate`; the cleanup drops jobs |
| **report directories and cleanup** `reportd/cleanup.go`, `report/report.go`, `util.go`, `csv.go`, `pdf_maroto.go` | the output directory: `summary.csv`, `summary.pdf`, modification times | `Generate`; `runCleanup`, `activeReportDirs`, `dropJobsForDirs` | workers and the cleanup share the file system without a lock, and the job table under `mu` |
| **alert webhook** `reportd/grafana.go` | `alertLast` under `mu` | `handleGrafanaAlerts`, `reserveAlertFingerprint` | Grafana delivers, and delivers again after an error; calls `enqueue` |
| **batching storage** `storage/batch_pg.go` | seven buffers with a mutex each | seven `Insert`/`flush` pairs, `FlushAll`, `Run`, `copyViaTempTable` | ingest workers insert; the goroutine of `Run` flushes; the database commits |
| **node registry and watchdog** `storage/postgres.go`, `app/app.go` | table `nodes`; `nodeCache`, `lastSeen` under a lock each | `InsertNode`, `UpdateNodeInfo`, `ResolveNodeID`, `TouchNode`, `DeactivateStaleNodes`, `RunWatchdog` | ingest workers and the watchdog |
| **ingest** `app/app.go`, `adapter/zmq.go` | the channel `msgCh` | `Run`, `startWorkers`, `handleMsg` | reads a ZeroMQ socket; its workers call the storage; waits for the slider |
| **PTP topology** `storage/postgres.go` | tables `ptp_clocks` and `ptp_topology_edges` | `InsertPtpTopologySnapshot`, one transaction | concurrent ingest workers, row locks of the database |
| **requests** `reportd/handlers.go`, `parse.go`, `grafana.go`, `auto.go` | none | a POST, an alert or a tick becomes the window and the group names of a job, which the worker parses again | the job service |
| **panel rendering** `report/report.go`, `grafana.go` | channels of a pool of render workers | choice of the panels, `renderGrafanaCharts`, results put back in panel order | the Grafana renderer |
| **sliding metrics** `app/window_metrics.go` | none between cycles | a cycle over tables, nodes and windows; MTIE with two monotonic deques, TDEV, ADEV | reads offsets, writes `quality_metrics` |
| statistics loader, PDF and CSV contents, configuration, commands, schema | none of their own | | |

`cmd/main.go` and `cmd/reportd/main.go` both start reportd, with flags and with a
configuration file.  No command builds `App`, `RunWatchdog` or
`BatchPostgresStorage` at this commit: those are modelled as their code and tests
use them, and who starts and stops them is left open.

What is hard about these parts, and what makes them correct:

* **Job service.**  `enqueue` unlocks between inserting a job and sending its id;
  `releaseScheduled` between marking it queued and sending.  Meanwhile other
  requests trim the job away, fill the channel, or a worker runs it.  Table and list
  must agree at each unlock; each unfinished job must have exactly one timer, slot or
  worker that acts for it; a client must see a job move only along its life; each
  accepted job must end.
* **Directories.**  The cleanup checks an age and removes later; the name of a
  directory is the period of its report and nothing else.  A report must live for
  its TTL, a finished job must have its files, and an expired directory must go.
* **Webhook.**  Deliveries race for the fingerprint, their clock is read before the
  reservation, and the queue may refuse what is reserved.
* **Batching.**  Flushes of one table by several goroutines, failed copies that put
  rows back, commits whose answer is lost, shutdown.  No row may be lost or held
  twice, duplicates need a cause, buffers are bounded, rows reach the database.
* **Registry.**  The watchdog writes flags from a snapshot that grows old; a crash
  forgets when nodes were seen.  A host has one id, and flags must become right.
* **Ingest.**  A reader that must not block, a channel that drops what does not fit,
  a shutdown that closes the channel while messages are in it.  What was accepted is
  handled, and `Run` returns.
* **Topology.**  Transactions of different nodes upsert the same rows, of a shared
  grandmaster above all, in an order that comes from the data.  Snapshots must not
  mix, and transactions must not deadlock while the nodes agree on who follows whom.
* **Requests and rendering.**  Group names are parsed in the handler and again in the
  worker, the body and the query fill in for one another, durations may wrap; render
  workers finish in any order and some fail.  A report shows what was asked for, in
  the order of the dashboards, and rendering ends.
* **Sliding metrics.**  The deques must hold the extremes of exactly the samples in
  the window; TDEV and ADEV index up to three windows ahead.  A failing statement
  must cost its own rows only.

`PROJECT.json` lists every hazard with its line and the properties that cover it.

## 2. Modules

```
JobLifecycle   <--refines--  ReportJobs   <--extends--  ReportFiles
                                          <--extends--  AlertWebhook
TopologyStore  <--refines--  PtpTopology  <--extends--  Ingest
ReportRequest  <--extends--  PanelRender
BatchBuffer    NodeRegistry    SlideMetrics

ReportJobsProofs (ReportJobs)     <--  AlertWebhookProofs (AlertWebhook)
                                  <--  ReportFilesProofs (ReportFiles)
BatchBufferProofs (BatchBuffer)        NodeRegistryProofs (NodeRegistry)
IngestProofs (Ingest, PtpTopology)     SlideMetricsProofs (SlideMetrics)
PanelRenderProofs (PanelRender, ReportRequest)
MC<module>.tla and MC<module>*.cfg: the instances for TLC
```

Definitions marked "faulty variant" are plausible bugs of the operator that follows
them; no specification uses them.  They show that a property can tell the code from
a mistake.

**ReportJobs.**  One action per critical section and per channel operation.  A
request is the path `DrawId`, `Insert` (with the trim), then `ArmTimer` or `SendNew`,
then perhaps `Reject`; a timer is `Release`, `SendReleased`, perhaps `FailReleased`; a
worker is `Receive`, `MarkJobRunning`, then `MarkJobDone` or `MarkJobFailed`.
`caller[id]` is the program counter of the request or timer of a job, which is one
goroutine at a time.  `dropping` is the set of directories `dropJobsForDirs` looks for
while it holds the mutex: one action per iteration, every other critical section
waits.  `MarkJobDone` chooses any directory; `BeginDrop` any set of them.

**JobLifecycle.**  What a client that polls sees, one state per id, and nothing of
the machinery.  `ReportJobs!view` is the refinement mapping.

**ReportFiles.**  Replaces the one step of a worker between `markJobRunning` and
`markJobDone` by the steps of `Generate` (`MakeDir`, `WriteCsv`, `WritePdf`), and the
arbitrary set of dropped directories by the cleanup (`ReadActive`, `CheckEntry`,
`RemoveEntry`, `EndCleanup`).  `Touch` gives directories the modification times of
POSIX: creating an entry changes it, rewriting a file does not.  `dirs`, `csv` and `pdf`
are the output directory; `csv` and `pdf` also say whose content a file has.

**AlertWebhook.**  `Deliver` takes the time once; each alert is `Reserve`, then
`Enqueue`, which is `DrawId` of ReportJobs and the request's steps, then `Created` or
`Unavailable` (503).  Alerts that do not fire change nothing and are left out.

**BatchBuffer.**  The seven tables differ in columns and in whether the INSERT says
`ON CONFLICT DO NOTHING`, so they are numbered in the order of `FlushAll` and `Keyed`
holds those with the clause.  `proc[p]` is a flusher's program counter with its
local `rows`.  A copy ends in `CopySucceeds`, `CopyFails`, or `CommitLosesAck`: the
database committed, and `Commit` returned an error.

**NodeRegistry.**  A worker's program counter goes through `resolveOrInsertNode`,
`TouchNode` and the inserts (with `UpdateNodeInfo`, which only port events call); each
statement and each critical section is one action.  The watchdog takes a
snapshot in `StartSweep` and updates one row per `UpdateFlag`.  A failed statement may
have been applied.  `Restart` loses memory and reads the cache back.  `deployment`, chosen at
the start, says which workers run and which hosts send.

**PtpTopology.**  `tx[s]` is the transaction of a session: `at` is the statement it is
about to run, `rows` and `links` are what it wrote.  `UpsertPtpClock` is one call of
`upsertPtpClock`, which does nothing for an empty identity, keeps the node of a row
when it has none to write (`COALESCE`), and waits while another transaction holds the
row; `InsertObserved` and `InsertInferred` are the two links.  `Commit` publishes,
`Rollback` is any error return with its deferred rollback, `AbortDeadlocked` the
server's way out of a cycle of waiting sessions.

**TopologyStore.**  The same tables, changed by one whole snapshot at a time.

**Ingest.**  The loop of `Run` is `CheckContext`, `Read` or `ReadNothing`, `Send` with its
drop, and `Return` after the waits; a worker is `Receive`, a handler, and `Finish`
when the channel is closed and empty.  The handler of a topology message is a
transaction of PtpTopology; that of any other is one step (`HandleOther`), because what
it does is NodeRegistry's and BatchBuffer's.  After `Cancel` every call of the storage
but a commit under way fails.

**ReportRequest.**  One step per source: `CreateManual` or `RefuseManual` (400),
`CreateForAlert`, `CreateAuto`.  `Form` merges body and query, `Period`, `From` and `To` are the
window with the defaults.  `FirstNonEmpty` looks past a label of spaces to the common
label, `LabelGroups` falls back to the groups of the options when that is blank, too, or
has an unknown name, and `Delay` to their delay for one below zero.  A job keeps the
*names* of its groups; `RunJob` parses them again, as `runJob` does.  What a request means
(`GroupsMeant`, `EndMeant`, `LengthMeant`, `StartMeant`, `SkipMeant`) is stated with none of
these operators, so that a mistake in one of them cannot hide in the property.

**PanelRender.**  `LoadSync`, `LoadNetwork` and `LoadSystem` select the panels, as
`Generate` does.  Then the pool: `HandOver` is the rendezvous of feeder and worker on the
unbuffered channel, `Render` one panel with its outcome, `Deliver` and `Collect` the two
ends of the channel of results, `CloseJobs` and `CloseResults` the two closings, `Return`
the end of the collector.  `missing` remembers the dashboards that could not be loaded,
which are the only excuse for a panel that is not shown; a dashboard that was not
wanted is none.  `Keep` is the filter of a slice, a recursive function because the provers
see through it.

**SlideMetrics.**  The cycle is `StartCycle`, `Fetch` or `Skip` per pair of table and node,
`NextTau` per window, `InsertSlideMetrics` with its two outcomes.  `CalculateMTIE` is one
action per iteration of each inner loop; `AdevSum` and `TdevSum` are the sums the other
two metrics take the root of.

### Abstractions

* Ids, hosts, tables, directories and fingerprints are members of small sets.
  Formatting and logging are left out, and of parsing the formats of times, durations
  and booleans and the case of letters.
* A write of a file is one step.  `os.RemoveAll` does not fail.  The order in which
  `ReadDir` lists entries is open.
* `JobTimeout` bounds a whole job and is shorter than `ReportTTL` (`FilesAssumption`;
  15 minutes and 7 days by default).  Without it the cleanup can remove a directory
  in use, because the guard `activeReportDirs` is empty (theorem
  `DirectoryOnlyWhenDone`).
* Time is a counter in ReportFiles and AlertWebhook, ages in NodeRegistry: a tick is
  any amount of time, and steps take none.
* Ids of nodes are consecutive; PostgreSQL's sequence skips some.  The serial number of
  a clock's row is its identity, which is unique.
* Row locks, the search for deadlocks and the rollback are PostgreSQL's, modelled from
  how the transaction uses them.
* Loading a dashboard, and rendering and decoding one image, are one step each with two
  outcomes; a timeout is a failure.
* A panel is its place in a dashboard: no panel is twice in one or in two of them
  (`PanelAssumption`).
* `time.Duration` holds the integers of `-Limit..Limit-1` and wraps: `period_seconds` is
  multiplied without a check, and a large value may wrap to a short positive period that
  is accepted.  The run has such requests.  Nothing in the repository says what their
  window should be, so `StartFits` exempts their start, and nothing else of them, from
  `AcceptedAsMeant`; a product that wraps to a negative is refused.
* float64 is exact: offsets are integers, and TDEV and ADEV are compared as sums of
  squares.

## 3. Runs

| run | instance | what it shows |
|---|---|---|
| `jobs` | 3 requests, each delayed or not, 2 workers, 1 slot, history of 2, 2 directories; liveness included | `TableMatchesOrder`, `OneCarrier`, `NoOrphan`, `Bookkeeping`, `ImplementsLifecycle`, `UnfinishedLeavesOnlyWhenPushedOut`, `JobsEnd` |
| `files` | 2 requests with periods of their own, TTL 2, timeout 1, clock to 4; liveness included | `DoneReportOnDisk`, `ReportLivesForTTL`, `CleanupSparesRunning`, `ExpiredReportsGo` |
| `files_ttl` | the same, one period | violation of `ReportLivesForTTL` |
| `files_owner` | one period, 2 slots | violation of `PdfIsOfItsJob` |
| `webhook` | 2 handlers, up to 2 alerts each, 1 fingerprint, cooldown 1; liveness included | `ReportsSpaced`, `DeliveriesAnswered`: no delivery waits for a report |
| `webhook_retry` | as `webhook`, cooldown 2, history 2 | violation of `SkippedOnlyAfterReport` |
| `batch` | 2 writers and the ticker, 2 tables (one keyed), buffers of 2, up to 3 rows in a table and 4 in all, 2 failures; liveness included | `OneHolder`, `NoRowLost`, `DuplicatesExplained`, `BufferBounded`, `RowsReachDatabase`, `RunReturns` |
| `nodes` | 2 workers and 1 host, or 1 worker and 2 hosts; timeout 2, 1 failure, 1 crash; liveness included | `OneIdPerHost`, `InactiveExplained`, `TalkingNodesShownActive`, `SilentNodesInactiveOrForgotten` |
| `nodes_restart` | the same workers and hosts, 1 crash, no failure | violation of `SilentNodesShownInactive` |
| `ingest` | 2 workers, 3 clocks, 4 snapshots, queue of 1, 3 messages, 1 failure; liveness included | `ImplementsStore`, `DeadlocksNeedContradiction`, `AcceptedHandled`, `RunReturns` |
| `panels` | 19 requests, 5 settings, the options 0 and 2 for the pool, 5 panels on 3 dashboards; liveness included | `ReportShowsWhatWasAsked`, `RenderEnds` |
| `slide` | 2 tables, 1 node, windows 1 and 2, 327 series | `MtieIsWidestSpread`, `DeviationsIgnoreDrift`, `CycleComplete` |

Each module has one type invariant besides (`TypeOK`, `FilesTypeOK`, `AlertTypeOK`,
`IngestTypeOK`, which includes that of PtpTopology, `PanelTypeOK`, `SlideTypeOK`).

**Why the bounds are enough.**  A history of 2 with 3 requests makes a request push
out a job that is scheduled, queued, running or done; one slot with two requests
makes the channel full for a new and for a released job; two workers can hold jobs
at once.  Two requests are what it takes to meet in a directory, and a clock twice
the TTL lets a first report expire while a second is young.  Two handlers race for
one fingerprint before and after the only tick; larger cooldowns and clocks are the
theorem `AlertsSpaced`'s.  Three rows fit in a table whose buffer is flushed at two: so
both writers can find it full before either takes it, two flushes of it can hold rows
at the same time, and with two failures both put theirs back, in either order.  The
fourth row is for the other table, so that a flush has rows of both; both tables full
at once are the theorems' of BatchBuffer.  Two workers meet one new host; a timeout of
two ticks separates "touched since the snapshot" from "stale".  One worker with two
hosts gives a sweep a node after the one at which it fails; two workers with two hosts
are the theorems' of NodeRegistry.

In `ingest` two of the snapshots agree (A follows B, B follows G), a third contradicts
the first (B with A at the top), and a fourth has no local clock: so two transactions
share rows, wait, deadlock, or are refused.  Three messages fill the queue of one while
both workers are busy, and are one more than it takes to drop one.  In `panels` the
requests have groups in the body, in the query, in both, blank, unknown or none but
separators; labels of an alert that are missing, blank with and without a common label
behind them, or hide one; delays given and missing; windows given by their ends, a
period or seconds, empty ones, the most seconds a duration holds, one more, which wraps
to a negative period, and a number that wraps to a short one.  One of the settings
leaves the periods to their defaults.  The panels match no group, one or two; a pool of
two has a free and a busy worker, and the option 0 makes a pool of one.  In `slide` the
series are all of four samples evenly and of five unevenly spaced over three offsets,
with two samples at one time, and three of seven samples for windows of two; deques are
pushed, popped at both ends and emptied.

**Deadlock** is checked in NodeRegistry, which never stops.  It is off in the others:
the requests, rows, messages and times of an instance run out, a cancelled program
stops, and a finished report ends.

### Fairness

* ReportJobs: weak fairness of each request, timer and worker goroutine and of the
  iteration of `dropJobsForDirs`.  Each step is a Go statement that does not block for
  ever: the sends are non-blocking, and a report ends at the timeout of its context.
  Requests, cancellation and the start of a cleanup are not forced.
* ReportFiles adds the clock and the cleanup loop, whose ticker fires again and again.
* AlertWebhook: the handler and the requests it makes, *not* the report workers:
  `DeliveriesAnswered` holds without them.
* BatchBuffer: the ticker, the steps of a flush, and strong fairness of `FinalFlush`,
  because `select` chooses at random between a tick and the end of the context.
* NodeRegistry: time, the watchdog, and the steps of a handler.  Messages are not
  forced.
* Ingest: the reader, whose socket has a receive timeout; each worker, whose statements
  return or wait for a lock until its holder ends or the server breaks the cycle; the
  slider, which sees the end of the context.  Cancellation and messages are not forced.
* PanelRender: some step is taken while one can be.  Each render has a timeout, and
  every goroutine of the pool either can go on or waits for another one.

SlideMetrics has safety properties only.  Failures are bounded (`MaxFaults`), so liveness
says what happens once the database answers again.

### Where code and documentation disagree

1. `webhook_retry`: the fingerprint is reserved before the queue accepts the report
   and stays reserved after a 503.  The delivery Grafana repeats is skipped as
   "cooldown", and the first report of an alert is never made.  `cmd/main.go:45` calls
   the option the "minimum interval between reports for the same Grafana alert
   fingerprint".
2. `files_ttl`: a second report for a period is written over the first and does not
   renew the directory's modification time; the cleanup removes it too early.
   `cmd/main.go:61` says "lifetime of generated report directories".
3. `files_owner`: two jobs for one period share a directory whatever their node or
   groups, so a finished job may serve the PDF of another.
   `grafana/provisioning/alerting/rules.yaml:28` promises to narrow the PDF to one node.
4. `nodes_restart`: a node that fell silent before a crash keeps `is_active` for ever.
   `migrations/20260204231822-nodes_table.sql:24` documents the column as whether the
   node is active at the moment.

## 4. Proofs

All proofs hold for every value of the constants under the assumptions of the
modules, which the runs evaluate.

**ReportJobs** (`SizesAssumption`, `NamesAssumption`: positive capacity and history,
distinct names; `WorkersAssumption`: a worker at least, as `New` sees to).  The inductive invariant is

    IInv == TypeOK /\ TableMatchesOrder /\ OneCarrier /\ NoOrphan /\ Bookkeeping

`NoOrphan` ties the status of a job to its carrier.  It is not inductive alone: when a
worker marks a job running, "queued" must lose its last carrier, which needs that no
second one exists (`OneCarrier`).  `TableMatchesOrder` is needed to know that a trim
removes the last of the list and nothing else, and `Bookkeeping` that a drawn id is
new, hence in no list, slot or worker.  One lemma per action shows that it keeps
`IInv`; `SendKeeps` and `MarkKeeps` serve several.  Theorems: the five conjuncts;
`ImplementsJobLifecycle`, with a case per action that is a step of JobLifecycle or a
stutter; `OnlyPushedOut`, an action property, from the same invariant.

What `JobsEnd` rests on but for fairness are five theorems about a distance: `Away(id, d)`
says that a job is `d` steps from its end, by the stage of its goroutine, its place in the
channel or the stage of its worker.  `EndIsNear`: an unfinished job has one.
`NoJobFallsBack`: no step of anybody adds to it.  `EveryStepCounts`: each step of a request,
timer or worker takes something off.  `SomebodyCanGoOn`: while a job is unfinished its
goroutine or worker can go on, or any worker if it is in the channel, or the cleanup that
keeps the mutex from them; a cancelled service may leave what is in the channel.
`CleanupLetsGo`: the cleanup gives the mutex back.

**BatchBuffer** (`BatchAssumption`: finitely many writers, a positive size and number
of tables; any number of rows).  The inductive invariant is

    IInv == TypeOK /\ OneHolder /\ NoRowLost /\ DuplicatesExplained

A requeue keeps `OneHolder` because rows in hand are not in the buffer; a commit keeps
`DuplicatesExplained` because nobody else holds the rows and each lost answer pays for
one more copy.  `NoRowLost` needs the others only for types.  `BuffersBounded` uses an
invariant of its own, `BoundInv`: before the first failure nothing is requeued, and
each row past the limit belongs to a writer that is about to flush.

`FlushesNeverStuck`: a flush can always go on, and needs no failure to do so, because a copy
that cannot succeed is one whose context is done, never the last one's (`FlushInv`).
`FlushesEnd`: a flush has at most three steps for each table, a failed copy and its requeue
included, and nobody adds to them.  `LastFlushLeadsOut`: the last flush does not turn into
one that goes on.  That it is begun is the strong fairness of `RunReturns`.

**NodeRegistry** (`RegistryAssumption`: finitely many hosts, at least one, a positive
timeout; any workers, and any choice of those that run).  The inductive invariant is

    IInv == TypeOK /\ OneIdPerHost /\ InactiveExplained /\ Support

`Support` has what the properties do not say: the ids in use are at most the number of
rows, so that a new host gets a new one; a worker with an id has it of a stored host,
and has cached it before the second look-up; a node in the stale part of the snapshot
is silent or was touched since, so that marking it inactive is explained whenever the
UPDATE comes; and `missed` is empty during a sweep, so that giving up forgets nothing.
One lemma per action again; ages grow by a monotonic function (`OlderFacts`), which is
all the passage of time needs.

`SweepsUpdateRows`: each node of a snapshot has a row, because a node has a time only once
its row is stored, so a sweep has an UPDATE to make or is over.  `SweepsEnd` and
`HandlersEnd` bound both by what they have left: a step for each node of the snapshot,
eight for a message.

**PtpTopology** (`TopologyAssumption`: the empty identity is no identity, snapshots are
well formed; any sessions).  The inductive invariant is

    TopologyInv == TablesOK /\ (\A s \in Sessions : TxOK(tx[s])) /\ Exclusive

(and that `tx` is a function).  `Exclusive`: no two transactions hold one row.  `TxOK`: a
transaction holds the rows of the statements it has passed, and what it has written is
what its snapshot does to the *committed* tables as they are now (`Written`, `Told`).
This is why snapshots do not mix, and it survives the commit of another transaction
only because the rows, and with them the links between them, are locked.
`CommitStoresTheSnapshot` reads the refinement off it; `MoveRefines` says that all other
steps stutter.  `CyclesContradict`: each session of a cycle holds a lower clock and waits
for a higher one of its own snapshot, so the clocks waited for form a circle of
`Above`.  These are statements about steps and states; the specification is Ingest's.

**Ingest** (`IngestAssumption`: a positive queue, finitely many sessions) carries them to a specification with
`IngestInv == TopologyInv /\ ReaderTypes /\ WorkerTypes /\ OnePlace`.  `OnePlace`, that the
ids in hand, in the queue, at the workers and handled are disjoint and at most the
number read, is what makes a worker's transaction its own.  Theorems: `TypeCorrect`,
`DeadlocksExplained`, and `Refinement`, that the ingest implements TopologyStore.
`AgreementPreventsDeadlock` turns `DeadlocksExplained` round: if the clocks have a depth that
all snapshots agree with, no worker ever deadlocks.

Six theorems are what `AcceptedHandled` and `RunReturns` rest on but for fairness.
`AlwaysAHandlerGoesOn`: while there is a message, a worker can go on, because a chain of
waiting transactions ends, or is a circle, which the database breaks (this needs the
finiteness).  `AcceptedOnlyComeCloser` and `HandlingAdvances`: a message has a distance, by its
place in the queue and the statements of its transaction left, to which nothing adds and
from which each worker's step takes something.  `StoppingNeverStuck`, `StoppingWorkBounded`
and `StoppingEnds`: after the cancellation somebody can go on until `Run` returns, and every
step lessens a natural number.

**AlertWebhook** (the assumptions of ReportJobs; any handlers, alerts and cooldown).  The
invariant is that of ReportJobs with `AlertTypes` and `SpacedInv`: for each fingerprint, the
reservations not yet enqueued and the reports made are a cooldown apart from one
another, and none is younger than `alertLast`.  A delivery reads its clock before it
reserves, so its time may lie before those of others: the reservation compares with
the youngest only, and `SpacedInv` is why that is enough.  `WebhookKeepsService`
(`AlertSpec => Spec`) carries the theorems of ReportJobs over.
`DeliveriesNeverWaitForWorkers` and `AnswersComeNearer` are what `DeliveriesAnswered` rests on but
for fairness: a delivery can go on, or its own enqueue can, or the cleanup that has the
mutex; and it takes at most six such steps for each alert.

**ReportFiles** (`FilesAssumption`: a timeout shorter than the lifetime of reports; any
workers, periods and clock).  The invariant is

    FilesInv == IInv /\ FilesTypes /\ (OwnDirs => DiskInv)

`FilesTypes` holds whatever the periods are; its part with a meaning is that no report in
progress is older than the timeout.  `OwnDirs` says that every request has a period of
its own, and is a hypothesis of `DoneIsOnDisk`, `LivesForTTL` and `RunningSpared`, because
`files_ttl` and `files_owner` show what happens without it.  `DiskInv` has four parts.
`DirsBegun`: a directory that exists belongs to a job that is past making it, so that a
report that starts finds none; `IInv` (`OneCarrier`, `NoOrphan`) is what keeps a second
run of it away.  `WritersFiles`: the directory of a report in progress is there and no
older than its start.  `AgesRight`: a PDF is no younger than its directory, and the
directory between the check of its age and its removal is still that old.  These three
and the timeout give `Spared`: the cleanup never waits to remove what a worker writes to.
`DoneFiles` says where the files of a finished job are at each step of the cleanup and
of `dropJobsForDirs`.  `FilesKeepService` (`FilesSpec => Spec`) carries the theorems of
ReportJobs over.

**SlideMetrics** (`SeriesAssumption`: positive windows, samples sorted by time, as the
query sorts them; any tables, nodes, windows and series).  The invariant is

    SlideInv == CycleInv /\ LoopInv

`CycleInv` says where each pair of table and node and each window is: stored, given up,
or still ahead; `CyclesComplete` follows when nothing is ahead.  `LoopInv` is about
`CalculateMTIE`.  Each deque is sorted in both ways and *answers* for every position of
the window: a later entry is at least as extreme (`Settled`).  That holds with the
exception of the position on its way in while the back is popped (`Pushing`), and with
one entry too many at the front while the window is shrunk (`Trimming`): three forms of
one predicate, proved once for any values and used upside down for the minima.
`WindowInv` says that what `left` has passed is too old for good, because time only
rises; `WidestSoFar` and `SomeSpread` that `mtie` is the widest spread so far and that two
samples have it.  Theorems: `SlideTypeCorrect`, `MtieIsRight`, `CyclesComplete`;
`DriftIgnored`, from `AnyDriftIgnored`: adding any line to the offsets, and not only the
line the run tries, leaves the sums of ADEV and TDEV alone.

**PanelRender** (`RequestAssumption`: settings and requests of the types of the program;
`PanelAssumption`; any option for the workers, zero and negative ones too).  The
invariant is

    PanelInv == RequestInv /\ SelectionInv /\ PoolInv

`RequestInv`: what was accepted is what the request means, and names of groups survive the
second parsing.  For the groups this is that a label counts as none in the handler just
when it does in `GroupsMeant` (`LabelMeant`), for the start of a window that seconds which
fit in a duration do not wrap when they are multiplied (`FittingDoesNotWrap`,
`ManualWindow`).  `SelectionInv`: the panels selected so far are the wanted ones of the
dashboards passed and not missing, in order.  `PoolInv` says of every place in the panels
how far it is: `TriedOnce` that nobody renders a panel a second time, or two at once;
`ResultsTell` that a result, wherever it is, names a panel and what came of it;
`NothingLost` that a panel handed over is at a worker, in the channel or in its slot;
`PoolClosed` that the channels close behind the last of them.  So the slots of the
collector depend on the renders alone, whatever the order of the workers, and `Return`
keeps the good ones in the order of the dashboards: `ShowsWhatWasAsked`.

What `Keep` does to sequences of any length is proved by induction.  The induction
theorems of the library take an operator, which the provers cannot instantiate;
`SeqInduct` is stated about *sets* of sequences instead, and rests on the
well-foundedness of `<` on the naturals, which the library states without one.

Two theorems are what `RenderEnds` rests on but for fairness.  `PoolNeverStuck`: while a
report waits for its pool, the collector, the feeder or a worker has a step to take,
spelled out because ENABLED is out of reach.  `PoolWorkBounded` and `PoolEnds`: the steps
left are a natural number (`WorkLeft`: four per panel not handed over, then what is left
for each worker, each result and each channel) and every step of the pool lessens it
until the report returns.

Facts about sequences without repetitions (pushing, popping, cutting, taking an element
out, joining) open ReportJobsProofs and BatchBufferProofs.

**Only model-checked**: the liveness properties (`JobsEnd`, `ExpiredReportsGo`,
`DeliveriesAnswered`, `RowsReachDatabase`, `RunReturns` of both modules,
`TalkingNodesShownActive`, `SilentNodesInactiveOrForgotten`, `AcceptedHandled`,
`RenderEnds`), because the prover does not reason about fairness or ENABLED.  Of `JobsEnd`,
`DeliveriesAnswered`, `AcceptedHandled`, `RenderEnds` and both `RunReturns` the two halves
that need no fairness are theorems: that somebody can go on, and that what is left gets
less.  The guards in the first half are spelled out (`HandlerCanGo`, `WorkerCanGo`,
`FlushNeverStuck` ...); they stand for ENABLED, and say what must hold for a step to be
possible.  `ExpiredReportsGo`, `RowsReachDatabase` and the two properties about shown nodes
have no such theorems: they depend on clocks that go on, on a bounded number of failures and
on nodes that talk for ever.  Every invariant and every action property of the passing
runs is a theorem, and so are both refinements.

## 5. Not modelled

* Statistics loader, layout of PDF and CSV, contents of dashboards, schema,
  benchmarks, configuration: queries, formatting and declarations without state of
  their own.
* GET handlers only read the job table (`view`).  Authorisation and CORS decide on one
  request from its headers.
* The column `last_seen_at` of nodes and clocks, which no program reads.  The watchdog
  can set that of a node back in time.  The cache of sensors, which works like that of
  nodes.  Ports and delays in topology snapshots.
* Tables whose copy fails for ever.  `FlushAll` then never gets to later ones by the
  ticker; the models bound the failures.
* Rows inserted after the last flush took its buffer: they stay in memory, and the
  program does not say who stops the inserts first.
* Memory that grows without limit: `alertLast` is never pruned, and buffers during an
  outage.
* The ETERM of the socket ends the reader in the comment only: the adapter wraps the
  error before it is compared, and only `Close` after `Run` causes it (`ReadNothing`).

## 6. Plan

1. *Proofs.*  What could be said of `ExpiredReportsGo` and `RowsReachDatabase` without fairness:
   the passes of the cleanup and of the ticker that a report or a row still has to wait for.
2. *Modules.*  The cache of sensors in NodeRegistry, with the inserts that use it.
