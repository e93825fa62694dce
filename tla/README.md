# A TLA+ model of Medina Intelligence

Medina Intelligence is a CRM that fills itself: it reads the mail, calendars,
Slack channels and call transcripts of a firm, classifies and embeds them, and
serves the result to a web client and to agents. Almost all of its hard
behaviour is background work that several serverless invocations do at once
over one SQL database. This directory models that part: TLA+ modules, TLC
configurations, and proofs checked with TLAPS.

## 1. The system

Two Cloudflare Workers share their storage. The *api* Worker (`src/src/index.ts`)
answers requests, receives queue messages and runs the crons `* * * * *` and
`0 * * * *`. The *pipelines* Worker (`src/src/pipelines-index.ts`) owns seven
Workflows: ingestion, ingestion-chunk, ingestion-finalizer, enrichment,
campaign-send, daily-cron and d1-backup. State is kept in

* D1 (SQLite): a statement is atomic, there are no transactions across
  statements, and everything between two awaits interleaves;
* Cloudflare Queues: at-least-once, with retries and sometimes a dead-letter queue;
* Workflows: steps are retried on a throw and their results kept; an instance id
  exists once; an instance may be killed;
* KV, R2 and Vectorize, which hold data and a few counters.

### Components

| component | state | operations | what makes it correct |
|---|---|---|---|
| `lib/work-queue.ts` | rows of `work_queue`: status, attempt, next_attempt_at, locked_until, heartbeat_at, upstream, priority | enqueue, claim, heartbeat, complete, defer, fail, dead-letter, sweep | a row is run by one party at a time, charged at most `max_attempts`, never leaves a terminal status, and settles |
| `lib/work-queue-driver.ts` | one invocation's claimed batch, the open circuits it read, the handler it has reached | sweep, count, claim, process in groups with heartbeats, close each row | concurrency caps, no repeated or ghost completion, progress after a crash |
| `lib/rag-v2-queue-drain.ts` | the claim of a burst; messages carrying `heartbeat_at` | dispatch, receive behind the fence, process | a stale message starts nothing; the caps of two drainers add up |
| `lib/upstream-budget.ts`, `rate-limit.ts`, `claude.ts`, `outlook.ts` | a ledger row: used, cap, streak of 429s, circuit | check, reserve, record usage, success or 429 | the cap only falls, never to 0; a circuit opens on the third 429, holds, and closes |
| ingestion workflows | `sync_jobs`, `sync_job_chunks`, `sync_job_finalizers`; the progress of each instance | guard, fetch, fan out, record a chunk, trigger and run the finalizer | rows of two masters run together only if the masters met in the guard; a finalizer exactly once and last; a row is completed whole and closed in the end |
| `lib/workflow-state-reconciler.ts`, `lib/d1-maintenance.ts` | rows being inspected | close rows whose workflow is gone | as above |
| `lib/task-runs.ts` | `task_runs` and idempotency keys | open, heartbeat, close | one run per key |
| `lib/sync-job-lifecycle.ts` | operational `sync_jobs` of webhooks, mail windows and attachment backfills | open, touch, close, reconcile | every row ends, at the status its runner gave it if it gave one |
| `lib/firefly-progressive-backfill.ts`, `work-queue-handlers/firefly-window.ts`, `lib/firefly-ingest.ts` | a parent, its legacy windows with counters, a row of `work_queue` for each | start, run a window, pause, cancel, monitor, finalise | counters show what was stored, a cancelled window stays cancelled, the parent ends |
| `lib/ingestion-health.ts` | rows of `work_queue` in `dead_letter` | put back with a new budget | nothing that has ended begins again |
| `handlers/campaigns.ts`, `workflows/campaign-send.ts` | a campaign, its recipients, the finished steps of the workflow | fill and schedule, load, mail with throttling, finalise, PATCH | nobody is mailed twice by a retry, a workflow that ended accounts for all it loaded |
| `lib/merge.ts`, `handlers/contacts.ts` | merge locks with an expiry, contacts, the recipients they own | lock, check, commit, release, clean up | a merge takes nobody from a campaign that is being sent and says so |
| `lib/d1-backup.ts`, `workflows/d1-backup.ts` | parts, manifests and a pointer in R2; the cursor of each dump step | plan, dump in parts, complete, point, retain | what the pointer names can be restored |
| `handlers/agent.ts`, `lib/agent-runs.ts`, `lib/agent-cancellation.ts`, `lib/max-orchestrator.ts` | a message, a run, a MAX job and its row of `work_queue` for each turn | reserve, enqueue, run, heartbeat, stop, repair | one artifact, none after a stop in time, an answer that only the write-back of a stop takes away, no turn open for ever |
| other backfills (Outlook, calendar), enrichment, daily-cron | windows, their sync_jobs and progress | steps | nothing is done twice |
| queue consumers (`workers/`) | messages | write, retry, dead-letter | nothing is lost silently |
| approvals, subscriptions, tokens | rows with a status | decide, renew | one decision wins |
| retrieval, CRM resolution, deals, documents, prompts | indexes and tables | data transformations | out of a model checker's reach |
| frontend, deck renderer, scripts, migrations, tests | none of the system's | | |

### How they interact

Enqueuers insert rows into `work_queue`; the minute cron, an administrator and
the RAG dispatcher drain it. Handlers call upstreams through the budget ledger;
an open circuit keeps rows tagged with its name from being claimed (those of Firefly
are tagged with another).
The hourly cron and administrators create ingestion masters, masters create
chunk children, the last child creates the finalizer, and the finalizer enqueues
more work. The reconciler (hourly) and the maintenance (daily) close what was
left open. A Firefly backfill and a MAX turn keep records of their own beside the
row of `work_queue` that carries them, so each of their steps writes two or more
tables. A campaign and a merge share the contacts and look at each other's rows.
Nothing but D1 rows ties these parties together, so each hazard is of
one kind: a statement acts on a row that changed since it was read.

Hard behaviours, each listed with its line in `PROJECT.json` under `hazards`:
overlapping ticks and masters, leases that run out while work waits, messages
delivered late, twice or never, workflow steps that are run again after part of
their effect took place, invocations killed between two statements, retries
charged by two parties, and circuits that are cleared or reset by a caller that
is behind.

## 2. Modules

| module | models | about |
|---|---|---|
| `JobQueue` | - | abstract: what the table promises of a row, whoever drains it |
| `WorkQueueRows` | `work-queue.ts` | the columns of the table and each statement on it; refines `JobQueue` |
| `WorkQueue` | `work-queue-driver.ts`, the minute cron | ticks that drain the table; EXTENDS `WorkQueueRows` |
| `RagDispatch` | `rag-v2-queue-drain.ts` | dispatcher, Cloudflare queue, consumers and a driver tick on the same table; EXTENDS `WorkQueueRows` |
| `UpstreamBudget` | `upstream-budget.ts` and its callers | one ledger row and concurrent callers |
| `Ingestion` | the three ingestion workflows, reconciler, maintenance | `sync_jobs` from opening to closing |
| `FireflyBackfill` | the Firefly backfill: `firefly-progressive-backfill.ts`, `firefly-window.ts`, `firefly-ingest.ts`, the repair of dead rows | a parent, its windows and the handlers on them; EXTENDS `WorkQueueRows` |
| `MaxMode` | `max-orchestrator.ts`, `agent-runs.ts` and the turn of `agent.ts` | a MAX turn from prompt to answer; EXTENDS `WorkQueueRows` |
| `CampaignSend` | `campaigns.ts`, `campaign-send.ts`, `outlook-send.ts` | a campaign, its requests and its workflow |
| `ContactMerge` | `merge.ts` | merges beside the campaign; EXTENDS `CampaignSend` |
| `SyncJobs` | `sync-job-lifecycle.ts` | operational rows, their runners and the reconciler |
| `D1Backup` | `d1-backup.ts` | the export of a table that changes meanwhile |
| `MC*` | - | values of the constants for TLC; `MCBackground` puts `FireflyBackfill`, `ContactMerge`, `SyncJobs` and `D1Backup` side by side |
| `WorkQueueRowsProofs` | - | lemmas on the statements of the table, for whoever issues them |
| `WorkQueueProofs`, `UpstreamBudgetProofs`, `RagDispatchProofs`, `IngestionProofs`, `MaxModeProofs`, `D1BackupProofs` | - | theorems about the module each is named after |
| `BackgroundProofs` | - | theorems about `FireflyBackfill`, `CampaignSend` with `ContactMerge`, and the types of all `MCBackground` puts side by side |

An action is one D1 statement, one message, or one platform event, with the code
around it up to the next await. Where the code computes something between two
statements it is part of the statement that follows. `PROJECT.json` maps every
definition to its lines.

**WorkQueueRows.** `status`, `attempt` are the columns; `wait[i]` is the time to
`next_attempt_at` and `lease[i]` the time until the watchdog may take the row
back, both in minutes. `CompleteWork`, `DeferWork`, `DeadLetterWork`,
`FailWork` and `SweepRelease` share the filter `status = 'in_progress'`
(`IfInProgress`) and nothing that tells two claims of a row apart, exactly as in
the code. `FailWork` decides by the row and backs off by what its SELECT read;
`SweepRelease` takes everything from what its SELECT read. The payload, the
error text and the counters are left out.

**WorkQueue.** A slot of `Crons` or `Admins` is an invocation of
`processWorkQueueTick`; `pc`, `pos`, `room`, `shut`, `work` and `seen` are its
local variables. A cron slot starts only if this minute's key is free. Items of a
batch are "queued", then "running" in groups of `processConcurrency`; only
running items have heartbeats. A handler returns, throws, defers or
dead-letters; every statement may throw (`Faults`), and the invocation may be
killed (`Crashes`). `DeferDelays` says of each domain how far its handlers put a row
off, 0 for "now". A domain is `Slim` when a claim of it fits in one slice of
`processConcurrency` rows, by its batch size or because its cap is no larger, and
`Steady` when it also never defers to now. `finished` is a ghost: the items whose
handler returned.

**RagDispatch.** A claim and every heartbeat write a new `heartbeat_at`, so a
message is fresh or stale; the model keeps the number of fresh messages per row and
the set of rows with a stale one. `Receive` is the consumer up to the call of the
handler; it reads the row and compares `heartbeat_at` but takes no lease of its
own. `DriverCount`/`DriverTake` are the minute driver on this domain.

**UpstreamBudget.** The columns of a ledger row; `open` and `age` are countdowns.
The callers keep one of four disciplines, chosen in the first state (`style`):
"reserve" (Claude, Gemini), "graph" (`graphFetchWithRetry`), "after" (embeddings,
whose rows are tagged 'bge': `Claim` needs the circuit closed, as `getOpenCircuits`
read it) and "free" (Firefly: its rows are tagged `firefly_api` and its ledger row is
`firefly`, so nothing looks at the circuit; a tick whose `getOpenCircuits` failed
claims like that too). `rejects` is a ghost that counts the 429s answered since the
last success or trip.

**Ingestion.** A row has a status, an age (in units of 15 minutes), a chunk count
and the master that opened it. A master goes through guard, fetch and fan-out; a
child through process, record, check, trigger and create; a step that throws
starts again from its beginning, and the fan-out is retried once before the catch
block. The id `Fallback` is the one `getCurrentSyncJobId` makes up when no row is
running. `verdict` and `doomed` hold what the reconciler and the maintenance have
read but not yet written; `met[m]` is a ghost, the masters that were in the guard
while `m` was. Rows opened by hand have a `timeout_at` in another text
format, which the guard and the maintenance may take for overdue
(`MayLookOverdue`).

**FireflyBackfill.** `parent` is the status of the parent, `legacy`, `counted` and
`cursor` the columns of its windows (status, transcripts_persisted, last_skip), and
the row of `work_queue` of a window is the window's item. `stored` is what the
ingest has put in the CRM, under a unique key. `handler[i]` holds the local
variables of the handler that runs a window; it ends before the next minute, since
every handler has a budget of time below that. Creating, cancelling and monitoring
are one action for each statement, with a kill between any two.

**MaxMode.** Four records per turn: the message (`msg`, `age`), the run (`run`,
`flag` for cancel_requested_at), the job (`job`, `jobFlag`, and `beaten`, the time
until its heartbeat is stale) and the row. `asker`, `stop` and `fix` are how far the
request, the stop and the repair have come, `phase` how far a worker is in
`processMaxModeWorkItem`; `shape` tells the set-builder from the evidence report.
A stop that changed the message goes on to `markDurableToolCallsCancelled`
(agent.ts:1237-1240, 1244-1310): `StopRead` SELECTs the metadata (`copy`), `StopPut`
writes all of it back by id, status included, when it holds tool calls (`tools`).
An update that the timer sends and nobody waits for is a member of `beats`. Other
answers of the session are one flag, `other`: they share the unique index that
allows one running message. `made`, `barred` and `upset` are ghosts.

**CampaignSend, ContactMerge.** The statement sequence of the request for each
recipient; the workflow as the set of its finished steps (`sentSteps`), which a
restart keeps, and the attempts of the one under way. `UpdateCampaign` is the PATCH,
which writes any status (`Patched`) in any state. `mails` counts what Outlook
accepted; `rowAt[c]` is where the row loaded for `c` has been moved by merges, and
`unmarked` a ghost: a PATCH took the mark of an active campaign away while its
workflow loaded or sent. A merge takes the locks of both contacts or none, looks for an active
campaign, and in one batch deletes the discarded contact and moves its recipients.
Locks expire on their own and are removed by the daily cron.

**SyncJobs.** `due` is the time to timeout_at and `aging` the one until the row is
too old; `ownVerdict` is what the row's runner closed it with.

**D1Backup.** A row of the table is its rowid; others insert and delete between any
two queries. A part in R2 and its hash in the manifest are the rows they hold.
`resume` is the cursor the last finished step returned, `reached` the one the step
under way has come to. A query gets as many rows as its limit allows, or fewer
after the limit was halved; the byte budget may end a part after any row.

## 3. Runs

"violation" runs reproduce a disagreement between the code and what its comments
or documents say; `PROJECT.json` quotes both under `findings`.

| run | checks | shows |
|---|---|---|
| WorkQueueRows | TypeOK, AttemptBudget, JobQueueSpec | budgets and the row life cycle under every fault, with late heartbeats and an administrator's tick |
| WorkQueueTicks | SingleExecution, NoGhostCompletion, ConcurrencyCap, NoRepeat, Settles | overlapping ticks over two capped domains, of which the second claims two rows to run one and defers to now: rows of the first are run alone and closed only when finished, its cap holds exactly and that of the second for each tick, and every item ends, even one that kills its Worker |
| UpstreamBudgetCalls | TypeOK, CapRange, BoundedOvershoot, CapNeverRaised, CircuitRecovers | three callers under each discipline: the cap stays in range, reserving callers overshoot by at most two, an open circuit that its callers look at closes in the end |
| UpstreamBudgetGraph | TripsOnThird (violated) | Graph calls reset the streak of 429s before each 429 is recorded |
| RagDispatchSingle | TypeOK, ActiveCap, SingleRun | the fence holds when no message outwaits its lease; dispatcher and driver stay within the sum of their caps |
| RagDispatchSettles | JobQueueSpec, Settles | under duplicates, losses, faults and crashes the rows refine `JobQueue`, and each settles |
| IngestionOne | TypeOK, FinalizerLast, CompletedIsWhole, LateCloseIsWhole | one master, retries of every step, slow children, a manual row, the maintenance and every late closer: a row is completed with all chunks recorded or, by the reconciler, with all of them handed to children; a closed row stays closed and turns completed only when whole |
| IngestionHealthy | OwnTarget, SpawnedOnce | runs without faults that end within the guard's age |
| IngestionCloses | OneRunning, JobCloses | two masters whose guards may overlap, rows that expire, workflows killed anywhere: two running rows only of masters that met in the guard, and every row is closed |
| IngestionSpawn | SpawnedOnce (violated) | a finalizer whose creation fails after the trigger was taken is never started |
| MaxModeTurns | TypeOK, BuiltOnce, StopBars, AnswerKept, TurnSettles | one turn, one step of which may fail or be killed anywhere, with a stop and its write-back, the timer and repairs at any moment |
| Background | TypeOK, FireflyStored, FireflyCancelStands, FireflyEnds, CampaignAccounts, CampaignMailedOnce, MergeSparesCampaign, SyncJobSettles, BackupRestorable | a backfill, a campaign with a merge and a PATCH, operational jobs, and the export of D1 |

The conditions of the passing runs are part of what they show. `WorkQueueTicks`
assumes of the clock that no minute passes between two statements of a driver
(`Prompt`) and that a heartbeat is never a whole lease late (`Timely`); what it
promises of single rows it promises of steady domains, beside others that are not.
`RagDispatchSingle` needs that no message waits a lease (`Quick`),
no duplicates and no sendBatch that throws halfway. `IngestionOne` has one master:
with several, a row's `chunk_count` may be another master's. `IngestionHealthy` needs
quick runs without faults; `IngestionCloses` needs nothing. `MaxModeTurns`
needs that a statement sent before an artifact is built has landed when it is
(`Prompt`), and `Background` that the export is not started by hand on a day the
cron has exported. Those are the preconditions under which the code keeps its
promise.

`Background` explores the behaviours of four models in one search: they share no
state, so the first state picks the one that moves (`focus`) and the others stand
still. The state graph is the disjoint union of four, and no property relates two.

### When a precondition is dropped

The following configurations are kept beside the runs. Each is a short
counterexample that shows one precondition to be necessary, or what a weakened
property no longer promises
(`tlc -config X.cfg MC...`).

| configuration | violates | what happens, and what the source says |
|---|---|---|
| WorkQueueBatch | AllRunAlone (`SingleExecution` of every domain) | two rows in one claim: the second waits without a heartbeat, its lease runs out and another tick runs it too ("the driver guarantees that", work-queue-driver.ts:91-96) |
| WorkQueueCapOverlap | EveryCapKept | two ticks reach a later capped domain together and count before either claims ("the maximum number of items ... may be simultaneously in_progress across all workers", work-queue-driver.ts:58-64) |
| WorkQueueGhost | AllDoneFinished (`NoGhostCompletion` of every domain) | a row deferred with no delay is claimed again before its handler returned, whose completeWork closes it (work-queue.ts:321-323 and firefly-window.ts:427-430 call that a no-op; Firefly windows defer to now, firefly-window.ts:350-352, 431) |
| WorkQueueRelease | ReleasedIsClaimable | a released row has a backoff and cannot be claimed in the same tick (work-queue.ts:473-474 says it can) |
| WorkQueueBreaker | ClaimsRespectBreaker | rows tagged `firefly_api` are claimed while the circuit of `firefly` is open (firefly-progressive-backfill.ts:149-151 and firefly-window.ts:435-437 say they are not) |
| UpstreamBudgetClear | CircuitHolds | a late UPDATE clears a circuit opened since its SELECT (upstream-budget.ts:17-19: "no check-then-write race") |
| RagDispatchLate | SingleRun | a message received at the end of a lease starts a row a sweep has already selected |
| RagDispatchTwice | SingleRun | a message delivered twice before the first heartbeat starts two runners: the consumer reads the row and takes no lease of its own |
| RagDispatchPartial | SingleRun | a sendBatch that throws defers rows that consumers are running |
| RagDispatchBacklog | WatchdogOnlyCatchesCrashes | a backlog outlives the lease and is charged attempts with nothing crashed (work-queue.ts:480-482) |
| IngestionOverlap | NeverTwo | two masters look before either inserts (admin.ts:729-731) |
| IngestionRefan | OwnTarget | a fan-out retried after its row was closed resolves another id and spawns every child again (ingestion.ts:482) |
| IngestionLate | CompletedIsRecorded | the reconciler completes a row whose master is done while its children run (ingestion.ts:531-533) |
| IngestionReopen | ClosedForGood | a row failed by the guard is completed by its late finalizer |
| IngestionEarly | ExpiredIsOld | a fresh manual row looks overdue to the guard, which compares two timestamp formats as text (admin.ts:632) |
| MaxModeLate | BuiltOnce, AnswerKept | the request's last statements, or a heartbeat nobody waits for, land after the answer: the job runs again, or the message says 'running' again |
| FireflyLost | FireflyWhole | a paused run moves last_skip past transcripts that failed; the resumed run counts no failure and completes the window ("so the failures are visible", firefly-progressive-backfill.ts:525-540) |
| BackupRerun | BackupRestorable | a second export of a date overwrites parts that the manifest of the first still lists ("written only after every part landed", d1-backup.ts:488) |

One more configuration passes: UpstreamBudgetTrips checks TripsOnThird for a
reserving caller.

### What else reading the code for the models showed

Not all of it has a run; each is visible in the model as a step the code takes.

* MAX: the write-back of a stop needs no fault to do harm. A worker past its last
  check stores 'done' between the stop's SELECT of the metadata and its batch of
  UPDATEs; the batch then puts the old metadata back, and the answer says
  'cancelled' (or 'running', when the worker had written progress after the stop) and
  has lost its document cards (agent.ts:1244-1310). `AnswerKept` names this
  exception (`TakenBack`).
* MAX: a job that waits more than ten minutes for the one worker is failed as
  "stopped heartbeating" although it never started. A stop that comes before the
  run and the job are inserted leaves only a marker in KV, for 120 seconds. A job
  that threw is 'failed', so the second attempt of its row does nothing. When the
  last write of the job throws after the message said 'done', the turn becomes an
  error; `upset` excuses it in `AnswerKept`.
* Firefly: nothing keeps two active parents of one organisation apart; a window
  whose row could not be enqueued is never run, and its parent ends as
  'completed'; a repair that lands between the two SELECTs of the monitor, or after
  it, revives a window of a parent that has ended; finalising overwrites 'cancelled'.
* Campaigns: a second request schedules the campaign again, without a filter, after
  the workflow has finished: it stays 'scheduled', and its contacts cannot be merged.
  A fourth 429 ends the instance and leaves 'sending'. A Retry-After that is no
  number of seconds makes a throttled mail a refused one. An attempt killed between
  Outlook's answer and the end of its step mails again (`lost` in
  `CampaignMailedOnce`).
* A PATCH writes a campaign's status in any state (campaigns.ts:72-105). One that says
  'draft' while the workflow sends hides it from the merge's ACTIVE_CAMPAIGN check,
  and the merge takes contacts it has still to mail: `MergeSparesCampaign` names this
  exception (`unmarked`). A campaign put back to 'draft' after it ended can be
  scheduled again, but its workflow id exists, so it stays 'scheduled' and nobody is
  mailed.
* Merges: the check for chains comes before the lock, so A into B and B into A can
  both pass; expired locks that nobody removed block a merge until the daily cron.
* Backup: the partitions of instances that errored count as kept, and an export of an
  old date leaves latest.json at a partition that retention deletes at once.

### Bounds, and why they are enough

Two items, or three where a second domain is beside the first; two drivers, which is what
overlaps when a tick takes more than its minute; a lease of two minutes and
backoffs of one and two, which keep the order "backoff may end before or after a
lease"; two attempts, so that a row is retried and then dead. The ledger runs use a
default cap of 3, 4 or 12, a window of two and a circuit of three time units:
enough for a window to roll over while a circuit is open, for the cap to be
lowered to its floor and for three callers to be past the check together. `MaxUsed` bounds
the usage that callers of the "graph" and "after" disciplines record without
asking. `MaxCopies` bounds the fresh messages of a row. `WorkQueueTicks` has two rows in its
steady domain, one of them retried, and one in the other. Ingestion runs have one or
two masters, one to three chunks and batches of one or two, so that batches are
whole, partial and single; `MaxJobs` bounds the rows of `sync_jobs`. Deadlock is
checked in every run but those of Ingestion, MAX and `Background`, where workflows and
turns end and the rows are used up.

A MAX turn has one item, worker and mishap, a lease and a staleness of two minutes:
each of the six parties that write its records is there, and a second worker comes
by the retry of the row. A backfill has one window of three transcripts, two to a
run, so that it pauses, is resumed in the middle and ends; three mishaps, each a
kill, a throw or a repair. A campaign has two contacts, two requests and a merge of
the two, one retry of a step and one mishap, which may be a PATCH: one is enough to
defeat each check that reads the status. Two sync jobs, since the reconciler takes
one at a time. The export has two rowids, days, parts and mishaps; three rowids and
up to four parts with one mishap were explored once (851,502 states). The largest runs have
857,502 (WorkQueueRows), 845,897 (UpstreamBudgetCalls), 3,978,705 (IngestionOne),
1,240,387 (MaxModeTurns) and 905,343 (Background) distinct states.

### Fairness

`WorkQueue!Fairness`: a driver that is not killed takes its next statement, a
handler ends in one way or another (every handler has a timeout or is killed) and
does not defer its row for ever (what it defers to is a quota that is renewed),
its heartbeats arrive, time passes and the cron fires. Nothing is assumed of
handlers succeeding or of Workers surviving. `RagDispatch!Fairness` assumes
nothing of the queue, and strong fairness of the clock, since a minute waits for
the statements due in it. `UpstreamBudget!FairSpec`: time passes, and a
caller that has begun ends its call (fetch has a timeout); nobody has to begin one.
`Ingestion!Fairness`: the Workflows runtime runs what was created or reports it ended, and the hourly cron runs the reconciler. The guard of
a later master and the maintenance may close a row too, but nothing is assumed of them.
`MaxMode!Fairness`: a request, a stop and a worker that are not killed go on, the
timer fires, and the user comes back to the session, which is what calls the repair
(agent.ts:2356, 2403 and 2722); strong fairness of the clock, of `Progress` and of
`Build`, since a worker may scan one more family again and again but not for ever.
`FireflyFairness`: the minute cron claims, sweeps and monitors, and a request that
was begun goes on; nobody has to cancel, repair or begin. `SyncJobsFairness`: time
passes and the cron reconciles; no runner has to end. In the first state of
`Background` nothing that is fair is enabled, so the fairness of one model asks
nothing of a behaviour of another.

## 4. Proofs

| theorem | says |
|---|---|
| `WorkQueueProofs!TypeCorrect` | `Spec => []TypeOK` |
| `WorkQueueProofs!BudgetKept` | `Spec => []AttemptBudget` |
| `WorkQueueProofs!Implements` | with `Prompt`, `Spec => JobQueueSpec`: the driver implements the abstract queue |
| `WorkQueueProofs!RunsAlone`, `NoGhosts` | with `Prompt` and `Timely`, in any registry, `Spec => []SingleExecution` and `Spec => []NoGhostCompletion`, which are about rows of steady domains (below) |
| `WorkQueueProofs!RunsNoRepeat` | also without faults and with crashes inside handlers or none (`RunsOnce`), `Spec => NoRepeat` |
| `WorkQueueProofs!FirstCapKept` | with `Prompt` and no administrators, the cap of the first domain is kept, whatever others are capped |
| `WorkQueueProofs!CapsHold` | with `Prompt`, or with administrators, `Spec => []ConcurrencyCap`, for every cap of the registry |
| `UpstreamBudgetProofs!TypeCorrect` | `Spec => []TypeOK` |
| `UpstreamBudgetProofs!CapInRange`, `CapOnlyFalls` | `Spec => []CapRange`, `Spec => CapNeverRaised` |
| `UpstreamBudgetProofs!OvershootBounded` | `Spec => []BoundedOvershoot`, which is about callers that reserve |
| `RagDispatchProofs!TypeCorrect` | `Spec => []TypeOK` |
| `RagDispatchProofs!BudgetKept` | `Spec => []AttemptBudget` |
| `RagDispatchProofs!Implements` | `Spec => JobQueueSpec`: dispatchers, consumers and the driver on one table implement the abstract queue |
| `RagDispatchProofs!RunsAlone` | with `Quick`, no duplicates and no sendBatch that throws, `Spec => []SingleRun` |
| `RagDispatchProofs!CapsAdd` | with one dispatcher and one driver slot, `Spec => []ActiveCap` |
| `IngestionProofs!TypeCorrect` | `Spec => []TypeOK` |
| `IngestionProofs!GuardHolds` | without any condition, `Spec => []OneRunning` |
| `IngestionProofs!FinalizerComesLast` | with one master, `Spec => []FinalizerLast` |
| `IngestionProofs!CompletedWhole`, `LateCloses` | with one master, `Spec => []CompletedIsWhole`, `Spec => LateCloseIsWhole` |
| `IngestionProofs!TargetIsOwn`, `Spawns` | with `Healthy`, `Spec => []OwnTarget`, `Spec => []SpawnedOnce` |
| `MaxModeProofs!TypeCorrect`, `StopHolds` | `Spec => []TypeOK`, `Spec => StopBars` |
| `MaxModeProofs!BuildsOnce`, `AnswerStays` | with `Prompt`, `Spec => []BuiltOnce`, `Spec => AnswerKept` |
| `BackgroundProofs!CampaignTypeCorrect` | `CampaignSpec => [](CampaignTypeOK /\ MergeTypeOK)` |
| `BackgroundProofs!CampaignSpared`, `MailedOnce`, `Accounted` | `CampaignSpec => []MergeSparesCampaign`, `[]CampaignMailedOnce`, `[]CampaignAccounts` |
| `BackgroundProofs!FireflyTypeCorrect`, `NothingOvercounted` | `FireflySpec => []FireflyTypeOK`, `FireflySpec => []FireflyStored` |
| `BackgroundProofs!CancelStands` | `FireflySpec => FireflyCancelStands` |
| `BackgroundProofs!BackgroundTypeCorrect` | with `Reruns = {}`, `Spec => []TypeOK` of `MCBackground` |
| `BackgroundProofs!BackgroundSafe` | with `Reruns = {}`, `Spec` of `MCBackground` implies `FireflyStored`, `FireflyCancelStands`, `CampaignAccounts`, `CampaignMailedOnce`, `MergeSparesCampaign` and `BackupRestorable`: the models side by side, as the run explores them |
| `D1BackupProofs!BackupTypeCorrect` | with `Reruns = {}`, `BackupSpec => []BackupTypeOK` |
| `D1BackupProofs!LatestRestorable` | with `Reruns = {}`, `BackupSpec => []BackupRestorable` |

Every safety invariant and every action property of the passing runs is stated by one
of them. They hold for every set of items, drivers, domains, callers, dispatchers,
consumers, masters, chunks, turns, workers, contacts, merges, windows, rowids, parts
and days and every value of the other constants, from the named assumptions
`WorkQueueRowsAssumption`, `WorkQueueAssumption`, `UpstreamBudgetAssumption`,
`RagDispatchAssumption`, `IngestionAssumption`, `MaxModeAssumption`,
`CampaignAssumption`, `ContactMergeAssumption`, `FireflyAssumption`,
`SyncJobsAssumption` and `BackupAssumption`. A condition of a theorem is one the run
that checks the same property makes too, where the theorem does not do with less; the
configurations of section 3 show for the main ones what happens without.

*Attempt budget.* `AttemptBudget` is not inductive: the sweep writes `read + 1`,
where `read` came from an earlier statement. The invariant adds that an attempt a
driver has read for a row it is sweeping or failing is smaller than the row's
budget, so that what it writes is at most the budget and equal to it only with
'dead_letter'. `WorkQueueRowsProofs` states for each statement of the table that it
keeps the budget; `WorkQueueProofs` has one step per action of the driver.

*Refinement.* A sweep maps to `Charge` only if the attempt it read is still the
row's. Between its SELECT and its UPDATE the row may be deferred and claimed again
without a change of `attempt`, but a change of `attempt` takes the row out of
'in_progress', with a backoff of at least a minute; under `Prompt` no minute passes
between two statements of a driver, so the row cannot be claimed again before the
UPDATE, which then finds it not in progress. The invariant of this proof says just
that: a stale read of a row in progress equals its attempt, or the row still waits.

*Overshoot.* The invariant counts: what is used, plus the callers that were admitted and
have not reserved yet, is at most the cap the row started with plus the callers but
one. The proof is about cardinalities of the set of admitted callers.

*RagDispatch on the same table.* All steps but the start of a sweep, its UPDATEs and
the tick of the clock run one `Statement` of the table and leave what sweeps have
read alone (`StepKinds`). The budget and the refinement then follow from the lemmas
of `WorkQueueRowsProofs`, statement by statement. No `Prompt` is needed: the clock
of `RagDispatch` waits for every invocation.

*One runner.* `SingleRun` looks at runners only; what keeps it is ownership. A row in
progress whose lease is not over has at most one owner: the dispatcher that claimed
it and has not sent it, the one fresh message about it, or the runner that holds it.
A row in the hands of a sweep has none, and cannot be claimed before the sweep is
over (`RunnersOwn`, `MailOwns`, `ClaimOwns`, `SweepSees`). Sending, receiving,
losing and crashing pass the ownership on or end it; with `Quick` time never ends the
lease of an owned row. A duplicate would be a second owner, and a sendBatch that
throws after the queue took the messages defers rows that have one.

*Steady domains.* A row that waits in a claimed batch for other rows' handlers has no
heartbeat, and `WorkQueueBatch` shows it run twice; a row put off to now is claimed
again before the handler that did so has returned, and `WorkQueueGhost` shows that
handler's `completeWork` close it. Six of the fourteen registered handlers are slim:
contact enrichment, deck rendering, intelligent import, MAX jobs, the CRM name backfill
and Firefly windows. Of these Firefly windows (to now or to midnight,
firefly-window.ts:350-352, 431), contact enrichment (contact-enrichment.ts:47, 82) and
the name backfill (by a second, crm-name-backfill.ts:1114) may put a row off by less
than a minute; deck rendering, intelligent import and MAX jobs are steady.
`SingleExecution`, `NoGhostCompletion` and `NoRepeat` speak of the rows of steady
domains, and the theorems hold of them in any registry, whatever the other domains do
to their own rows in the same ticks. For them the invariant is the ownership argument of
`RagDispatch` again, with leases for messages: a row an invocation has claimed is live
or sleeps until a minute passes or is over (`HoldersOwn`), a sweep's candidate is held
by nobody (`SweepSees`), and what one invocation has claimed and not begun lies in the
slice it is about to run (`InSlice`). It needs `Prompt` and `Timely`; it does not need
that statements succeed, invocations survive or administrators stay away. `NoGhosts` adds
that a row is completed only by an invocation that saw its handler return
(`ReturnedDone`). `RunsNoRepeat` follows rows whose handler returned to their end
(`FinishedStays`): with a failing statement or a kill between handler and `completeWork`
they would come back.

*Caps.* COUNT and claim are two statements. An invocation of the cron is alone between
its start and its claim from the first domain, because the next one starts a minute
later and `Prompt` lets no minute pass within (`OneEarly`); the room it counted is
still there when it claims (`RoomLeft`), so the first domain's cap is exact. On a later
domain two invocations may meet (`WorkQueueCapOverlap`), and an administrator's meets
any. `ConcurrencyCap` says how bad that gets: invocations that counted together may each
fill the cap, and no more. The rows in progress and the rooms counted and not yet used are
together at most the cap times the invocations (`Together`): a claim turns room into rows,
and a COUNT finds room only below the cap, beside at most a cap's worth of each other
invocation (`RoomWithin`).
In `RagDispatch` two drainers do count beside each other. `RoomKept` says what
each has still to add: rows in progress, the room of a burst that counted and the
driver's one row fit under the two caps added up, because each counted under its own.
The model's driver claims one row per slot, and the theorem is about one burst and one slot.

*Guard.* The guard SELECTs and then INSERTs, and nothing keeps two masters out of it at
once; `IngestionOverlap` shows two running rows. `OneRunning` says that there is no other
way. A master in the guard and one that was in it beside him know of each other
(`MetInGuard`), a master that has not begun owns no row (`IdleHasNone`), and while a
master is about to insert, every running row is one that was opened by a master it met
(`OpensBesideMet`): if the row was there at its SELECT, it would have skipped. Kills,
retries of the INSERT, late closers and rows opened by hand change nothing of it.

*Finalizer last.* The child that creates the finalizer has only seen that as many
chunks are recorded as the row's `chunk_count` says. The invariant adds that a count
that was set is what the one master fetched, and that a recorded chunk is one of those
it created, numbered up to the same count. As many recorded chunks are then all of
them, by cardinality, and stay so: no step unrecords a chunk or changes the count.
The type invariant adds that only children of rows of `sync_jobs` come that far.

*Completed and late closes.* For one master the invariant of *Finalizer last* is carried
on: a completed row has all its chunks recorded or belongs to a master that is done
(`FullOrDone`), the reconciler reads 'completed' only of a master that is done
(`AskedWhenDone`), and a master that is done has created a child for every chunk it
fetched (`SentOut`). So a row is completed by its
finalizer with all chunks recorded, or by the reconciler with all of them in the hands of
children; `IngestionLate` shows that the second is really weaker. For a row that is closed
already each writer of `status` is looked at in turn (`StatusSteps`): the finalizer comes
last, the reconciler filters on 'running', and only the maintenance writes on what it
had selected. Slow children, retried and killed steps and rows opened by hand are all
included; a second master is not, since its chunks may be counted on the first one's row.

*Healthy ingestion.* `Healthy` is the case without failing steps, kills, overlapping
guards, rows opened by hand and children slower than the watchdogs; there may be any
number of masters. Then a master that writes or fans out owns the one running row
(`Owned`), the ledger of recorded chunks has only chunks that were sent for the row
(`LedgerTold`), and whoever triggers the finalizer does so when the last of them was
recorded, which happens once (`TriggerTold`); a row that nobody works for any more
has all its chunks recorded (`Quiescent`), so the parties that close rows late find
none to take. `OwnTarget` and `SpawnedOnce` then need no step of their own;
`IngestionRefan` and `IngestionSpawn` show what each loses with faults. No other theorem
about ingestion assumes `Healthy`.

*A MAX turn.* `StopBars` needs no condition: a stop that is recorded sets a flag of
the run that no statement takes back, and the worker's last check reads it
(`Barring`). The other two rest on who holds a turn's row of work_queue. The row of a
turn that is being worked on is closed or has its lease before it, so no second worker
gets it (`Holding`); from the first progress report to a good end the job's heartbeat is
not stale, so the repair does not take it for lost (`Warmed`). With `Prompt` the
request is over and no heartbeat is in flight when the artifact is made; so it is
delivered by its one worker, nobody reopens the job, and it is not built again
(`Delivery`, `Settled`), and once the answer is stored whoever could take it back is
through or finds the job closed, or about to be closed by its one worker (`Answered`).
The one writer this does not hold of is a stop that read the metadata before the answer;
`AnswerKept` allows it and nobody else to take an answer back (`TakenBack`).

*Campaign and merges.* `CampaignMailedOnce` counts mails against attempts that died:
a contact whose step has still to return has no mail but those lost and the one in
flight (`MailInv`). `MergeSparesCampaign` relates a merge past its check to all the
workflow has still to mail (`LockInv`): the merge took both locks before it looked at
the campaign, and the workflow loads no recipient whose contact is locked,
so what it loads later is none of the merge's. The merge's look at the status tells the
truth as long as no PATCH unmarked the campaign under its workflow. `CampaignAccounts`
and `CampaignMailedOnce` do not read the status and hold beside any PATCH; the first
follows a row that merges move by `rowAt`.

*Firefly.* `FireflyStored` is kept by the order in which a handler stores transcripts
and then counts them (`WindowsOK`), for any cut of the listing into runs. A cancelled
window stays failed because the UPDATE of a handler's result is filtered on an active
parent, and the unfiltered one after an exception writes 'failed' as well.

*Backup.* `BackupRestorable` speaks of the partition `latest` names; the invariant
carries the same fact from the dump on. While an instance dumps, each of its rows
that stayed since 'plan' is in a part it has listed if it lies at or before the
cursor kept by the engine, and in the page of the step that runs if it lies between
that cursor and the one the step has reached; a part it has listed is in R2, and no
part with a later number is listed, so that putting a part again touches none. One
query passes no row it does not keep, even when the byte budget stops it in the
middle of what it fetched, and passes the whole table when fewer rows come than asked
for (`QueryFacts`, from two lemmas on the first rows of a finite set). An instance
runs on its own day alone, which is what fails with a rerun; retention removes only
days before the one `latest` names.

What stays with TLC is liveness: `Settles` of both drainers, `CircuitRecovers`,
`JobCloses`, `TurnSettles`, `FireflyEnds` and `SyncJobSettles` rest on fairness, on
which the provers have no hold. `OwnTarget` and `SpawnedOnce` of failing runs are
disproved rather than proved, by
`IngestionRefan` and `IngestionSpawn`, and so is what the weaker properties leave out: a
cap that is exact on later domains, one running row at any time, a completed row with
every chunk recorded, an answer that no stop takes back, `NoRepeat` with faults.

## 5. Not modelled, and why

* Writers of `work_queue` outside the modules above: deletions (`cleanup.ts`), the
  Outlook repairs (`outlook-app-only-health.ts`) and `deal-replay.ts`.
  `AttemptBudget` and `JobQueueSpec` hold between two interventions of a repair;
  `FireflyBackfill` includes the one of `ingestion-health.ts`.
* The Outlook and calendar backfills, enrichment, company merges, approvals,
  subscriptions, tokens, KV limiters and deck jobs: they have state worth a model
  and are in the plan.
* What handlers do. Their outcome is a choice, which covers all of them.
* The exact millisecond of a window's end, where `checkBudget` and the upserts
  disagree; several units per call; circuits more than two hours ahead, which the
  code clears and never creates.
* The statistics of a sync job, its telemetry and its chunk files.
* Data transformations (classification, extraction, resolution, ranking, prompts),
  request handlers made of single statements, I/O clients, the frontend, scripts
  and vendored code. They are most of the repository's lines: the control state of
  the system is a few thousand lines of `lib/`, `workflows/` and two handlers, and
  what surrounds it builds prompts, parses answers, scores, formats and renders.

## 6. Plan

In this order, most important first; 1 to 11 are done.

1. `JobQueue`, `WorkQueueRows`, `WorkQueue`: the queue everything else runs on.
2. `UpstreamBudget`: the ledger its claims depend on.
3. `RagDispatch`: the second drainer of the same table.
4. `Ingestion`: the workflows and the parties that close their rows.
5. Proofs for `RagDispatch` and `Ingestion`.
6. `MaxMode`: a turn that spans four tables and several invocations.
7. `FireflyBackfill`: windows, counters and completion of a parent, with repairs.
8. `CampaignSend` and `ContactMerge`: at most one mail under step retries, beside merges.
9. `SyncJobs`: guarded and unguarded closes of operational rows.
10. `D1Backup`: an export resumed between steps.
11. Proofs for the modules of 6 to 9, and of `SingleExecution` and `NoRepeat` for
    `WorkQueue` by the ownership argument of `RagDispatchProofs`.
12. The Outlook and calendar backfills and enrichment: the same parts as 7 with a
    guard like that of `Ingestion`.
13. Approvals and company merges; `TaskRuns`; the audit and webhook consumers;
    subscriptions, token refresh, KV limiters, deck jobs.
