# A verification of the translation workbench in TLA+

The repository is a server that translates books: a FastAPI backend over one
SQLite database, a React frontend, and a tool that installs releases. This
directory holds TLA+ models of its core, the TLC configurations that check them
on small instances, and proofs that TLAPS checks for every value of the
constants. Line numbers below refer to the files under `src/`.

| Module | What it is |
| --- | --- |
| `ProjectWork` | what the job queue promises per project: the abstract specification |
| `JobManager` | the durable job queue and the process that works through it; implements `ProjectWork` |
| `JobManagerProofs`, `JobManagerRefinement` | its inductive invariant and the theorems that follow; that it implements `ProjectWork` |
| `TranslationRun` | one project's ledger of segments, the translation memory, and the run that fills the ledger in |
| `FailedRun` | a run that fails and leaves its workers beside those of the next; extends `TranslationRun` |
| `TranslationRunProofs`, `FailedRunProofs` | what one step of the run preserves; the theorems about both |
| `RetryPolicy` | the calls of a run's workers to the model: attempts, delays, the shared cooldown, drafts |
| `EventStream` | event broker, one connection and one page |
| `ModelSettings` | profiles, credentials, prompt templates and the project that refers to them |
| `BookFiles` | uploaded and exported files against their rows |
| `Release` | the release tool, the container's start, and the repair after a failed step |
| `Migrations` | the Alembic revisions, commit by commit, and the adoption of older databases |
| `Segmentation`, `ContextWindow`, `Protection` | what is done to a text before and after its call |
| `RetryPolicyProofs`, `ServicesProofs`, `ReleaseProofs`, `OperationsProofs` | theorems about `RetryPolicy`; `EventStream` and `ModelSettings`; `Release` and `Migrations`; `BookFiles` and the three text modules |
| `MCJobManager`, `MCTranslationRun`, `MCFailedRun` | small instances for TLC |
| `MCProgress`, `MCServices`, `MCOperations` | modules that do not interact, side by side in one run |

## 1. Inventory

The server is one process with one event loop (`deploy/entrypoint.sh` starts a
single uvicorn worker). Its endpoints are coroutines over synchronous database
sessions, so **the code between two awaits is one step**. What interleaves is
the requests, the background tasks, time, and the end of the process.

### Components that keep state and run concurrently

**Durable job queue** (`backend/app/jobs/manager.py`).
*State*: the rows of the `job` table (status, project, type, attempts, stop
request, owner, lease, time of the last update); in memory one worker task, the
heartbeat task and stop event of the job it runs, and the event that wakes it.
*Operations*: create, stop, recover at start, claim, run, heartbeat, finish,
fail or requeue, shut down. *Interactions*: requests create and stop rows;
deleting a project sets `project_id` of its rows to NULL; the worker calls the
handler of the job type. *Hard*: stop against claim, against the end of a run
and against a retry; lease against heartbeat; crash and restart at any point;
lost wake-ups; errors in tasks nobody watches. *Correct when*: one active row
per project, no lease of a live run lapses, a stopped row stays stopped, a
finished row stays as it is, attempts are bounded, queued rows are taken up and
stop requests end runs.

**Translation run** (`engine/translator.py`, `api/adapters.py`).
*State*: status and text of every segment, the translation memory, the status
of the project; in memory the candidate list, a bounded queue, worker tasks,
locks by source hash and the stop event. *Operations*: collect candidates,
feed, seal with sentinels, join; claim, look up, call the model, write back,
record an error, give back. *Interactions*: it is the handler of a job; it
shares the segment rows with the editor, and it publishes events. *Hard*: late
answers after a stop and an edit, equal texts in flight, cancellation in the
middle of feeding, a worker that dies, replay after a crash. *Correct when*: a
text is never called for twice at once nor again when it is known, finished
segments stay as they are, nothing stays `processing` without a worker, no call
starts after a stop, and every run ends.

**Segments API, project control, start-up recovery** (`api/segments.py`,
`api/projects.py`, `main.py`). *State*: the same rows. *Operations*: edit,
mark, review, reset, retranslate, start, stop; the sweep of `processing`
segments and `translating` projects at start. *Hard*: they act between any two
steps of a run. *Correct when*: a finished segment has a text, and the project
is shown as translating exactly while a run is on.

**Retry and rate limit** (`engine/translator.py` 84-300). *State*: a shared
cooldown, the attempt number and the partial stream of each call. *Operations*:
call, classify the error, back off, reset the stream, cool everybody down.
*Correct when*: attempts are bounded, nobody calls during a cooldown, a reader's
draft never mixes two attempts, and every call ends.

**Event broker and stream** (`api/runtime.py`, `api/stream.py`,
`frontend/src/api/useProjectStream.ts`). *State*: a sequence number, a history
of 500 events and subscriber queues of 200 per project; a cursor per
connection, the browser's last event id and its cached segments. *Operations*:
publish, subscribe, replay, drop the oldest, clear, reconnect. *Correct when*:
a connection sees increasing ids, and the page shows the ledger's state once
everything sent has arrived, or is made to fetch it.

**Artifacts and storage** (`storage.py`, `api/artifacts.py`, upload, export and
delete in `api/projects.py`). *State*: artifact rows, files, temporary files.
*Operations*: reserve, write, publish, register, reject, link to the project,
delete file by file. *Hard*: an export runs in a thread beside a deletion; every
step may fail or be the last before a kill. *Correct when*: no ready row lacks
its file, and no file lacks a row or a project that will take it along.

**Release tool** (`deploy/release.py`). *State*: the active tag, the previous
release, schema version, service up or down, backup, lock file, journal of the
upgrade. *Hard*: every step may fail half done, the repair too; the container migrates on
its own when it starts. *Correct when*: code and schema fit each other whenever
the service is up, and one failure leaves the service up on the version the
manifest names.

**Model profiles, credentials, prompts** (`services/providers.py`,
`services/prompts.py`, `api/settings.py`, `security/crypto.py`). *State*:
profiles and templates with one default each, credentials with the verdict of
their last test, the project's choice of both. *Operations*: create, update,
make default, delete, test, assign, resolve. *Hard*: each request is a thread
that reads first and writes later; rows are deleted under those who refer to
them. *Correct when*: there is at most one default, and it is enabled and not
lost; verdicts are about the stored key; a run uses what was chosen. The rotation of
the encryption key has no caller in the repository.

**Database schema and migrations** (`db.py`, `alembic/`). *State*: the recorded
revision, the tables, what they hold. *Hard*: SQLite commits most DDL statements one
by one, older builds made databases without a revision, and a recreated table
fires the cascades of its foreign keys. *Correct when*: the recorded revision is true,
nothing is replayed, and an upgrade keeps the rows.

**Administrator sessions** (`security/sessions.py`, `api/auth.py`). *State*:
sessions with idle and absolute expiry, login counters with a lock-out.

### Components that are pure

Segmentation (`segment.py`), the context within its token budget
(`engine/context.py`), the markers that protect code and links
(`engine/protection.py`), prompts, parsers, writers, QA. They keep no state
between calls. *Hard*: the boundaries (a span longer than a segment, a glossary
longer than the budget) and constructs inside of others. *Correct when*: the
segments of a block are the block, the context holds the best that fits, and a
text comes back from the model with everything that was hidden, or not at all.

### The rest

Glossary, logs, settings and system endpoints read and write single rows. The
command line runs `translate_records`, the database-free variant of the run. The
provider adapter is the network call. The constraints of the tables that a model depends
on (the partial unique index on active jobs, `ON DELETE SET NULL` on the job's
project, one default per table) are part of that model.

### How they interact

The project API creates and stops the rows of the job queue; the queue calls the
translation run as its handler; the run shares the segment rows with the editor,
calls the model under the retry policy, and publishes events that the page
follows through the stream. The run resolves the project's profile and template
when it starts. Deleting a project stops its job, removes its files and lets the foreign
keys do the rest. The release tool stops the whole process, migrates its
database and starts it again; the process recovers jobs, segments and projects
when it starts.

What passes between two models is small, and each has it as an input: a
handler that returns, raises or is cancelled (`JobManager`, from
`TranslationRun`); a job that is queued, running or taken up again
(`TranslationRun`, from `JobManager`); a call that answers or fails
(`TranslationRun`, from `RetryPolicy`); segments written and runs that begin and end
(`EventStream`, from `TranslationRun`).

`PROJECT.json` lists every component with its state of modelling, and every
hazard at the line where it bites with the properties that watch it.

## 2. Plan

Done, in this order: `JobManager` with `ProjectWork` as its abstract specification,
`TranslationRun`, `FailedRun`, `RetryPolicy`, `EventStream`, `ModelSettings`,
`BookFiles`, `Release`, `Migrations`, `Segmentation`, `ContextWindow` and `Protection`;
and the proofs. Every invariant and every action property of the passing runs
is a theorem, and so is the refinement. Section 14 says what is not.

Next:

1. An abstract specification of the ledger (a segment is open, being translated, or
   finished; who may move it) with `FailedRun` as its implementation. Most
   of what the step proofs need is in `TranslationRunProofs`.
2. The one interaction that is still an assumption on each side, the handler
   of `JobManager` and the coroutine of `TranslationRun`, in one specification.
3. The chapter summary as a call of its own, and the other parts section 15
   leaves out of modelled components.

## 3. JobManager

### State and steps

`job` is the table, a row per id; ids beyond `last` are unused. `server`, `inst`
and `handlers` are the process, its `_instance_id` (a number per boot) and the
job types its release knows. `worker` is the worker task: *claiming* (about to
call `_claim_next()`), *idle* (waiting for `_wake`), *running* (inside a
handler), *dead* (ended by an error), *none*. `cur`, `stopEv` and `beat` are the
job it runs, that job's stop event and its heartbeat task.

| Action | Code |
| --- | --- |
| `Create` | `create()` and `start()`: refused while the project has an active row; replaces a dead worker task |
| `Stop`, `DeleteProject` | `stop()`; `delete_project()` stops the active job, then the foreign key sets `project_id` to NULL |
| `ClaimNothing`, `WakeUp` | an empty claim, the wait for `_wake` and its timeout |
| `ClaimAndRun`, `ClaimAndReject` | `_claim_next()` and `_run()` to its first await; `_run()` returns when the project is gone, and fails the row when there is no handler |
| `HandlerReturns`, `HandlerRaises` | the end of `_run()` with the result or `_fail_or_requeue()`, and its `finally` block |
| `Heartbeat` | `_heartbeat()` after its sleep |
| `ClaimFails`, `RecordFails`, `HeartbeatFails` | a database error in a background task |
| `ShutdownBegins` .. `ShutdownFails` | `shutdown()`: before its wait, the worker's exit, the end of the grace period, the sweep, and the path on which the awaited worker raises |
| `Crash`, `Boot` | the end of the process at any point; `startup()` with `recover()` |
| `Tick` | time |

*Time.* `lease` and `backoff` count down the ticks to `lease_expires_at` and to
the end of the retry backoff; `age` counts the ticks a sleeping task has slept.
A tick may not pass once a sleeping task is `Late` ticks over its timeout: the
event loop is late by at most `Late`. In the code the lease is 30 s and the
heartbeat 10 s (`manager.py` 26-27), so `Beat + Late < Lease` allows it almost 20 s.
Ticks go on while the process is down, so leases run out under a dead server.

*Handlers* are opaque: they return, raise, or are cancelled at the end of the
grace period. A handler that returns after a stop is one that heeded it.

*Left out*: progress and result texts, error codes, audit rows; `updated_at`
except as the origin of the backoff.

### The abstract specification

`ProjectWork` knows of each project only whether there is work, and whether it
waits, runs or was asked to stop; and how often the server has been started.
`JobManager` implements it under `work[p] = WorkOn(p)`, the status of the
project's active row, and `starts = inst`. `ImplementsProjectWork` says that whatever
happens to rows, leases, attempts, owners and tasks amounts to the few steps of
`ProjectWork`. In particular work that was asked to stop runs again only
across a restart. That exception is real: `recover()` queues a copy of the row
without the stop request (`manager.py` 236).

### What is checked

| Run | Question |
| --- | --- |
| `jobs_releases` | every safety property, the inductive invariant and the refinement, with every actor, a fault, and a restart under a release without one of the handlers |
| `jobs_progress` | queued rows are served, stop requests end runs (the half of the run that is `JobManager`) |
| `jobs_restart` | *violation*: a job does not survive a quick restart |

*Bounds.* Two projects are what it takes for one to wait behind the other, and
they are interchangeable (symmetry in `jobs_releases`; not used in the liveness run). Two rows let
a row and its recovered copy, or rows of two projects, meet; one claim looks at
one row (`ScanLimit = 1`; the code looks at ten) so that rows fall outside
the scan. `Lease = 3`, `Beat = 1`, `Late = 1` is the smallest choice with a late
heartbeat. Two attempts give one retry; the two backoffs differ because
the cap is reached. Two boots give one recovery, and the proofs cover the rest.
TLC's deadlock check is on: time always goes on.

*Fairness.* The worker task, the wake-up, the heartbeat and time are weakly
fair: the event loop resumes a task whose timer or event is due, and the
process is not guaranteed to stay up, so crash, shutdown and boot are not fair. In
`jobs_restart` (`FairSpec`) handlers end. In `jobs_progress` they are only trusted to end once
their stop event is set, which the translation run does at the next point it looks
at the event, within the timeouts of the calls in flight. `QueuedIsServed` assumes in its
premise that the worker is free again and again, because one handler that never
returns keeps the only worker.

### What is proved

`JobManagerProofs` proves, for every set of projects, job types and releases,
every timing with `Beat + Late < Lease`, and any number of rows, boots and
faults (the bounds are arbitrary constants):

| Theorem | Property |
| --- | --- |
| `QueueInvariant` | `Inductive`, from which the invariants below follow |
| `TypeCorrect` | `TypeOK` |
| `AtMostOneActiveJob` | `OneActiveJob`: the code never meets the partial unique index of `models.py` |
| `LiveRunIsLeased` | `RunIsLeased` |
| `StopIsObeyed` | `CancelledStaysStopped` |
| `AttemptsAreBounded` | `AttemptsWithinLimit`: `max_attempts`, plus one per restart |
| `NoRunIsStranded` | `NoStrandedRun`: the early return of `_run()`, which would leave a row running for ever, is never taken |
| `NoWakeUpIsLost` | `PromptService`: when the worker sleeps and nothing will wake it, what its next claim would look at is only retries waiting for their backoff |
| `FinishedRowsStay` | `OutcomeIsFinal`, an action property |

The safety properties are not inductive alone. `Inductive` adds what they lean on:

- `UnusedBeyondLast`: rows are inserted in id order, so an insertion overwrites none;
- `TaskShape`: the worker and heartbeat belong to a row the process owns, so a
  release never touches a finished row;
- `LeaseClock`: lease left plus time slept is `Lease`. `RunIsLeased` follows from
  it and the assumption on the timing. A stop request, a deletion and a late
  wake-up leave the sum alone;
- `OwnersBooted`: owners are earlier or present processes, so a new process owns
  no row and `NoStrandedRun` holds after a boot;
- `OrphansAreStopped`: an active row without a project carries a stop request, so it
  is neither retried nor claimed, and `_run()` never returns from a claimed row;
- `NothingBeforeBoot` and `QueuedHasAttempt`: a queued row has an attempt left,
  counting one more per restart, which is what `recover()` uses up;
- `StoppingWasAsked`: a row in `stopping` carries its stop request.

The step proofs do not repeat the case split over all actions for every property. `RowsMove`
shows once that each step that inserts nothing moves each row in one of four
ways (kept, asked to stop, taken, given back), and `RowsInserted` what `Create`
and `Boot` do to each row; `RowInvStep`, `OneActiveStep` and `FinishedRowsStay`
only use these. The assumptions are those of the `ASSUME`s in `JobManager`.
`PromptService` is proved beside `Inductive`, from types and task shapes alone: the rows
a claim looks at are the lowest queued ones, an insertion comes after them and sets the wake-up,
and every row that is given back leaves the worker about to claim.

`JobManagerRefinement` proves `ImplementsProjectWork` (`QueueImplementsWork`). The
mapping reads the status of *the* active row of a project, so it needs `OneActiveJob`
before and after the step: what changes one active row is then one step of
`ProjectWork` on its project, and what changes none is a stutter. Two steps
may change several projects at once: the sweep of `shutdown()`, and `Boot`, where the recovered
copy takes the place of the row it was made from.

## 4. TranslationRun

### State and steps

One project. `status`, `text` and `tm` are its ledger: the status of every
segment, and *who wrote* its text and the memory entry of every source hash
(nobody, the model, the user). That is all the properties distinguish. `job` is
the active row of the project in `JobManager`: its phase, and from its payload
the mode and the segments selected. `main` is the coroutine of
`translate_project()`, `todo` and `pills` what it has still to put into `queue`,
`pc` and `held` the worker tasks and what they work on.

| Action | Code |
| --- | --- |
| `Edit`, `Erase`, `Mark` | `update_segment()` with a text, an empty text, a status only |
| `Review`, `SetPending`, `Retranslate` | `bulk_segment_action()`, `retranslate_segment()` |
| `Start`, `Stop` | `start_translation()`, `stop_translation()` |
| `RunStarts`, `RunRefused` | `run_project_translation()` to the first wait, or to an error before there are workers |
| `Feed`, `PutResumes`, `FeedEnds`, `Seal`, `RunReturns` | the coroutine: feeding, sentinels, `queue.join()`, and the adapter's last word on the project |
| `TakePill`, `Skip`, `Claim`, `GetLock` | `worker()`: a sentinel; a segment it may not take any more; `load_claim()`, the lock, the memory lookup, up to the call |
| `Answer`, `CallFails` | the answer written under its `WHERE status = 'processing'` and remembered; the error written |
| `WorkerDies`, `StoreFails` | database errors in a worker |
| `ShutdownBegins`, `Cancel`, `Unwind`, `ShutdownEnds` | shutdown with its grace period: workers are cancelled where they wait, the coroutine sweeps up after them |
| `Crash`, `Boot` | the process ends; the recovery at the next start |

*Granularity.* Tasks give way only where they wait for the queue, a lock or the
model, so a claim runs in one step to the next of these. A feeding turn is a
step of its own because the coroutine may wait for the chapter summary of the next segment. asyncio
grants locks first come first served; the model grants them to any waiter, which
allows more. The whole of `translate_with_retry()` is the time between `Claim` and
`Answer` or `CallFails`; that this time ends is `EveryCallEnds` of `RetryPolicy`.

*Boot* either queues the interrupted job again or leaves it, because `recover()`
takes a row only when its lease has run out (`JobManager` has the clock).

*Left out*: streaming and its resets (`RetryPolicy`), events (`EventStream`),
chapter summaries, context, usage counters, log rows; other projects (a hash may be shared through the memory; an
entry written by another project is one the model wrote).

### The run that fails: FailedRun

The read before a chapter summary (line 636) stands outside of the `try`: a
database error there ends `translate_project()`, which waits for its workers
only when it is cancelled. `SummaryReadFails` moves the workers, their queue
and their job to the variables `left..`; the job is queued again or given up,
and the next run gets workers, a queue and locks of its own. `LeftWorks` are
the actions of `TranslationRun` itself, under `Left == INSTANCE TranslationRun WITH
pc <- leftPc, ..`. They end with the process (`LeftAfterStep`).

The workers left behind do break promises: they have their own locks, so a text may be
called for twice, and nobody sets their stop event, so they call the model
after a stop until their queue is empty. `NoCallForKnownText` is therefore stated
while `NothingLeft`, and `OneCallPerHash` and `NoCallAfterStop` are about the workers of one run. What
still holds, because every write is guarded by the status in the database, is
`FinishedIsKept` and `HeldWhileProcessing`: nothing finished is undone outside of a forced run, nothing
is lost in `processing`. A run fails at most once before the next boot
(`SummaryReadFails` requires `NothingLeft`): two generations of workers left
behind would need a third set of variables and bring no new kind of step.

### What is checked

| Run | Question |
| --- | --- |
| `run_ledger` | every safety property: user requests against runs, shutdown, crash, restart, and a database error that ends a worker, loses a memory entry or fails the run (`FailedRun`) |
| `run_ends` | every run ends, with a queue that fills up |
| `run_stop_hangs` | *violation*: after a worker has died a stop does not end the run |
| `run_redo` | *violation*: a forced run interrupted by a crash is replayed over what it had finished |

*Bounds.* Two workers, three segments, two of them with the same text: one worker
can wait for the lock of the other while the third segment is edited. Three
requests are what the longest story needs (start, stop, edit, then the late
answer); behaviours with a database error have three requests,
errors and restarts together (`MaxWithFailures`), and a run fails after at most one
request (`MaxRequestsLeft`), for it is the error and one or two
requests that have to meet, not two errors. Two boots give one recovery. `run_ends` has five segments, one more
than the queue of two workers holds, and edits two of them one by one (`Edited`): one
that is in the queue and one that waits for room. A database error meets at most one request
there. `CHECK_DEADLOCK FALSE`: once the boots are
used up the server may stay down for good, which is no deadlock.

*Fairness.* Weak fairness of the coroutine and of each worker: the event loop
resumes a task that can go on, and a call to the model ends because every
attempt has a timeout and there are finitely many. Requests, shutdown and crash
are not fair. `RunEnds` excludes runs in which a database error killed a
worker; `run_stop_hangs` shows why it has to.

### What is proved

`FailedRunProofs` proves every invariant and action property of `run_ledger`, for any number of
segments, texts, workers, requests, boots and faults: `SegmentsAreHeld`
(`HeldWhileProcessing`), `CallsAreApart` (`OneCallPerHash`), `KnownTextIsUsed`
(`NoCallForKnownText`), `FinishedSegmentsHaveText` (`FinishedHasText`),
`ProjectSaysTranslating` (`TranslatingWhileRunning`), `FinishedSegmentsAreKept`
(`FinishedIsKept`) and `NoCallBegunAfterStop` (`NoCallAfterStop`). They
follow from `FailedRunInductive`, which TLC checks in `run_ledger` too:

- `RunShape`: which phases of job, server and coroutine go together, and when
  there are no workers. `TranslatingWhileRunning` leans on it;
- `HolderShape`: a worker holds a segment exactly while it waits for a lock or
  for the model;
- `QueueInScope`, `todo`: whatever is fed, queued or held was selected by the job;
- `InOnePlace`: a segment is in one place only, still to be fed, in the queue or with one
  worker. Without it the late answer of one worker would be written to a
  segment that another has claimed again;
- the same of the workers left behind (`Left!HolderShape`, `Left!QueueInScope`), whose stop
  event nobody sets;
- the properties themselves.

What a worker does to the ledger is proved once, in `TranslationRunProofs`, and
holds of the workers left behind by instantiation (`LeftP`), because
their steps are those of `TranslationRun`. `HeldWhileProcessing` is stated
while nobody died: a worker that a database error ended holds nothing, and its
segment stays in `processing` until the coroutine's sweep or the next boot.

### Worth knowing, and allowed by the model

- `FinishedIsKept` exempts the scope of a forced run (retranslate), which claims
  finished segments too: an edit made between the request and the claim is
  overwritten (`segments.py` 243, `translator.py` 543).
- A user's correction replaces the memory entry of its text, and the late answer
  of another segment with that text replaces it again (`translator.py` 1069).
- An edit that unfinishes a segment, or a reset, leaves the project `done`
  until the next run (`segments.py` 176).
- A crash while a stop is pending revives the job: the row itself stays stopped
  (`CancelledStaysStopped`), but `recover()` queues a copy of it without the
  request (`manager.py` 236).

## 5. RetryPolicy

`at`, `try`, `error`, `sleep` and `spent` are the local state of each worker
inside `translate_with_retry()` or `stream_with_retry()`; `cooldown` is what is left
until `_cooldown_until`; `draft` names the attempts whose chunks the reader has
been sent since the last reset.

| Action | Code |
| --- | --- |
| `Ask` | the worker enters; its attempt is the first |
| `Call`, `HoldBack` | `rate_limit.wait()` returns, or sleeps for what is left and looks again |
| `Chunk`, `Answers`, `Refused`, `TimesOut` | what the call does; `Fails` raises the last or a fatal error |
| `BackOff` | `on_reset()`, then `penalize()` after a 429, or a sleep of its own |
| `Cancelled` | passed on from every await |
| `Passes` | time |

*Time.* Timers are punctual here: a tick waits for everyone who is due. Lateness
only adds to a delay, and none of the properties bounds one from above.

*Checked in* `jobs_progress`, beside `JobManager` (`scope` says which of the two
moves; they share no variable, so together they explore the sum of their
states). Two callers are what it takes to share a cooldown; three attempts give
two different delays, `JitterPercent = 50` gives a delay two outcomes. Nothing is
bounded but what the policy bounds: callers ask again and again.

*Fairness*: time passes, and the event loop resumes what is due. That the model
ever answers is not assumed; `EveryCallEnds` comes from the timeouts, the
number of attempts, and from every renewal of the cooldown being paid for
with an attempt.

*Proved* (`RetryPolicyProofs`, any number of callers and attempts, any delays):
`DraftsAreUnmixed` (`DraftIsOfOneAttempt`) and `DelaysAreRespected` (`CallsRespectDelays`).
The second needs `DelaysAreCovered`: the delay still owed after a 429
is part of the common cooldown whoever asked for it, any other one is being slept off
before the gate, and nobody owes one beyond it; and `FailedMayRetry`: what has
failed for the last time never comes back to the gate. That a power of two is
a natural number is itself a lemma: 2^k is the number of subsets of `1..k`.

## 6. EventStream

One project and one page. `ledger` counts the times each segment was written;
`page.view` shows such a count, or `Partial` while a call streams.

| Action | Code |
| --- | --- |
| `RunBegins`, `Delta`, `SegmentDone`, `SegmentFails`, `EditElsewhere` | what the run and the editor write and publish (`translator.py`, `segments.py`) |
| `StopRequested`, `SegmentSkipped`, `RunReturns` | `stop_translation()`, which says "stopped" at once; a late answer or error that is not written; the adapter's last event, when every worker has ended |
| `Connect`, `SendReplay`, `Snapshot`, `SendNext` | `project_stream()`: subscription, replay of the history, the progress event of the new connection, the queue |
| `Cut`, `Restart` | the network; a new process with a broker that counts from 0 |
| `Receive`, `FetchReads`, `FetchArrives` | the handlers of `useProjectStream.ts` and the refetch, whose answer may be overtaken |
| `Opened`, `PollSaysIdle` | the page is loaded; its status poll closes the stream |

Events are told apart by what the page does with them: change one segment, or
fetch all of them.

*A stop.* `POST /stop` takes the segments back, publishes "stopped" and returns
(`projects.py` 474-502), while the workers finish the calls they have begun: the run
is `draining`. Their deltas go on (`translator.py` 951-965) and put drafts back onto
a page that has just fetched. Their answers and errors find the rows no longer
`processing`, write nothing and publish nothing (1051-1067, 1144), so the page keeps the
draft (`silent`) until something makes it fetch: the run's own last event, when the workers have
ended, or the snapshot of a new connection. A page whose status poll closes its stream before
that (`PollSaysIdle`) may keep the draft for good; it hears nothing more, and the properties
are about pages that listen.

*Left out*: `clear()`, whose last event ends the stream of a deleted project; heartbeats;
more pages, which have queues of their own; the workers a failed run leaves behind
(`FailedRun`), which publish into the next run; the log the page shows. A
shutdown is part of `Restart`.

*Checked in* `services`, with a history and a queue of two and six events, so
that both overflow, one broken connection and one restart. Six events are a start, a
delta, a stop, a late delta, the end and one more. One segment is
enough: events of different segments change different parts of the page, and what
loses them (queue, cursor, connection) does not look at the segment.

Three things may leave the page behind *during* a run or its draining. A queue overflow drops
what nobody repeats, and a fetch that was read before an event may arrive after it: the history
variable `untold` marks them. A call may end without a word: `silent`. `PageIsCurrent` says there
is no fourth; `ResultIsShown` says that the last event of the run mends all of them, which
it does because the run returns only when no call streams any more.

*Proved* (`ServicesProofs`, any number of segments, sizes of history and queue, stops, cuts
and restarts): `PageIsKeptCurrent` (`PageIsCurrent`), `ResultsAreShown` (`ResultIsShown`)
and `EventsComeOnce` (`NoEventTwice`), from the two parts of `StreamInductive`:

- `StreamInOrder`: the ids grow along the way from the broker to the page, that is
  through queue, replay and wire, and the page's cursor is behind them all;
- `PageIsTold`: for each segment, the last thing on that way that changes it brings the page to
  what the ledger says, or the page has it already, unless `untold` or `silent` says
  otherwise; and what is `untold` lies behind the cursor or before
  everything that waits (`UntoldIsPast`). After a run has returned nothing follows the event
  that makes the page fetch all, so it mends what was missed (`ResultIsComing`). What a replay
  contains does not matter, because the snapshot comes after it.

Nothing is said of a page that came back with the cursor of an earlier process
(`foreign`): that is `stream_restart`.

## 7. ModelSettings

Each request runs in a thread and is two steps or three: what it reads and
checks (`CreateRow`, `UpdateRow`, `SetDefault`, `DeleteRow`, `ReplaceKey`,
`DeleteKey`, `TestProfile`, `Assign`), for a new default the rows to unmark (`Collect`,
the query of `_clear_default()`), and the transaction (`Write`). The ORM writes
only the columns that differ from what was read (`Changed`). `Constraints` is what the
database refuses. `CreateProject`, `Boot` (the seeding of the built-in
templates), `Provider` and `Prompt` (what a run resolves to) are the other actors.

*Checked in* `services`: two administrators, two profiles, two templates of
which one is seeded, one credential, four requests: that is two overlapping requests and what
they build on. `stale` marks that a request has written although another wrote after it
had read. Then a default may be lost, and the verdict of a connection test
(which waits up to 20 s for the provider) may end up on a key it is not about;
the properties hold where requests do not overlap, and the uniqueness of the
default always, by the database.

Administrators are interchangeable, and so are profiles: at most one is the default, so no choice
depends on their order (`SYMMETRY AnyAdmin`).

*Proved* (`ServicesProofs`, any number of administrators, profiles, templates and credentials):
`VerdictsAreAboutStoredKeys`, `ChosenPromptsAreUsed` and `DefaultsAreKept`, each as long as no
request has written on what was no longer so: they say that no sequence of requests, deletions and
restarts misleads the next one, and nothing about requests that overlap, where the code
does not have these properties. Only that a run never uses a template it may not use, and that
there is at most one default, hold without that. The invariant behind
them is `RequestsAreCurrent`: what a request has read is still so when it writes,
unless a write in between has marked it as overtaken; a write to a template cannot
overtake a request on profiles or credentials, nor the other way round. The rest of
`SettingsInductive` is the foreign keys (`KeysExist`, `ChoiceNeedsProject`).
`ServicesInductive` is checked by the run.

*Left out*: names (a row stands for its name), texts, parameters, encryption.

## 8. BookFiles

The row of a file is committed before its file is written, and goes after it.
`writer` is the request that makes a file, `deletion` the request that deletes a
project. Uploads and deletions are coroutines and exclude each other between
two awaits (`LoopIsFree`, `HoldsLoop`): an upload holds the loop from the time `upload.close()`
has been awaited (`storage.py` 157) until the book is parsed. An export is a thread and interleaves with
everything.

| Action | Code |
| --- | --- |
| `Upload` .. `Links` | `create_project()`: reserve, receive, publish, validate or reject, register, make the project, link |
| `Export` .. `ExportFails` | `export_project()` and `publish_generated()` |
| `UploadFails`, `Rejected`, `ExportFails` | the file or part is removed, or that fails, too: a `StorageError` is logged and the row says "error"; any other error ends the request with the row still "pending" (`projects.py` 186-189, 564-568) |
| `Delete` .. `ProjectDeleted` | `delete_project()`: rows marked, files removed one by one, the project and by cascade its rows |
| `Crash` | at any point; nothing repairs files or rows at the next start |

*Checked in* `operations`: three files of two projects, a file operation that
fails, two deletions (the second after a failed first), one crash.
The properties exempt what the code does not promise, and the exemptions are
histories: `overlapped` exports, which ran while their project was deleted, and
`abandoned` files, whose request was killed or could not remove a part or a rejected
upload. Both stay on the disk for good.

*Proved* (`OperationsProofs`, any number of books, files, deletions, failing operations
and crashes): `FilesMatch` (`FilesMatchRows`) and `FilesStayReachable` (`FilesAreReachable`).
`FileInOrder` says of each file what its row and the disk are at each step of
the request that makes it, or of the deletion that takes it away;
`ProjectsInOrder` that every row is of a project that exists or of none, and that
an upload keeps deletions away. The files of `overlapped` exports are exempt from the former only.

## 9. Release

A command is a process that goes through `Steps`, and after a failure through
`Repair`. `envTag` is the tag of the environment file, `db` the revision of the database,
`app` the container, `manifest` and `lock` the files under `.releases`.

| Action | Code |
| --- | --- |
| `AdoptRunning`, `Install`, `Rollback`, `RollbackToPrevious` | `cmd_init()`, `cmd_install()`, `cmd_rollback()` up to their first effect |
| `Prepare` .. `Record` | the steps, each with its check |
| `Journal`, `UndoStop` .. `UndoHealth`, `PlainUp` | the `except` branches: the journal, then the repair |
| `StepFails`, `Killed`, `Unlock` | a step fails, half done where it can be; SIGKILL or Ctrl-C; the operator removes the lock |
| `EntrypointRuns`, `EntrypointFails` | the container migrates and serves, or breaks |

*Checked in* `operations`: three versions with revisions 1, 3 and 3, so that
there are installs with and without a migration and a way halfway; three
commands (install, install or roll back, and one more on what is left), two
failures, the second in the repair, and one kill. `calm` marks behaviours in
which nothing has happened that the tool does not repair: a kill, a failure of the repair, of
the manifest, of the stop of an install, or with `--no-migrate`.
`SchemaFitsServing` and `SchemaChangesAreSafe` need no such exemption.

*Proved* (`ReleaseProofs`, any set of versions with any revisions, any number of commands,
failures and kills): `ServingFitsSchema`, `ChangesAreSafe` and
`FailuresAreRepaired`. `ReleaseInductive` follows a command step by step: what
the manifest, the environment file, the container and the database are
when it gets there (`CommandShape`, `DownWhileChanging`, `SavedBeforeChange`, `TargetInService`). Its
last part, `RepairIsPossible`, is the argument of the tool: as long as nothing
has happened that it does not repair, the schema is at each step one from which the version
that served before can be served again, so no repair meets a revision its image
does not know.

*Left out*: `status` and `history`, which change nothing; the extraction of the archive; the
restoration of a backup, which the tool leaves to the operator.

## 10. Migrations

A step is what one commit of SQLite makes durable. A revision is a sequence of
such commits, and the recorded revision changes with the last. `Parts` are the
tables or columns that appear together, `rows` what kinds of rows they hold.
`MigrateDb` is `migrate_db()` with its adoption of databases without a revision, `AlembicCommand`
what the release tool and the entry point call, `MigrationFails` a
statement that meets a schema it does not expect.

*Checked in* `operations`: databases that are new, made by the first build, by a
later one, by this one, or half made; four migrations, one kill. That is an
upgrade that is killed, one that fails on what it left, a downgrade and one more.
A killed revision is never completed by a later one: the next upgrade fails on the
table that exists. `RevisionIsTrue` says that at least the record stays true,
except after a downgrade that stopped halfway.

*Proved* (`ReleaseProofs`, any number of migrations and kills): `RevisionsAreTrue`. Its half about the
record exempts databases in which a downgrade stopped halfway. Its half about replayed migrations
is only about databases in which none was cut short: after a kill between two commits the code does replay
a migration against tables that exist, and fails. `MigrationInductive` compares the
schema with `Reached`, the one that the commits of the revisions so far, and
of the one under way, lead to: equal while nothing was torn, and contained in it until
a downgrade is. A database made by something else (`Foreign`) is one no
migration can do anything to. A lemma per revision says where its commits lead and
that each of them finds what it needs. The revisions are the five of the repository.

## 11. Segmentation, ContextWindow, Protection

Three functions over texts, as loops: a step is a turn of a loop, and the properties say
what has been achieved between the turns or at the end. All inputs within the bounds are
tried; `MCOperations` takes one text through one of them (`scope = "texts"`).

`Segmentation` knows of a block its length, the ends of its sentences and the
spans that must stay whole, any number of them. `split_long_text()` and `split_markdown_text()` are
one algorithm with different spans. *Bounds*: seven characters, segments of
three and up to three spans (`MaxSpans`) reach every turn: a span before, at and beyond the cut, at the
cursor, longer than a segment, with a sentence that ends inside of it. Surrogate
pairs are left out: a Python string has none that belong together.

`ContextWindow` counts tokens: glossary and summary have some number, and so has every
previous segment with its translation. `Chosen` is the first test of the whole
context, `Halve` a turn of the binary search for a cut. *Bounds*: four previous
segments, of which three are looked at, of up to four tokens each in a budget of six. Token counts add
up in the model; the tokenizer's do so up to a token at the seams, so the
code may reject what just fits.

`Protection` reads a text as the lexemes the patterns look for: brackets, braces, backticks,
emphasis, spaces, words, the beginning of an address. `Matches` is what the patterns match (`protection.py`
6-18), `Passes` their order for Markdown and for plain text. `Substitute` is one replacement of `sub()`: the
leftmost match from `scan` on gets a marker, or two around the label of a link. `Seen` is what a later pattern
sees: a marker is one more character to it. `Translate` is an answer that keeps, loses or doubles each marker,
`Restore` a turn of the loop that puts them back. *Bounds*: the texts of `MCOperations`, some five thousand:
each construct around or in front of two others, and one more construct around those of words and addresses, and up to three brackets or
the like in any order, closed or not; an answer spoils one marker.

*Worth knowing*: a pattern that finds an earlier marker in its match takes it along. The marker is then not in the text
that is sent (`Buried`); `restore()` looks for the markers in the order in which they were made, does not find it,
and refuses. No answer to such a text is ever accepted, and its segment ends in an error after every run. It
happens in two ways:

- *inside*: code in the label of an image or in an attribute of an HTML tag, or any of the earlier constructs in the
  destination of a link, in a reference or in a placeholder;
- *behind*: a bare address goes up to a space or one of `<>])` (line 12), and a marker is none of these. So the address takes
  along a marker directly after it: of the link around it in `[https://x](https://x)`, of the closing tag
  in `<b>https://x</b>`, or of code that follows.

`ConstructsSurvive` says that an answer that has kept its markers is refused for no other reason, that no text is
accepted with anything missing, doubled or overlapping, and that no bare address is sent.

*Proved* (`OperationsProofs`):

- `BlocksAreCutWhole` (`PartsAreWhole`), for every length and any number of spans (the bounds are arbitrary constants): the cursor is
  never inside a span, and every turn moves it. The cut is the greatest
  of the allowed positions, so the lemmas are about greatest and least numbers of a set;
- `ContextsAreBest` (`ContextIsBest`), for all sizes and budgets: what fits still fits without some of
  it, so the greedy choice from the newest on is the best one, and the binary
  search keeps the longest prefix that fits between its bounds (`ContextInductive`);
- `EveryConstructSurvives` (`ConstructsSurvive`), for every text over the lexemes and every answer: a match begins and ends at
  lexemes that are seen, so a pattern takes a marker along as a whole or leaves it alone (`NoMarkerIsCut`), and what
  overlaps is buried; a pass leaves no address it could have found (`NothingIsLeft`); every pass comes before the answer
  (`AllPassesFirst`), and only markers that can be seen come back (`AnswersInOrder`). Together, `ProtectionInductive`.

Where these need a fact about all numbers up to a bound, the least number for
which it fails is led to a contradiction: well-foundedness of the naturals can
be cited, an induction theorem cannot (section 14). `OperationsInductive`, the invariants of
all six modules together, is checked by the run `operations` and proved (`OperationsInvariant`).

*Left out* of `Protection`: line breaks (which end a tag or a label), comments, `mailto:`, placeholders with `$` or `%`, the length of a run of
backticks and the kinds of emphasis, what a backslash escapes, a source that holds the name of a marker, and the slots of EPUB inline markup,
which fall back to plain text when the answer has moved them. Of the others: the wording of the context and the matching of glossary terms.

## 12. Where code and documents disagree

1. **A quick restart strands a job** (`jobs_restart`). `recover()` runs only at
   start and takes only rows whose lease has run out. A server that is back
   within the 30 s leaves the row `running` for ever; a stop makes it
   `stopping`, and the project accepts no other job until a later restart. The manager's
   own text says "jobs survive restarts".
2. **A stop can hang** (`run_stop_hangs`). An exception outside the inner `try` of
   `worker()` ends that task only. Its sentinel stays in the queue, `queue.join()`
   does not return, and the one job worker is held for all projects.
3. **Done segments are translated again** (`run_redo`) when a forced run is
   replayed after a crash.
4. **A reconnected page is denied events** (`stream_restart`). The broker counts
   from 0 in every process, and the browser comes back with the last id of the
   old one: every event up to that id is dropped, the snapshot included
   (`stream.py` 87).
5. **An upgrade deletes the contents of every book** (`migration_rows`). Revisions
   0002 and 0003 recreate `project` while foreign keys are enforced
   (`alembic/env.py` 44), so the cascades delete chapters, segments, terms and
   artifact rows.
6. **A project whose profile was deleted is translated with the keys of the
   environment** (`profile_deleted`): the foreign key sets its profile to NULL,
   which means "none chosen".

Two more divergences need no run of their own. Recovery carries the attempt
count over and nothing compares it before the handler is called, so
`max_attempts` is exceeded by one per restart: `AttemptsWithinLimit` is the
bound that holds. And a run the user stopped is closed as a server shutdown when the
grace period ends first (`manager.py` 279).

## 13. How to read the mutants

The operators whose comment begins with "A fault:" are plausible mistakes in one place of
the code, stated next to the definition they would replace: a lost wake-up, a
lease that is not renewed, a lock per segment, a stop event not looked at again.
Every property of a passing run has one that violates it. They are used by no action.

## 14. What is only model-checked

Liveness (`QueuedIsServed`, `StopEndsRun`, `RunEnds`, `EveryCallEnds`): the proof system
does not handle fairness and `ENABLED`. So TLC checks it, on the instances
and under the fairness described above. The six violation runs are TLC's as well: they show
behaviours, which nothing needs to be proved about.

Everything else that a passing run checks is proved from the named
assumptions on the constants, which say little more than that bounds are natural numbers,
that NULL is no row, and, for the queue, that `Beat + Late < Lease`. The
proofs hold for the models: the abstractions listed under *left out* are not
part of them, nor is the correspondence of the models to the code.

The provers cannot instantiate the library's induction theorems, which take an
operator. Facts about all numbers are therefore proved from the least
counterexample, or from cardinalities. No module declares a `RECURSIVE` operator.

## 15. Not modelled

- *The chapter summary*: a call of its own between two segments, whose failure
  is ignored; only the database read before it is modelled (`FailedRun`).
- *Encryption* is a library's, and the rotation of its key has no caller.
- *Administrator sessions*: rows of their own, not concurrent with anything modelled here.
- *Text processing* but for section 11 (prompts, parsers, writers, QA): sequential, without
  state, and about formats.
- *The command line*, `translate_records`: the run without a database. It
  shares the retry policy and the discipline of locks and memory, which are modelled.
- *Glossary, logs, system endpoints, the maintenance loop*: single statements on
  rows that no other component waits for.
- *The frontend*, but for what `EventStream` takes from it: rendering and caching.

Run a model with `tlc -config jobs_releases.cfg MCJobManager`, the proofs with
`tlapm JobManagerProofs.tla`, and the same for `JobManagerRefinement`,
`TranslationRunProofs`, `FailedRunProofs`, `RetryPolicyProofs`, `ServicesProofs`,
`ReleaseProofs` and `OperationsProofs`. The slowest take some minutes.
