----------------------------- MODULE JobManager -----------------------------
(***************************************************************************)
(* The durable job queue of the translation server: the rows of the job    *)
(* table and the one server process that works through them                *)
(* (backend/app/jobs/manager.py).                                          *)
(*                                                                         *)
(* Rows survive everything; the worker task, the heartbeat task, the stop  *)
(* event and the wake event live in the process and die with it.  The      *)
(* process runs one event loop (deploy/entrypoint.sh starts one uvicorn    *)
(* worker), so the code between two awaits is one step here.  The actors   *)
(* that interleave at the awaits are the API requests, the worker task, the*)
(* heartbeat of the running job, the shutdown, and time.  A crash may fall *)
(* between any two steps.                                                  *)
(*                                                                         *)
(* Time is counted in ticks.  lease and backoff hold what is left until    *)
(* lease_expires_at and until updated_at plus the backoff floor.           *)
(***************************************************************************)
EXTENDS Integers, FiniteSets

CONSTANTS
    Projects,       \* ids of translation projects; a deleted id is reused
    NoProject,      \* the NULL a deleted project leaves in its job rows
    JobTypes,       \* the job_type values found in rows
    Versions,       \* the handler tables of the releases that may boot
    MaxAttempts,    \* max_attempts of a row
    Lease,          \* LEASE_SECONDS
    Beat,           \* HEARTBEAT_SECONDS
    Late,           \* how late the event loop may resume the heartbeat task
    BackoffBase,    \* the 5 seconds of the retry backoff
    BackoffCap,     \* its 60 second cap
    ScanLimit,      \* how many queued rows one claim looks at
    MaxJobs,        \* bound: rows ever inserted
    MaxBoots,       \* bound: times the server is started
    MaxFaults       \* bound: database errors met by the background tasks

ASSUME ProjectAssumption == NoProject \notin Projects
ASSUME VersionAssumption == JobTypes # {} /\ Versions \subseteq SUBSET JobTypes
ASSUME AttemptAssumption == MaxAttempts \in Nat /\ MaxAttempts >= 1
ASSUME TimingAssumption == /\ Lease \in Nat /\ Beat \in Nat /\ Late \in Nat
                           /\ Beat >= 1
                           /\ Beat + Late < Lease
ASSUME BackoffAssumption == BackoffBase \in Nat /\ BackoffCap \in Nat
ASSUME BoundAssumption == /\ ScanLimit \in Nat /\ MaxJobs \in Nat
                          /\ MaxBoots \in Nat /\ MaxFaults \in Nat

JobIds == 1..MaxJobs
NoJob  == 0

Owned    == {"running", "stopping"}
Active   == {"queued"} \cup Owned
Terminal == {"succeeded", "failed", "cancelled", "interrupted"}

VARIABLES
    job,        \* the job table: row of every id, "unused" beyond last
    last,       \* the highest id inserted
    server,     \* the process: "down", "up" or "closing"
    inst,       \* its _instance_id, a number per boot
    handlers,   \* the job types this release has a handler for
    worker,     \* the worker task
    cur,        \* the job it runs
    stopEv,     \* that job's stop event
    beat,       \* that job's heartbeat task
    age,        \* ticks the heartbeat, or the idle worker, has slept
    wake,       \* the _wake event
    faults      \* database errors so far

durable == <<job, last>>
task    == <<worker, cur, stopEv, beat, age>>
vars    == <<job, last, server, inst, handlers, worker, cur, stopEv, beat, age, wake, faults>>

JobRow == [status   : {"unused"} \cup Active \cup Terminal,
           project  : Projects \cup {NoProject},
           type     : JobTypes,
           attempts : Nat,
           cancel   : BOOLEAN,
           owner    : Nat,
           lease    : 0..Lease,
           backoff  : Int]

TypeOK ==
    /\ job \in [JobIds -> JobRow]
    /\ last \in 0..MaxJobs
    /\ server \in {"down", "up", "closing"}
    /\ inst \in 0..MaxBoots
    /\ handlers \subseteq JobTypes
    /\ worker \in {"none", "claiming", "idle", "running", "dead"}
    /\ cur \in JobIds \cup {NoJob}
    /\ stopEv \in BOOLEAN
    /\ beat \in {"off", "live", "ended", "failed"}
    /\ age \in 0..(Beat + Late)
    /\ wake \in BOOLEAN
    /\ faults \in 0..MaxFaults

-----------------------------------------------------------------------------
(* Rows *)

Status(j) == job[j].status

\* Job(...) as create() inserts it, or as recover() copies it with the
\* attempts of the row it replaces.  updated_at starts at the insertion.
Backoff(n) ==
    LET doubled == BackoffBase * 2 ^ (IF n > 1 THEN n - 1 ELSE 0)
    IN  IF doubled < BackoffCap THEN doubled ELSE BackoffCap

NewRow(p, t, n) ==
    [status |-> "queued", project |-> p, type |-> t, attempts |-> n, cancel |-> FALSE,
     owner |-> 0, lease |-> 0, backoff |-> IF n > 0 THEN Backoff(n) ELSE 0]

\* A row that leaves the worker for status s gives its lease up.
Released(row, s) == [row EXCEPT !.status = s, !.owner = 0, !.lease = 0]

\* A fault: stop requests end a job at once, as if "stopping" were not active.
ActiveJobsButStopping(p) ==
    {j \in JobIds : job[j].project = p /\ Status(j) \in {"queued", "running"}}

ActiveJobs(p) == {j \in JobIds : job[j].project = p /\ Status(j) \in Active}

\* active_job(): the oldest active row of the project.
IsActiveJob(p, j) == j \in ActiveJobs(p) /\ \A i \in ActiveJobs(p) : j <= i

Init ==
    /\ job = [j \in JobIds |->
                 [NewRow(NoProject, CHOOSE t \in JobTypes : TRUE, 0) EXCEPT !.status = "unused"]]
    /\ last = 0
    /\ server = "down"
    /\ inst = 0
    /\ handlers = {}
    /\ worker = "none"
    /\ cur = NoJob
    /\ stopEv = FALSE
    /\ beat = "off"
    /\ age = 0
    /\ wake = FALSE
    /\ faults = 0

-----------------------------------------------------------------------------
(* API requests *)

\* A fault: the worker is not woken.
NotifyNobody == wake' = wake

\* self._wake.set()
Notify == wake' = TRUE

\* create(): refused while the project has an active row; otherwise the row is
\* committed, a missing or dead worker task is replaced and the worker woken.
Create(p, t) ==
    /\ server = "up"
    /\ ActiveJobs(p) = {}
    /\ t \in handlers
    /\ last < MaxJobs
    /\ last' = last + 1
    /\ job' = [job EXCEPT ![last + 1] = NewRow(p, t, 0)]
    /\ worker' = IF worker \in {"none", "dead"} THEN "claiming" ELSE worker
    /\ Notify
    /\ UNCHANGED <<server, inst, handlers, cur, stopEv, beat, age, faults>>

\* The row stop() leaves of an active row: a queued one is cancelled on the
\* spot, one that a worker holds is asked to stop.
StopRequested(row) ==
    [row EXCEPT !.status = IF row.status = "queued" THEN "cancelled" ELSE "stopping",
                !.cancel = TRUE]

\* A fault: the stop event is left to the heartbeat.
SignalledByHeartbeat(j) == stopEv

\* The stop event after the stop of job j: only a running job has one.
Signalled(j) == stopEv \/ (worker = "running" /\ j = cur)

Stop(p) ==
    /\ server = "up"
    /\ \E j \in JobIds :
          /\ IsActiveJob(p, j)
          /\ job' = [job EXCEPT ![j] = StopRequested(@)]
          /\ stopEv' = Signalled(j)
    /\ Notify
    /\ UNCHANGED <<last, server, inst, handlers, worker, cur, beat, age, faults>>

\* delete_project(): stop the active job, then delete the project row; the
\* foreign key sets project_id of all its job rows to NULL.
Orphaned(row, p) == IF row.project = p THEN [row EXCEPT !.project = NoProject] ELSE row

DeleteProject(p) ==
    /\ server = "up"
    /\ \E j \in JobIds : job[j].project = p
    /\ job' = [j \in JobIds |->
                  Orphaned(IF IsActiveJob(p, j) THEN StopRequested(job[j]) ELSE job[j], p)]
    /\ IF ActiveJobs(p) = {} THEN UNCHANGED <<stopEv, wake>>
       ELSE /\ \E j \in JobIds : IsActiveJob(p, j) /\ stopEv' = Signalled(j)
            /\ Notify
    /\ UNCHANGED <<last, server, inst, handlers, worker, cur, beat, age, faults>>

-----------------------------------------------------------------------------
(* The worker task *)

Queued  == {j \in JobIds : Status(j) = "queued"}
Scanned == {j \in Queued : Cardinality({i \in Queued : i < j}) < ScanLimit}
Due(j)  == job[j].attempts = 0 \/ job[j].backoff <= 0

\* _claim_next(): the oldest of the scanned rows whose backoff has passed.
Claimable(j) == j \in Scanned /\ Due(j) /\ \A i \in Scanned : Due(i) => j <= i

Claimed(row) == [row EXCEPT !.status = "running", !.attempts = @ + 1,
                            !.owner = inst, !.lease = Lease]

AtClaim == server = "up" /\ worker = "claiming"

\* Nothing to claim: _wake is cleared and the worker waits for it.
ClaimNothing ==
    /\ AtClaim
    /\ ~ \E j \in JobIds : Claimable(j)
    /\ worker' = "idle"
    /\ age' = 0
    /\ wake' = FALSE
    /\ UNCHANGED <<durable, server, inst, handlers, cur, stopEv, beat, faults>>

\* _run() has a project and a handler to run for.
Runnable(j) == job[j].project # NoProject /\ job[j].type \in handlers

\* A claimed row, and _run() up to the first await of the handler.
ClaimAndRun(j) ==
    /\ AtClaim
    /\ Claimable(j)
    /\ Runnable(j)
    /\ job' = [job EXCEPT ![j] = Claimed(@)]
    /\ worker' = "running"
    /\ cur' = j
    /\ stopEv' = FALSE
    /\ beat' = "live"
    /\ age' = 0
    /\ UNCHANGED <<last, server, inst, handlers, wake, faults>>

\* A fault: _run() returns when there is no handler for the type.
LeftRunning(row) == Claimed(row)

\* _run() returns at once when the project is gone, and leaves the row running;
\* with no handler for the type in this release it calls _finish_failed().
Rejected(row) ==
    IF row.project = NoProject THEN Claimed(row) ELSE Released(Claimed(row), "failed")

ClaimAndReject(j) ==
    /\ AtClaim
    /\ Claimable(j)
    /\ ~ Runnable(j)
    /\ job' = [job EXCEPT ![j] = Rejected(@)]
    /\ UNCHANGED <<last, server, inst, handlers, task, wake, faults>>

\* A fault: the idle wait has no timeout.
IdleUntilWoken == wake

\* The idle wait ends on _wake or after HEARTBEAT_SECONDS.
IdleWaitOver == wake \/ age >= Beat

WakeUp ==
    /\ server = "up"
    /\ worker = "idle"
    /\ IdleWaitOver
    /\ worker' = "claiming"
    /\ age' = 0
    /\ UNCHANGED <<durable, server, inst, handlers, cur, stopEv, beat, wake, faults>>

\* The finally block of _run(): the heartbeat is cancelled and awaited.  When
\* it has failed the await raises its error, which ends the worker task.
RunEnds(next) ==
    /\ worker' = IF beat = "failed" THEN "dead" ELSE next
    /\ cur' = NoJob
    /\ stopEv' = FALSE
    /\ beat' = "off"
    /\ age' = 0

Running(j) == worker = "running" /\ j = cur

\* The handler returned: succeeded, or stopped by the user or by the shutdown.
Outcome(row) ==
    IF ~ (stopEv \/ row.status = "stopping") THEN "succeeded"
    ELSE IF server = "closing" /\ ~ row.cancel THEN "interrupted" ELSE "cancelled"

HandlerReturns(j) ==
    /\ Running(j)
    /\ job' = [job EXCEPT ![j] = Released(@, Outcome(@))]
    /\ RunEnds("claiming")
    /\ UNCHANGED <<last, server, inst, handlers, wake, faults>>

\* The handler raised: _fail_or_requeue().
Requeued(row) == [Released(row, "queued") EXCEPT !.backoff = Backoff(row.attempts)]

\* A fault: one attempt too many.
RequeuePastLimit(row) ==
    IF row.cancel \/ row.attempts > MaxAttempts THEN Released(row, "failed") ELSE Requeued(row)

\* A fault: a stopped job is retried.
RequeueStopped(row) ==
    IF row.attempts >= MaxAttempts THEN Released(row, "failed") ELSE Requeued(row)

FailOrRequeue(row) ==
    IF row.cancel \/ row.attempts >= MaxAttempts THEN Released(row, "failed") ELSE Requeued(row)

HandlerRaises(j) ==
    /\ Running(j)
    /\ job' = [job EXCEPT ![j] = FailOrRequeue(@)]
    /\ RunEnds("claiming")
    /\ UNCHANGED <<last, server, inst, handlers, wake, faults>>

\* A fault: the heartbeat leaves lease_expires_at alone.
NotRenewed(row) == row

Renewed(row) == [row EXCEPT !.lease = Lease]

\* _heartbeat() after its sleep: take over a stop request found in the row and
\* renew the lease.  The task ends once the stop event is set.
Heartbeat ==
    /\ beat = "live"
    /\ age >= Beat
    /\ stopEv' = (stopEv \/ Status(cur) = "stopping" \/ job[cur].cancel)
    /\ job' = IF Status(cur) \in Owned THEN [job EXCEPT ![cur] = Renewed(@)] ELSE job
    /\ beat' = IF Status(cur) \in Owned /\ ~ stopEv' THEN "live" ELSE "ended"
    /\ age' = 0
    /\ UNCHANGED <<last, server, inst, handlers, worker, cur, wake, faults>>

-----------------------------------------------------------------------------
(* Database errors in the background tasks *)

Fault == faults < MaxFaults /\ faults' = faults + 1

\* _claim_next() raises: nothing catches it and the worker task ends.
ClaimFails ==
    /\ AtClaim
    /\ Fault
    /\ worker' = "dead"
    /\ UNCHANGED <<durable, server, inst, handlers, cur, stopEv, beat, age, wake>>

\* Neither the result nor the failure of the run can be recorded.
RecordFails ==
    /\ worker = "running"
    /\ Fault
    /\ RunEnds("dead")
    /\ UNCHANGED <<durable, server, inst, handlers, wake>>

HeartbeatFails ==
    /\ beat = "live"
    /\ age >= Beat
    /\ Fault
    /\ beat' = "failed"
    /\ age' = 0
    /\ UNCHANGED <<durable, server, inst, handlers, worker, cur, stopEv, wake>>

-----------------------------------------------------------------------------
(* Shutdown, crash and boot *)

\* shutdown() up to its wait.  A worker that ended before is not waited for.
ShutdownBegins ==
    /\ server = "up"
    /\ server' = "closing"
    /\ stopEv' = (worker = "running")
    /\ Notify
    /\ worker' = IF worker = "dead" THEN "none" ELSE worker
    /\ UNCHANGED <<durable, inst, handlers, cur, beat, age, faults>>

\* The worker loop sees _closing.
WorkerExits ==
    /\ server = "closing"
    /\ worker \in {"claiming", "idle"}
    /\ worker' = "none"
    /\ age' = 0
    /\ UNCHANGED <<durable, server, inst, handlers, cur, stopEv, beat, wake, faults>>

\* The grace period is over: the worker is cancelled inside the handler and
\* _run() records the interruption.
GraceExpires ==
    /\ server = "closing"
    /\ worker = "running"
    /\ job' = IF Status(cur) \in Owned
              THEN [job EXCEPT ![cur] = Released(@, "interrupted")] ELSE job
    /\ RunEnds("none")
    /\ UNCHANGED <<last, server, inst, handlers, wake, faults>>

ProcessEnds ==
    /\ server' = "down"
    /\ worker' = "none"
    /\ cur' = NoJob
    /\ stopEv' = FALSE
    /\ beat' = "off"
    /\ age' = 0
    /\ wake' = FALSE

\* The rest of shutdown(): rows this process still owns are interrupted.
ShutdownEnds ==
    /\ server = "closing"
    /\ worker = "none"
    /\ job' = [j \in JobIds |-> IF Status(j) \in Owned /\ job[j].owner = inst
                                THEN Released(job[j], "interrupted") ELSE job[j]]
    /\ ProcessEnds
    /\ UNCHANGED <<last, inst, handlers, faults>>

\* The worker ended with an error while shutdown() waited for it: the error is
\* raised out of shutdown() and the sweep is skipped.
ShutdownFails ==
    /\ server = "closing"
    /\ worker = "dead"
    /\ ProcessEnds
    /\ UNCHANGED <<durable, inst, handlers, faults>>

Crash ==
    /\ server # "down"
    /\ ProcessEnds
    /\ UNCHANGED <<durable, inst, handlers, faults>>

\* startup(): recover() interrupts the rows whose lease has run out and queues
\* a copy of those it can run again, in one transaction.
\* A fault: the lease test is not confined to the owned rows.
StaleOfAnyStatus == {j \in JobIds : Status(j) # "unused" /\ job[j].lease = 0}

Stale == {j \in JobIds : Status(j) \in Owned /\ job[j].lease = 0}

Retryable(supported) == {j \in Stale : job[j].type \in supported /\ job[j].project # NoProject}

\* Ids for the copies of the rows in S: the next ones, in any order.
FreshIds(S) == {id \in [S -> (last + 1)..(last + Cardinality(S))] :
                   \A i, j \in S : id[i] = id[j] => i = j}

Recovered(id, S) ==
    [j \in JobIds |->
        IF j \in Stale THEN Released(job[j], "interrupted")
        ELSE IF \E i \in S : id[i] = j
             THEN LET old == job[CHOOSE i \in S : id[i] = j]
                  IN  NewRow(old.project, old.type, old.attempts)
             ELSE job[j]]

Boot(supported) ==
    /\ server = "down"
    /\ inst < MaxBoots
    /\ LET S == Retryable(supported) IN
          /\ last + Cardinality(S) <= MaxJobs
          /\ \E id \in FreshIds(S) : job' = Recovered(id, S)
          /\ last' = last + Cardinality(S)
    /\ server' = "up"
    /\ inst' = inst + 1
    /\ handlers' = supported
    /\ worker' = "claiming"
    /\ Notify
    /\ UNCHANGED <<cur, stopEv, beat, age, faults>>

-----------------------------------------------------------------------------
(* Time *)

OneTickLess(n) == IF n > 0 THEN n - 1 ELSE n

Asleep == beat = "live" \/ worker = "idle"

\* A sleeping task is never resumed more than Late ticks after its timeout.
Tick ==
    /\ Asleep => age < Beat + Late
    /\ job' = [j \in JobIds |-> [job[j] EXCEPT !.lease = OneTickLess(@),
                                               !.backoff = OneTickLess(@)]]
    /\ age' = IF Asleep THEN age + 1 ELSE age
    /\ UNCHANGED <<last, server, inst, handlers, worker, cur, stopEv, beat, wake, faults>>

-----------------------------------------------------------------------------
Request == \E p \in Projects :
              Stop(p) \/ DeleteProject(p) \/ \E t \in JobTypes : Create(p, t)

Claims == \/ ClaimNothing
          \/ \E j \in JobIds : ClaimAndRun(j) \/ ClaimAndReject(j)

HandlerEnds == \E j \in JobIds : HandlerReturns(j) \/ HandlerRaises(j)

Shutdown == ShutdownBegins \/ WorkerExits \/ GraceExpires \/ ShutdownEnds \/ ShutdownFails

Faults == ClaimFails \/ RecordFails \/ HeartbeatFails

Next ==
    \/ Request
    \/ Claims
    \/ WakeUp
    \/ HandlerEnds
    \/ Heartbeat
    \/ Shutdown
    \/ Faults
    \/ Crash
    \/ \E supported \in Versions : Boot(supported)
    \/ Tick

Spec == Init /\ [][Next]_vars

\* The background tasks run, and a handler is not left alone for ever.
TasksRun == /\ WF_vars(Claims)
            /\ WF_vars(WakeUp)
            /\ WF_vars(Heartbeat)
            /\ WF_vars(Tick)

FairSpec == Spec /\ TasksRun /\ WF_vars(HandlerEnds)

\* The handler is only trusted to look at its stop event: one that nobody
\* stops may run for ever.
HandlerHeedsStop == stopEv /\ HandlerEnds

StopSpec == Spec /\ TasksRun /\ WF_vars(HandlerHeedsStop)

-----------------------------------------------------------------------------
(* Properties *)

\* At most one active row per project: no write of the manager ever meets the
\* partial unique index, so create(), recover() and _fail_or_requeue() never
\* see its IntegrityError, which in the last of them would end the worker.
OneActiveJob ==
    \A i, j \in JobIds :
        /\ Status(i) \in Active /\ Status(j) \in Active
        /\ job[i].project = job[j].project /\ job[i].project # NoProject
        => i = j

\* While the heartbeat of a run is alive the lease of its row has time left,
\* whatever stop requests, late wake-ups and deletions fall in between.
RunIsLeased == beat = "live" => job[cur].lease > 0

\* No wake-up is lost: when the worker sleeps and nobody has woken it, every
\* row its next claim would look at is a retry waiting for its backoff.
PromptService ==
    worker = "idle" /\ ~ wake /\ server = "up" => \A j \in Scanned : job[j].attempts > 0

\* Boots that may have recovered something.
Restarts == IF inst > 1 THEN inst - 1 ELSE 0

\* A row is attempted no more often than max_attempts, plus one attempt for
\* every restart its copies came through (recover() copies the count).
AttemptsWithinLimit == \A j \in JobIds : job[j].attempts <= MaxAttempts + Restarts

\* A row somebody asked to stop never runs, waits or succeeds again, on any
\* path: result, failure, retry, shutdown, crash and recovery.
CancelledStaysStopped ==
    \A j \in JobIds :
        job[j].cancel => Status(j) \in {"stopping", "cancelled", "failed", "interrupted"}

\* A row that this process owns is being run by its worker, unless the database
\* failed: nothing else leaves a row behind, not even a deleted project, since
\* no row is claimed that _run() would return from.
NoStrandedRun ==
    \A j \in JobIds :
        /\ server # "down" /\ Status(j) \in Owned /\ job[j].owner = inst
        => Running(j) \/ faults > 0

\* No step changes the outcome of a finished row: not the end of a run, not a
\* sweep at shutdown, not a recovery after a crash.
OutcomeIsFinal ==
    [][\A j \in JobIds : Status(j) \in Terminal => job'[j].status = Status(j)]_vars

\* A queued row is claimed (or cancelled) unless the server goes down or loses
\* its worker to a database error: backoffs pass, idle waits end.  A handler
\* that never returns would keep the only worker for itself.
QueuedIsServed ==
    []<>(worker # "running") =>
        \A j \in JobIds :
            Status(j) = "queued" /\ server = "up"
                ~> Status(j) # "queued" \/ server # "up" \/ faults > 0

\* A run that is asked to stop ends, even when its heartbeat has failed.
StopEndsRun == \A j \in JobIds : Running(j) /\ Status(j) = "stopping" ~> ~ Running(j)

-----------------------------------------------------------------------------
(* What the queue promises: ProjectWork *)

\* What active_job() shows of a project; a row that waits, runs or stops.
WorkOn(p) ==
    IF ActiveJobs(p) = {} THEN "idle" ELSE Status(CHOOSE j \in JobIds : IsActiveJob(p, j))

Work == INSTANCE ProjectWork WITH work <- [p \in Projects |-> WorkOn(p)], starts <- inst

\* The rows, leases, retries and recoveries of manager.py amount to one piece of
\* work per project that is submitted, begins, is retried, asked to stop and
\* ended; what was asked to stop runs again only after a restart of the server.
ImplementsProjectWork == Work!WorkSpec

-----------------------------------------------------------------------------
(* The inductive invariant behind them *)

\* Rows are inserted in id order.
UnusedBeyondLast == \A j \in JobIds : j > last => Status(j) = "unused"

\* The worker and the heartbeat belong to a row the process still owns, and
\* only a process that is there has a worker.
TaskShape ==
    /\ worker = "running" => cur \in JobIds /\ Status(cur) \in Owned
    /\ worker # "running" => cur = NoJob /\ beat = "off"
    /\ server = "down" => worker = "none"

\* A live heartbeat and its lease run on the same clock.
LeaseClock == beat = "live" => job[cur].lease + age = Lease

\* Owners are processes that have been started.
OwnersBooted == \A j \in JobIds : job[j].owner <= inst

\* An active row without a project was asked to stop when it lost it.
OrphansAreStopped ==
    \A j \in JobIds :
        Status(j) \in Active /\ job[j].project = NoProject => job[j].cancel

\* A row is stopping because somebody asked for it.
StoppingWasAsked == \A j \in JobIds : Status(j) = "stopping" => job[j].cancel

\* The first boot finds an empty table.
NothingBeforeBoot == inst = 0 => last = 0 /\ server = "down"

\* A queued row has an attempt left, counting one more for every restart.
QueuedHasAttempt ==
    \A j \in JobIds : Status(j) = "queued" => job[j].attempts < MaxAttempts + Restarts

Inductive ==
    /\ TypeOK
    /\ UnusedBeyondLast
    /\ TaskShape
    /\ LeaseClock
    /\ OwnersBooted
    /\ OrphansAreStopped
    /\ StoppingWasAsked
    /\ NothingBeforeBoot
    /\ QueuedHasAttempt
    /\ OneActiveJob
    /\ AttemptsWithinLimit
    /\ CancelledStaysStopped
    /\ NoStrandedRun

-----------------------------------------------------------------------------
(* What the repository says of the program, where the code does otherwise *)

\* manager.py, start(): "so jobs survive restarts".  A row left running by a
\* server that crashed does not stay running under the next one.
JobsSurviveRestart ==
    \A j \in JobIds :
        /\ server = "up" /\ Status(j) = "running" /\ job[j].owner # inst
        ~> server # "up" \/ Status(j) # "running"

=============================================================================
