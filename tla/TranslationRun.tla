--------------------------- MODULE TranslationRun ---------------------------
(***************************************************************************)
(* One project's translation: the ledger of its segments, the translation  *)
(* memory, and the run that fills the ledger in                            *)
(* (backend/app/engine/translator.py, api/adapters.py), against the        *)
(* requests that edit segments, start, stop and redo runs                  *)
(* (api/segments.py, api/projects.py), and shutdown, crash and restart.    *)
(*                                                                         *)
(* A run is one coroutine that feeds segment ids through a bounded queue   *)
(* to a few worker tasks, then one sentinel per worker, and joins the      *)
(* queue.  Everything shares one event loop: a task gives way only where   *)
(* it waits for the queue, for the lock of a source hash, or for the model.*)
(* The code between two such points is one step.                           *)
(*                                                                         *)
(* The durable job behind the run is its active row in JobManager, of      *)
(* which there is at most one per project.  A text is told apart by who    *)
(* wrote it.  Locks are granted to any waiter here (first come first       *)
(* served in asyncio).                                                     *)
(***************************************************************************)
EXTENDS Integers, Sequences, FiniteSets

CONSTANTS
    MaxSegs,        \* segments of the project, numbered in reading order
    Hashes,         \* normalised source texts (src_hash)
    Hash,           \* the src_hash of every segment
    Concurrency,    \* max_concurrency: worker tasks of a run
    Scopes,         \* selections of segments that requests name
    Edited,         \* bound: segments that are edited singly
    MaxRequests,    \* bound: user requests
    MaxWithFailures,\* bound: requests, restarts and database errors of a behaviour with failures
    MaxBoots,       \* bound: times the server is started
    MaxFaults       \* bound: database errors met by worker tasks

Segs == 1..MaxSegs

ASSUME SegAssumption == MaxSegs \in Nat /\ Hash \in [Segs -> Hashes]
ASSUME ConcurrencyAssumption == Concurrency \in Nat /\ Concurrency >= 1
ASSUME ScopeAssumption == Scopes \subseteq SUBSET Segs /\ Edited \subseteq Segs
ASSUME LimitAssumption ==
    /\ MaxRequests \in Nat /\ MaxWithFailures \in Nat
    /\ MaxBoots \in Nat /\ MaxFaults \in Nat

NoSeg    == 0
Sentinel == 0
Workers  == 1..Concurrency
Capacity == 2 * Concurrency

Finished == {"done", "reviewed"}
Statuses == {"pending", "processing", "error"} \cup Finished
Texts    == {"none", "machine", "user"}

VARIABLES
    status,     \* status of every segment
    text,       \* who wrote its target_text
    tm,         \* who wrote the translation memory entry of every hash
    project,    \* the status column of the project
    job,        \* the active job: phase, mode and scope (its payload)
    server,     \* the process: "down", "up" or "closing"
    main,       \* where the translate_project coroutine is
    todo,       \* candidates it has not queued yet
    pills,      \* sentinels it has not queued yet
    queue,
    pc,         \* where every worker task is
    held,       \* the segment it works on
    stopEv,     \* the stop event of the run
    requests, boots, faults

ledger == <<status, text, tm>>
run    == <<main, todo, pills, queue, pc, held, stopEv>>
counts == <<requests, boots, faults>>
vars   == <<status, text, tm, project, job, server, main, todo, pills, queue, pc, held,
            stopEv, requests, boots, faults>>

Modes == {"fresh", "retry", "force"}

NoJob == [phase |-> "none", mode |-> "fresh", scope |-> {}]

TypeOK ==
    /\ status \in [Segs -> Statuses]
    /\ text \in [Segs -> Texts]
    /\ tm \in [Hashes -> Texts]
    /\ project \in {"ready", "translating", "done", "error"}
    /\ job \in [phase : {"none", "queued", "running", "stopping"},
                mode : Modes, scope : SUBSET Segs]
    /\ server \in {"down", "up", "closing"}
    /\ main \in {"off", "feeding", "putting", "sealing", "joining", "unwinding"}
    /\ todo \subseteq Segs
    /\ pills \in 0..Concurrency
    /\ queue \in Seq(Segs \cup {Sentinel}) /\ Len(queue) <= Capacity
    /\ pc \in [Workers -> {"off", "get", "lock", "call", "dead"}]
    /\ held \in [Workers -> Segs \cup {NoSeg}]
    /\ stopEv \in BOOLEAN
    /\ requests \in 0..MaxRequests
    /\ boots \in 0..MaxBoots
    /\ faults \in 0..MaxFaults

NoTasks == /\ main' = "off" /\ todo' = {} /\ pills' = 0 /\ queue' = <<>> /\ stopEv' = FALSE
           /\ pc' = [w \in Workers |-> "off"] /\ held' = [w \in Workers |-> NoSeg]

\* A project as its import leaves it, before the first boot.
Init ==
    /\ status = [s \in Segs |-> "pending"]
    /\ text = [s \in Segs |-> "none"]
    /\ tm = [h \in Hashes |-> "none"]
    /\ project = "ready"
    /\ job = NoJob
    /\ server = "down"
    /\ main = "off" /\ todo = {} /\ pills = 0 /\ queue = <<>> /\ stopEv = FALSE
    /\ pc = [w \in Workers |-> "off"] /\ held = [w \in Workers |-> NoSeg]
    /\ requests = 0 /\ boots = 0 /\ faults = 0

\* The rows a WHERE status = 'processing' sweep sets back to pending.
Swept == [s \in Segs |-> IF status[s] = "processing" THEN "pending" ELSE status[s]]

\* A fault: the status of the project is left to the run.
StillTranslating(p) == p

\* A stop request, and the boot, leave no project translating.
NotTranslating(p) == IF p = "translating" THEN "ready" ELSE p

-----------------------------------------------------------------------------
(* User requests *)

\* Restarts count as failures, whatever ended the process.
Failures   == faults + IF boots > 1 THEN boots - 1 ELSE 0
RoomForOne == requests + Failures < MaxWithFailures

Request ==
    /\ server = "up"
    /\ requests < MaxRequests
    /\ Failures > 0 => RoomForOne
    /\ requests' = requests + 1

Idle == job.phase = "none"

Enqueued(mode, S) == [phase |-> "queued", mode |-> mode, scope |-> S]

\* update_segment() with a text: refused while a worker has the segment.  The
\* status is done unless the request names one; a finished text is remembered.
Edit(s, st) ==
    /\ Request
    /\ status[s] # "processing"
    /\ st # "processing"
    /\ status' = [status EXCEPT ![s] = st]
    /\ text' = [text EXCEPT ![s] = "user"]
    /\ tm' = IF st \in Finished THEN [tm EXCEPT ![Hash[s]] = "user"] ELSE tm
    /\ UNCHANGED <<project, job, server, run, boots, faults>>

\* update_segment() with an empty text: it cannot be finished.
Erase(s, st) ==
    /\ Request
    /\ status[s] # "processing"
    /\ st \in {"pending", "error"}
    /\ status' = [status EXCEPT ![s] = st]
    /\ text' = [text EXCEPT ![s] = "none"]
    /\ UNCHANGED <<tm, project, job, server, run, boots, faults>>

\* A fault: only an explicit text is checked for emptiness.
MarkableUnchecked(s, st) == status[s] # "processing" /\ st # "processing"

\* update_segment() with a status only.
Markable(s, st) ==
    /\ status[s] # "processing"
    /\ st # "processing"
    /\ st \in Finished => text[s] # "none"

Mark(s, st) ==
    /\ Request
    /\ Markable(s, st)
    /\ status' = [status EXCEPT ![s] = st]
    /\ UNCHANGED <<text, tm, project, job, server, run, boots, faults>>

\* bulk_segment_action("mark_reviewed"): allowed during a run.
Review(S) ==
    /\ Request
    /\ status' = [s \in Segs |-> IF s \in S /\ status[s] \in Finished /\ text[s] # "none"
                                 THEN "reviewed" ELSE status[s]]
    /\ UNCHANGED <<text, tm, project, job, server, run, boots, faults>>

\* What retranslate_segment() and a bulk reset leave of the segments S.
Reset(S) ==
    /\ status' = [s \in Segs |-> IF s \in S THEN "pending" ELSE status[s]]
    /\ text' = [s \in Segs |-> IF s \in S THEN "none" ELSE text[s]]

\* bulk_segment_action("set_pending"): refused while the project has a job.
SetPending(S) ==
    /\ Request
    /\ Idle
    /\ Reset(S)
    /\ UNCHANGED <<tm, project, job, server, run, boots, faults>>

\* retranslate_segment(), and bulk_segment_action("retranslate"): the reset and
\* a job that ignores the translation memory.
Retranslate(S) ==
    /\ Request
    /\ Idle
    /\ S # {}
    /\ Reset(S)
    /\ job' = Enqueued("force", S)
    /\ UNCHANGED <<tm, project, server, run, boots, faults>>

Eligible(mode) == IF mode = "fresh" THEN {"pending"} ELSE {"pending", "error"}

\* start_translation(): of the whole project, or of a selection that is
\* resolved to its eligible segments now.
Start(mode, S) ==
    /\ Request
    /\ Idle
    /\ LET eligible == {s \in S : status[s] \in Eligible(mode)} IN
          /\ eligible # {}
          /\ job' = Enqueued(mode, IF S = Segs THEN Segs ELSE eligible)
    /\ UNCHANGED <<ledger, project, server, run, boots, faults>>

\* stop_translation(): the job is stopped, and the segments in the hands of
\* the workers are given back at once, while their calls are still in flight.
Stop ==
    /\ Request
    /\ job' = IF job.phase \in {"none", "queued"} THEN NoJob
              ELSE [job EXCEPT !.phase = "stopping"]
    /\ stopEv' = (main # "off")
    /\ status' = Swept
    /\ project' = NotTranslating(project)
    /\ UNCHANGED <<text, tm, server, main, todo, pills, queue, pc, held, boots, faults>>

-----------------------------------------------------------------------------
(* The coroutine of the run *)

Claimable ==
    CASE job.mode = "fresh" -> {"pending"}
      [] job.mode = "retry" -> {"pending", "error"}
      [] job.mode = "force" -> {"pending", "error"} \cup Finished

\* run_project_translation() and translate_project() up to the first wait.
Candidates == {s \in job.scope : Swept[s] \in Claimable}

\* A fault: max_concurrency is not applied.
TeamUncapped == IF Candidates = {} THEN 1 ELSE Cardinality(Candidates)

\* How many worker tasks are created.
Team == LET n == Cardinality(Candidates)
        IN  IF n = 0 THEN 1 ELSE IF n < Concurrency THEN n ELSE Concurrency

RunStarts ==
    /\ server = "up"
    /\ main = "off"
    /\ job.phase = "queued"
    /\ job' = [job EXCEPT !.phase = "running"]
    /\ status' = Swept
    /\ project' = "translating"
    /\ main' = "feeding"
    /\ todo' = Candidates
    /\ pills' = Team
    /\ pc' = [w \in Workers |-> IF w <= Team THEN "get" ELSE "off"]
    /\ UNCHANGED <<text, tm, server, queue, held, stopEv, counts>>

\* translate_project() raises before it has workers (no usable model profile,
\* for one): the job manager queues the job again or gives it up.
RunRefused ==
    /\ server = "up"
    /\ main = "off"
    /\ job.phase = "queued"
    /\ job' \in {job, NoJob}
    /\ status' = Swept
    /\ project' = "error"
    /\ UNCHANGED <<text, tm, server, run, counts>>

First(s) == s \in todo /\ \A t \in todo : s <= t

Room == Len(queue) < Capacity

Put(s) == todo' = todo \ {s} /\ queue' = Append(queue, s)

\* One turn of the feeding loop.  The turns are steps of their own because the
\* coroutine may wait for the summary of the next segment's chapter.
Feed ==
    /\ main = "feeding"
    /\ ~ stopEv
    /\ \E s \in todo :
          /\ First(s)
          /\ IF Room THEN Put(s) /\ UNCHANGED main
                     ELSE main' = "putting" /\ UNCHANGED <<todo, queue>>
    /\ UNCHANGED <<ledger, project, job, server, pills, pc, held, stopEv, counts>>

\* The put that waited for room: it does not look at the stop event again.
PutResumes ==
    /\ main = "putting"
    /\ Room
    /\ \E s \in todo : First(s) /\ Put(s)
    /\ main' = "feeding"
    /\ UNCHANGED <<ledger, project, job, server, pills, pc, held, stopEv, counts>>

FeedEnds ==
    /\ main = "feeding"
    /\ stopEv \/ todo = {}
    /\ main' = "sealing"
    /\ UNCHANGED <<ledger, project, job, server, todo, pills, queue, pc, held, stopEv, counts>>

\* A fault: a stopped run leaves its workers without sentinels.
SealedUnlessStopped == IF stopEv THEN 0 ELSE pills

\* How many sentinels the queue is to be given: one for every worker.
Sealed == pills

\* As many sentinels as there is room for.
Seal ==
    /\ main = "sealing"
    /\ Room
    /\ LET free == Capacity - Len(queue)
           n    == IF Sealed < free THEN Sealed ELSE free
       IN  /\ queue' = queue \o [i \in 1..n |-> Sentinel]
           /\ pills' = Sealed - n
           /\ main' = IF n = Sealed THEN "joining" ELSE "sealing"
    /\ UNCHANGED <<ledger, project, job, server, todo, pc, held, stopEv, counts>>

\* queue.join(): every item taken and done with.
Joined == queue = <<>> /\ \A w \in Workers : pc[w] \notin {"lock", "call"}

\* The run returns, and with it the handler of the job.  The adapter has the
\* last word on the project.
RunReturns ==
    /\ main = "joining"
    /\ Joined
    /\ \A w \in Workers : pc[w] = "off"
    /\ project' = IF ~ stopEv /\ \A s \in Segs : status[s] \in Finished THEN "done" ELSE "ready"
    /\ job' = NoJob
    /\ NoTasks
    /\ UNCHANGED <<ledger, server, counts>>

-----------------------------------------------------------------------------
(* The worker tasks *)

\* set_pending()
GivenBack(st) == IF st = "processing" THEN "pending" ELSE st

\* Worker w takes item i off the queue.
Takes(w, i) ==
    /\ pc[w] = "get"
    /\ queue # <<>>
    /\ i = Head(queue)
    /\ queue' = Tail(queue)

Move(w, to, s) == pc' = [pc EXCEPT ![w] = to] /\ held' = [held EXCEPT ![w] = s]

\* Back to the queue: task_done(), and the lock is released.
Rests(w) == Move(w, "get", NoSeg)

\* A fault: every segment has a lock of its own.
LockedBySegment(s) == \E w \in Workers : pc[w] = "call" /\ held[w] = s

\* The lock of the hash of s is held by the worker that has it translated.
Locked(s) == \E w \in Workers : pc[w] = "call" /\ Hash[held[w]] = Hash[s]

\* A fault: the stop event is not looked at again under the lock.
StopForgotten == FALSE

StopSeen == stopEv

\* A fault: the memory is not consulted after waiting for the lock.
HitUnlessWaited(w, s) == job.mode # "force" /\ tm[Hash[s]] # "none" /\ pc[w] # "lock"

Hit(w, s) == job.mode # "force" /\ tm[Hash[s]] # "none"

\* Worker w under the lock of segment s, up to the request to the model; st
\* are the statuses it finds.
UnderLock(w, s, st) ==
    /\ ~ Locked(s)
    /\ \/ /\ StopSeen
          /\ status' = [st EXCEPT ![s] = GivenBack(@)]
          /\ UNCHANGED text
          /\ Rests(w)
       \/ /\ ~ StopSeen
          /\ Hit(w, s)
          /\ status' = IF st[s] = "processing" THEN [st EXCEPT ![s] = "done"] ELSE st
          /\ text' = IF st[s] = "processing" THEN [text EXCEPT ![s] = tm[Hash[s]]] ELSE text
          /\ Rests(w)
       \/ /\ ~ StopSeen
          /\ ~ Hit(w, s)
          /\ status' = st
          /\ UNCHANGED text
          /\ Move(w, "call", s)

TakePill(w) ==
    /\ Takes(w, Sentinel)
    /\ Move(w, "off", NoSeg)
    /\ UNCHANGED <<ledger, project, job, server, main, todo, pills, stopEv, counts>>

\* load_claim() finds the segment in a state it may take it from.
Claims(s) == status[s] \in Claimable

Skip(w) ==
    /\ \E s \in Segs : Takes(w, s) /\ (stopEv \/ ~ Claims(s))
    /\ UNCHANGED <<pc, held, ledger, project, job, server, main, todo, pills, stopEv, counts>>

\* load_claim(), and on to the wait for the lock or for the model.
Claim(w) ==
    /\ \E s \in Segs :
          /\ Takes(w, s)
          /\ ~ stopEv
          /\ Claims(s)
          /\ LET claimed == [status EXCEPT ![s] = "processing"] IN
                \/ UnderLock(w, s, claimed)
                \/ /\ Locked(s)
                   /\ status' = claimed
                   /\ UNCHANGED text
                   /\ Move(w, "lock", s)
    /\ UNCHANGED <<tm, project, job, server, main, todo, pills, stopEv, counts>>

GetLock(w) ==
    /\ pc[w] = "lock"
    /\ UnderLock(w, held[w], status)
    /\ UNCHANGED <<tm, project, job, server, main, todo, pills, queue, stopEv, counts>>

\* A fault: the result is written whatever became of the segment.
AlwaysWritten(s) == TRUE

\* The WHERE clause of every write of a result.
StillProcessing(s) == status[s] = "processing"

\* The model answers and the text can be restored: the result is written, and
\* remembered, if the segment is still the worker's.
Answer(w) ==
    /\ pc[w] = "call"
    /\ LET s == held[w] IN
          IF StillProcessing(s)
          THEN /\ status' = [status EXCEPT ![s] = "done"]
               /\ text' = [text EXCEPT ![s] = "machine"]
               /\ tm' = [tm EXCEPT ![Hash[s]] = "machine"]
          ELSE UNCHANGED ledger
    /\ Rests(w)
    /\ UNCHANGED <<project, job, server, main, todo, pills, queue, stopEv, counts>>

\* The retries are used up, the answer is empty or cannot be restored.
CallFails(w) ==
    /\ pc[w] = "call"
    /\ LET s == held[w] IN
          status' = IF StillProcessing(s) THEN [status EXCEPT ![s] = "error"] ELSE status
    /\ Rests(w)
    /\ UNCHANGED <<text, tm, project, job, server, main, todo, pills, queue, stopEv, counts>>

Fault ==
    /\ faults < MaxFaults /\ RoomForOne
    /\ faults' = faults + 1

\* A database error that nothing in worker() catches ends the task: in
\* load_claim(), in the lookup, or when neither result nor error can be
\* written.  The other workers and the coroutine are not told.
WorkerDies(w) ==
    /\ Fault
    /\ \/ /\ \E s \in Segs :
                /\ Takes(w, s)
                /\ ~ stopEv
                /\ Claims(s)
                /\ \/ UNCHANGED status
                   \/ ~ Locked(s) /\ status' = [status EXCEPT ![s] = "processing"]
       \/ /\ pc[w] = "lock" /\ ~ Locked(held[w])
          /\ UNCHANGED <<queue, status>>
       \/ /\ pc[w] = "call"
          /\ UNCHANGED <<queue, status>>
    /\ Move(w, "dead", NoSeg)
    /\ UNCHANGED <<text, tm, project, job, server, main, todo, pills, stopEv, requests, boots>>

\* The result is written but not remembered.
StoreFails(w) ==
    /\ Fault
    /\ pc[w] = "call"
    /\ StillProcessing(held[w])
    /\ status' = [status EXCEPT ![held[w]] = "done"]
    /\ text' = [text EXCEPT ![held[w]] = "machine"]
    /\ Rests(w)
    /\ UNCHANGED <<tm, project, job, server, main, todo, pills, queue, stopEv, requests, boots>>

-----------------------------------------------------------------------------
(* Shutdown, crash and boot *)

ShutdownBegins ==
    /\ server = "up"
    /\ server' = "closing"
    /\ stopEv' = (main # "off")
    /\ UNCHANGED <<ledger, project, job, main, todo, pills, queue, pc, held, counts>>

\* The grace period is over and the run is cancelled.  Its workers are
\* cancelled where they wait; one that waits for the model gives back.
Cancel ==
    /\ server = "closing"
    /\ main \in {"feeding", "putting", "sealing", "joining"}
    /\ main' = "unwinding"
    /\ status' = [s \in Segs |->
                     IF \E w \in Workers : pc[w] = "call" /\ held[w] = s
                     THEN GivenBack(status[s]) ELSE status[s]]
    /\ pc' = [w \in Workers |-> "off"]
    /\ held' = [w \in Workers |-> NoSeg]
    /\ UNCHANGED <<text, tm, project, job, server, todo, pills, queue, stopEv, counts>>

\* A fault: the workers are trusted to have given everything back.
NotSwept == status

AfterCancel == Swept

\* The coroutine sweeps up after them, the adapter resets the project and the
\* manager closes the job as interrupted.
Unwind ==
    /\ main = "unwinding"
    /\ status' = AfterCancel
    /\ project' = "ready"
    /\ job' = NoJob
    /\ NoTasks
    /\ UNCHANGED <<text, tm, server, counts>>

ShutdownEnds ==
    /\ server = "closing"
    /\ main = "off"
    /\ server' = "down"
    /\ UNCHANGED <<ledger, project, job, run, counts>>

Crash ==
    /\ server # "down"
    /\ server' = "down"
    /\ NoTasks
    /\ UNCHANGED <<ledger, project, job, counts>>

\* _recover_interrupted_work(), then recover() of the job manager, which
\* queues a copy of the job unless its lease has not run out yet.
Boot ==
    /\ server = "down"
    /\ boots < MaxBoots
    /\ boots > 0 => RoomForOne
    /\ boots' = boots + 1
    /\ server' = "up"
    /\ status' = Swept
    /\ project' = NotTranslating(project)
    /\ job' \in {job} \cup (IF Idle THEN {} ELSE {[job EXCEPT !.phase = "queued"]})
    /\ UNCHANGED <<text, tm, run, requests, faults>>

-----------------------------------------------------------------------------
Requests ==
    \/ \E s \in Edited, st \in Statuses : Edit(s, st) \/ Erase(s, st) \/ Mark(s, st)
    \/ \E S \in Scopes : \/ Review(S) \/ SetPending(S) \/ Retranslate(S)
                         \/ \E mode \in {"fresh", "retry"} : Start(mode, S)
    \/ Stop

Coroutine == Feed \/ PutResumes \/ FeedEnds \/ Seal \/ RunReturns \/ Unwind

Works(w) == TakePill(w) \/ Skip(w) \/ Claim(w) \/ GetLock(w) \/ Answer(w) \/ CallFails(w)

Next ==
    \/ Requests
    \/ RunStarts
    \/ RunRefused
    \/ Coroutine
    \/ \E w \in Workers : Works(w) \/ WorkerDies(w) \/ StoreFails(w)
    \/ ShutdownBegins
    \/ Cancel
    \/ ShutdownEnds
    \/ Crash
    \/ Boot

Spec == Init /\ [][Next]_vars

\* The event loop resumes every task, and a call to the model ends: each
\* attempt has a timeout and there are finitely many.
FairSpec == Spec /\ WF_vars(Coroutine) /\ \A w \in Workers : WF_vars(Works(w))

-----------------------------------------------------------------------------
(* Properties *)

\* Segments with the same source text are never translated at the same time.
OneCallPerHash ==
    \A v, w \in Workers :
        pc[v] = "call" /\ pc[w] = "call" /\ Hash[held[v]] = Hash[held[w]] => v = w

\* The export finds a text in every finished segment, whichever way it was
\* finished: by a worker, by the memory, by an edit or by a mark.
FinishedHasText == \A s \in Segs : status[s] \in Finished => text[s] # "none"

\* The project is shown as translating exactly while a run is on that the
\* user has not stopped.
TranslatingWhileRunning ==
    server # "down" =>
        (project = "translating" <=> main # "off" /\ job.phase = "running")

\* The finished segments of a forced run may be claimed.
Forced == IF job.mode = "force" THEN job.scope ELSE {}

\* After the stop no call to the model is begun, by no worker that waits for a
\* lock, for the queue, or is about to be fed.
NoCallAfterStop ==
    [][\A w \in Workers : stopEv /\ pc[w] # "call" => pc'[w] # "call"]_vars

\* A run ends: nobody waits for ever for the queue, a lock or the join, unless
\* a worker died.
RunEnds == main # "off" ~> main = "off" \/ \E w \in Workers : pc[w] = "dead"

-----------------------------------------------------------------------------
(* What the safety properties rest on *)

\* A coroutine that is not there has no workers and no queue, one that unwinds
\* has no workers, and one that is there runs the active job.
RunShape ==
    /\ server = "down" => main = "off"
    /\ main = "off" => queue = <<>> /\ todo = {}
    /\ main \in {"off", "unwinding"} => \A w \in Workers : pc[w] = "off"
    /\ main # "off" => job.phase \in {"running", "stopping"}

\* A worker has a segment exactly while it waits for a lock or for the model.
HolderShape == \A w \in Workers : pc[w] \in {"lock", "call"} <=> held[w] # NoSeg

\* Segments come from the selection of the job.
QueueInScope == \A i \in DOMAIN queue : queue[i] \in job.scope \cup {Sentinel}

\* Every segment of a run is in one place: to be fed, in the queue, or in the
\* hands of one worker.
InOnePlace ==
    /\ \A i, j \in DOMAIN queue : queue[i] = queue[j] /\ queue[i] # Sentinel => i = j
    /\ \A i \in DOMAIN queue : queue[i] \notin todo
    /\ \A w \in Workers : held[w] \notin todo
    /\ \A w \in Workers, i \in DOMAIN queue : held[w] # NoSeg => queue[i] # held[w]
    /\ \A v, w \in Workers : held[v] = held[w] /\ held[v] # NoSeg => v = w

\* The part of the inductive invariant that is about one run.
RunInductive ==
    /\ TypeOK
    /\ RunShape
    /\ HolderShape
    /\ todo \subseteq job.scope
    /\ QueueInScope
    /\ InOnePlace
    /\ OneCallPerHash
    /\ FinishedHasText
    /\ TranslatingWhileRunning

-----------------------------------------------------------------------------
(* What the repository says of the program, where the code does otherwise *)

\* plan.md, of the stop request: it stops the run cooperatively.  A run that
\* the user stopped ends, unless the server goes down.
StopEndsRun ==
    job.phase = "stopping" /\ main # "off" /\ server = "up" ~> main = "off" \/ server # "up"

\* plan.md, of a rerun after an interruption: only pending and error segments
\* are translated, what is done is not called for again.
DoneIsNotRedone ==
    [][\A s \in Segs : boots > 1 /\ status[s] = "done" => status'[s] # "processing"]_vars

=============================================================================
