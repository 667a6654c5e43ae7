-------------------------- MODULE FailedRunProofs --------------------------
(***************************************************************************)
(* The safety properties of the translation run, for any number of         *)
(* segments, workers, requests, boots and faults, when a failed run may    *)
(* have left its workers beside those of the next.                         *)
(***************************************************************************)
EXTENDS FailedRun, TranslationRunProofs

USE DEF NoSeg, Sentinel, Finished, Statuses, Texts, Modes

\* The workers left behind take the steps of any worker, on their own queue.
LeftP == INSTANCE TranslationRunProofs
            WITH pc <- leftPc, held <- leftHeld, queue <- leftQueue, job <- leftJob,
                 stopEv <- leftStop

-----------------------------------------------------------------------------
(* The workers left behind *)

LEMMA LeftIsALikeRun ==
  ASSUME Left!TypeOK, Left!HolderShape, Left!QueueInScope
  PROVE  LeftP!TypeOK /\ LeftP!HolderShape /\ LeftP!QueueInScope
  BY DEF Left!TypeOK, Left!HolderShape, Left!QueueInScope, LeftP!TypeOK, LeftP!HolderShape,
     LeftP!QueueInScope, Left!Segs, LeftP!Segs, Left!Workers, LeftP!Workers, Left!Capacity, LeftP!Capacity,
     Left!NoSeg, LeftP!NoSeg, Left!Sentinel, LeftP!Sentinel, Left!Statuses, LeftP!Statuses,
     Left!Finished, LeftP!Finished, Left!Texts, LeftP!Texts, Left!Modes, LeftP!Modes

LEMMA LeftWorksLikeAny ==
  ASSUME NEW w, LeftWorks(w)
  PROVE  LeftP!Works(w)
  BY DEF LeftWorks, LeftP!Works, Left!Skip, LeftP!Skip, Left!Claim, LeftP!Claim, Left!GetLock, LeftP!GetLock,
     Left!Answer, LeftP!Answer, Left!CallFails, LeftP!CallFails, Left!Takes, LeftP!Takes,
     Left!UnderLock, LeftP!UnderLock, Left!Move, LeftP!Move, Left!Rests, LeftP!Rests,
     Left!Locked, LeftP!Locked, Left!StopSeen, LeftP!StopSeen, Left!Hit, LeftP!Hit,
     Left!Claims, LeftP!Claims, Left!Claimable, LeftP!Claimable, Left!StillProcessing, LeftP!StillProcessing,
     Left!GivenBack, LeftP!GivenBack, Left!ledger, LeftP!ledger, Left!counts, LeftP!counts,
     Left!Segs, LeftP!Segs, Left!Workers, LeftP!Workers, Left!NoSeg, LeftP!NoSeg,
     Left!Finished, LeftP!Finished

LEMMA LeftWorksKeeps ==
  ASSUME FailedRunInductive, NEW w \in Workers, LeftWorks(w)
  PROVE  /\ Left!TypeOK' /\ Left!HolderShape' /\ Left!QueueInScope'
         /\ FinishedHasText'
         /\ \A s \in Segs \ Left!Forced :
               status[s] \in Finished => status'[s] = status[s] /\ text'[s] = text[s]
         /\ leftPc'[w] # "dead" =>
               \A s \in Segs : status'[s] = "processing" =>
                   leftHeld'[w] = s \/ (status[s] = "processing" /\ leftHeld[w] # s)
         /\ \A v \in Workers \ {w} : leftPc'[v] = leftPc[v] /\ leftHeld'[v] = leftHeld[v]
  <1>0. /\ MaxSegs \in Nat /\ Hash \in [LeftP!Segs -> Hashes]
        /\ Scopes \subseteq SUBSET LeftP!Segs /\ Edited \subseteq LeftP!Segs
        /\ Concurrency \in Nat /\ Concurrency >= 1
        /\ MaxRequests \in Nat /\ MaxWithFailures \in Nat /\ MaxBoots \in Nat /\ MaxFaults \in Nat
    BY SegAssumption, ScopeAssumption, ConcurrencyAssumption, LimitAssumption DEF Segs, LeftP!Segs
  <1>1. LeftP!TypeOK /\ LeftP!HolderShape /\ LeftP!QueueInScope
    BY LeftIsALikeRun DEF FailedRunInductive
  <1>2. LeftP!FinishedHasText
    BY DEF FailedRunInductive, RunInductive, FinishedHasText, LeftP!FinishedHasText, LeftP!Finished,
       LeftP!Segs, Segs
  <1>3. LeftP!Works(w) BY LeftWorksLikeAny
  <1>4. w \in LeftP!Workers BY DEF Workers, LeftP!Workers
  <1>5. LeftP!TypeOK' /\ LeftP!HolderShape'
        /\ \A v \in LeftP!Workers \ {w} : leftPc'[v] = leftPc[v] /\ leftHeld'[v] = leftHeld[v]
    BY <1>1, <1>3, <1>4, LeftP!WorksType, <1>0
  <1>6. LeftP!QueueInScope' BY <1>1, <1>3, <1>4, LeftP!WorksScope, <1>0
  <1>7. /\ LeftP!FinishedHasText'
        /\ \A s \in LeftP!Segs \ LeftP!Forced :
              status[s] \in LeftP!Finished => status'[s] = status[s] /\ text'[s] = text[s]
        /\ leftPc'[w] # "dead" =>
              \A s \in LeftP!Segs : status'[s] = "processing" =>
                  leftHeld'[w] = s \/ (status[s] = "processing" /\ leftHeld[w] # s)
    BY <1>1, <1>2, <1>3, <1>4, LeftP!WorksLedger, <1>0
  <1>8. LeftP!Segs = Segs /\ LeftP!Workers = Workers /\ LeftP!Forced = Left!Forced /\ LeftP!Finished = Finished
    BY DEF LeftP!Segs, Segs, LeftP!Workers, Workers, LeftP!Forced, Left!Forced, LeftP!Finished
  <1>9. Left!TypeOK' /\ Left!HolderShape' /\ Left!QueueInScope'
    BY <1>5, <1>6
    DEF Left!TypeOK, Left!HolderShape, Left!QueueInScope, LeftP!TypeOK, LeftP!HolderShape,
        LeftP!QueueInScope, Left!Segs, LeftP!Segs, Left!Workers, LeftP!Workers, Left!Capacity, LeftP!Capacity,
        Left!NoSeg, LeftP!NoSeg, Left!Sentinel, LeftP!Sentinel, Left!Statuses, LeftP!Statuses,
        Left!Finished, LeftP!Finished, Left!Texts, LeftP!Texts, Left!Modes, LeftP!Modes
  <1>10. FinishedHasText'
    BY <1>7 DEF FinishedHasText, LeftP!FinishedHasText, LeftP!Finished, LeftP!Segs, Segs
  <1> QED BY <1>5, <1>7, <1>8, <1>9, <1>10

\* The columns that the workers left behind share with the run.
LeftType == /\ leftJob \in [phase : {"none", "queued", "running", "stopping"},
                             mode : Modes, scope : SUBSET Segs]
            /\ leftQueue \in Seq(Segs \cup {Sentinel}) /\ Len(leftQueue) <= Capacity
            /\ leftPc \in [Workers -> {"off", "get", "lock", "call", "dead"}]
            /\ leftHeld \in [Workers -> Segs \cup {NoSeg}]
            /\ leftStop \in BOOLEAN

LEMMA LeftTypeSplit ==
  /\ Left!TypeOK => LeftType
  /\ TypeOK' /\ LeftType' => Left!TypeOK'
  BY DEF LeftType, TypeOK, Left!TypeOK, Left!Segs, Segs, Left!Workers, Workers, Left!Capacity, Capacity,
     Left!NoSeg, Left!Sentinel, Left!Statuses, Left!Finished, Left!Texts, Left!Modes

\* A step of the run leaves the workers left behind alone, or ends them with the
\* process.
LEMMA LeftAfterStepKeeps ==
  ASSUME FailedRunInductive, TypeOK', LeftAfterStep
  PROVE  /\ Left!TypeOK' /\ Left!HolderShape' /\ Left!QueueInScope' /\ leftStop' = FALSE
         /\ server' # "down" => leftHeld' = leftHeld /\ leftPc' = leftPc
  <1>1. Left!TypeOK /\ Left!HolderShape /\ Left!QueueInScope /\ leftStop = FALSE /\ TypeOK
    BY DEF FailedRunInductive, RunInductive
  <1>2. CASE server' # "down"
    <2>1. UNCHANGED <<leftPc, leftHeld, leftQueue, leftJob, leftStop>>
      BY <1>2 DEF LeftAfterStep, left
    <2>2. Left!HolderShape' /\ Left!QueueInScope'
      BY <1>1, <2>1 DEF Left!HolderShape, Left!QueueInScope, Left!Workers, Left!NoSeg, Left!Sentinel
    <2>3. Left!TypeOK' BY <1>1, <2>1, LeftTypeSplit DEF LeftType
    <2> QED BY <1>1, <2>1, <2>2, <2>3
  <1>3. CASE server' = "down"
    <2>1. /\ leftPc' = [w \in Workers |-> "off"] /\ leftHeld' = [w \in Workers |-> NoSeg]
          /\ leftQueue' = <<>> /\ leftJob' = NoJob /\ leftStop' = leftStop
      BY <1>3 DEF LeftAfterStep, Leaves
    <2>2. Left!HolderShape' /\ Left!QueueInScope'
      BY <2>1 DEF Left!HolderShape, Left!QueueInScope, Left!Workers, Workers, Left!NoSeg, Left!Sentinel
    <2>3. <<>> \in Seq(Segs \cup {Sentinel}) /\ Len(<<>>) = 0 /\ 0 <= Capacity
      BY EmptySeq, ConcurrencyAssumption DEF Capacity
    <2>4. Left!TypeOK' BY <1>1, <2>1, <2>3, LeftTypeSplit DEF NoJob, LeftType
    <2> QED BY <1>1, <1>3, <2>1, <2>2, <2>4
  <1> QED BY <1>2, <1>3

\* A failed coroutine leaves its workers, its queue and its job as they are, and
\* itself nothing.
LEMMA SummaryReadFailsKeeps ==
  ASSUME FailedRunInductive, SummaryReadFails
  PROVE  /\ RunInductive'
         /\ Left!TypeOK' /\ Left!HolderShape' /\ Left!QueueInScope' /\ leftStop' = FALSE
  <1>1. RunInductive /\ TypeOK /\ leftStop = FALSE BY DEF FailedRunInductive, RunInductive
  <1>2. /\ NoTasks /\ main = "feeding" /\ server' = server /\ project' = "error"
        /\ UNCHANGED <<status, text, tm, requests, boots>>
        /\ faults < MaxFaults /\ faults' = faults + 1
        /\ job' \in {[job EXCEPT !.phase = "queued"], NoJob}
        /\ leftPc' = pc /\ leftHeld' = held /\ leftQueue' = queue /\ leftJob' = job /\ leftStop' = leftStop
    BY DEF SummaryReadFails, Fault, Leaves, ledger
  <1>3. TasksShape' /\ TasksType' BY <1>2, NoTasksShape
  <1>4. main' = "off" /\ todo' = {} /\ queue' = <<>> /\ \A w \in Workers : pc'[w] = "off"
    BY <1>2 DEF NoTasks
  <1>5. /\ job' \in [phase : {"none", "queued", "running", "stopping"},
                     mode : Modes, scope : SUBSET Segs]
    BY <1>1, <1>2 DEF TypeOK, NoJob
  <1>6. faults' \in 0..MaxFaults BY <1>1, <1>2, LimitAssumption DEF TypeOK
  <1>7. TypeOK' BY <1>1, <1>2, <1>3, <1>4, <1>5, <1>6 DEF TypeOK, TasksType
  <1>8. RunShape' BY <1>4 DEF RunShape
  <1>9. FinishedHasText' /\ TranslatingWhileRunning'
    BY <1>1, <1>2, <1>4 DEF RunInductive, FinishedHasText, TranslatingWhileRunning
  <1>10. RunInductive' BY <1>3, <1>7, <1>8, <1>9 DEF RunInductive, TasksShape
  <1>11. Left!TypeOK' BY <1>1, <1>2, <1>7, LeftTypeSplit DEF LeftType, TypeOK
  <1>12. Left!HolderShape' /\ Left!QueueInScope'
    BY <1>1, <1>2 DEF RunInductive, HolderShape, QueueInScope, Left!HolderShape, Left!QueueInScope,
       Left!Workers, Workers, Left!NoSeg, Left!Sentinel
  <1> QED BY <1>1, <1>2, <1>10, <1>11, <1>12

-----------------------------------------------------------------------------
(* The two invariants that relate the ledger to the workers *)

Held == server # "down" /\ main # "unwinding" /\ NobodyDied =>
            \A s \in Segs : status[s] = "processing" =>
                (\E w \in Workers : held[w] = s) \/ (\E w \in Workers : leftHeld[w] = s)

\* By InOnePlace no other worker of the run holds the segment.
LEMMA HeldByOne ==
  /\ HeldWhileProcessing => Held
  /\ InOnePlace' /\ Held' => HeldWhileProcessing'
  <1>1. HeldWhileProcessing => Held BY DEF HeldWhileProcessing, Held
  <1>2. ASSUME InOnePlace', Held' PROVE HeldWhileProcessing'
    <2>1. \A s \in Segs, w \in Workers : held'[w] = s => \A v \in Workers : held'[v] = s => v = w
      BY <1>2, SegAssumption DEF InOnePlace, Segs
    <2> QED BY <1>2, <2>1 DEF HeldWhileProcessing, Held
  <1> QED BY <1>1, <1>2

\* A step of the run: a segment it leaves processing has a worker of either kind.
LEMMA HeldAfterRunStep ==
  ASSUME FailedRunInductive, RunInductive', Next, LeftAfterStep
  PROVE  HeldWhileProcessing'
  <1>1. RunInductive /\ TypeOK /\ HolderShape /\ QueueInScope /\ FinishedHasText /\ Held
    BY HeldByOne DEF FailedRunInductive, RunInductive
  <1>2. TypeOK' BY DEF RunInductive
  <1>3. server' # "down" => leftHeld' = leftHeld /\ leftPc' = leftPc
    BY <1>2, LeftAfterStepKeeps
  <1>4. NoSeg \notin Segs BY SegAssumption DEF Segs
  <1>5. ASSUME status' = Swept PROVE Held'
    BY <1>1, <1>5, SweptType DEF Held
  <1>6. ASSUME UNCHANGED <<pc, held>>, server = "down" => server' = "down",
               main = "unwinding" => main' = "unwinding",
               \A s \in Segs : status'[s] = "processing" => status[s] = "processing"
        PROVE  Held'
    BY <1>1, <1>3, <1>6 DEF NobodyDied, Held
  <1>7. ASSUME Requests PROVE Held'
    <2>1. CASE Stop BY <1>5, <2>1 DEF Stop
    <2>2. ASSUME NEW s \in Segs, NEW st \in Statuses, Edit(s, st) \/ Erase(s, st) \/ Mark(s, st)
          PROVE  Held'
      BY <1>1, <1>6, <2>2 DEF TypeOK, Edit, Erase, Mark, Markable, run
    <2>3. ASSUME NEW S \in Scopes, NEW mode \in Modes,
                 Review(S) \/ SetPending(S) \/ Retranslate(S) \/ Start(mode, S)
          PROVE  Held'
      BY <1>1, <1>6, <2>3 DEF Review, SetPending, Retranslate, Reset, Start, run, ledger
    <2> QED BY <1>7, <2>1, <2>2, <2>3, ScopeAssumption DEF Requests
  <1>8. ASSUME RunStarts \/ RunRefused \/ Unwind \/ Boot PROVE Held'
    BY <1>5, <1>8 DEF RunStarts, RunRefused, Unwind, AfterCancel, Boot
  <1>9. ASSUME Feed \/ PutResumes \/ FeedEnds \/ Seal \/ ShutdownBegins \/ ShutdownEnds PROVE Held'
    BY <1>6, <1>9 DEF Feed, PutResumes, FeedEnds, Seal, ShutdownBegins, ShutdownEnds, ledger, run
  <1>10. ASSUME RunReturns PROVE Held'
    <2>1. /\ \A w \in Workers : held[w] = NoSeg /\ pc[w] # "dead"
      BY <1>1, <1>10 DEF RunReturns, HolderShape
    <2>2. status' = status /\ server' = server /\ main # "unwinding" BY <1>10 DEF RunReturns, ledger
    <2> QED BY <1>1, <1>3, <1>4, <2>1, <2>2 DEF NobodyDied, Held
  <1>11. ASSUME Cancel \/ Crash PROVE Held'
    BY <1>11 DEF Cancel, Crash, Held
  <1>12. ASSUME NEW w \in Workers, Works(w) \/ WorkerDies(w) \/ StoreFails(w) PROVE Held'
    <2>1. /\ \A v \in Workers \ {w} : pc'[v] = pc[v] /\ held'[v] = held[v]
      BY <1>1, <1>12, WorksType
    <2>2. pc'[w] # "dead" =>
             \A s \in Segs : status'[s] = "processing" =>
                 held'[w] = s \/ (status[s] = "processing" /\ held[w] # s)
      BY <1>1, <1>12, WorksLedger
    <2>3. server' = server /\ main' = main /\ pc[w] # "dead"
      BY <1>12 DEF Works, TakePill, Skip, Claim, GetLock, Answer, CallFails, WorkerDies, StoreFails, Takes
    <2> QED BY <1>1, <1>3, <2>1, <2>2, <2>3 DEF NobodyDied, Held
  <1>13. Held' BY <1>7, <1>8, <1>9, <1>10, <1>11, <1>12 DEF Next, Coroutine
  <1> QED BY <1>13, HeldByOne DEF RunInductive

LEMMA HeldAfterFailure ==
  ASSUME FailedRunInductive, RunInductive', SummaryReadFails
  PROVE  HeldWhileProcessing'
  <1>1. /\ Held /\ server' = server /\ main = "feeding" /\ status' = status
        /\ leftPc' = pc /\ leftHeld' = held
        /\ \A w \in Workers : leftPc[w] = "off" /\ leftHeld[w] = NoSeg
        /\ RunInductive
    BY HeldByOne DEF FailedRunInductive, SummaryReadFails, Leaves, NothingLeft, ledger
  <1>2. server # "down" BY <1>1 DEF RunInductive, RunShape
  <1>3. NoSeg \notin Segs BY SegAssumption DEF Segs
  <1>4. Held' BY <1>1, <1>2, <1>3 DEF Held, NobodyDied
  <1> QED BY <1>4, HeldByOne DEF RunInductive

LEMMA HeldAfterLeftWorks ==
  ASSUME FailedRunInductive, RunInductive', NEW w \in Workers, LeftWorks(w)
  PROVE  HeldWhileProcessing'
  <1>1. Held BY HeldByOne DEF FailedRunInductive
  <1>2. UNCHANGED <<pc, held, server, main>>
    BY DEF LeftWorks, Left!Skip, Left!Claim, Left!GetLock, Left!Answer, Left!CallFails
  <1>3. leftPc[w] # "dead"
    BY DEF LeftWorks, Left!Skip, Left!Claim, Left!GetLock, Left!Answer, Left!CallFails, Left!Takes
  <1>4. Held' BY <1>1, <1>2, <1>3, LeftWorksKeeps DEF Held, NobodyDied
  <1> QED BY <1>4, HeldByOne DEF RunInductive

\* A run that may use the memory calls for a text the memory does not hold; the
\* answer to another call is for another text, and an edit puts the user's there.
LEMMA KnownAfterRunStep ==
  ASSUME FailedRunInductive, RunInductive', Next, LeftAfterStep
  PROVE  NoCallForKnownText'
  <1>1. /\ RunInductive /\ TypeOK /\ HolderShape /\ OneCallPerHash /\ NoCallForKnownText /\ RunShape
        /\ tm \in [Hashes -> Texts] /\ held \in [Workers -> Segs \cup {NoSeg}]
    BY DEF FailedRunInductive, RunInductive, TypeOK
  <1> SUFFICES ASSUME NothingLeft', job'.mode # "force", NEW v \in Workers, pc'[v] = "call"
               PROVE  tm'[Hash[held'[v]]] # "machine"
    BY DEF NoCallForKnownText
  <1>2. main' # "off" /\ main' # "unwinding" /\ server' # "down" BY DEF RunInductive, RunShape
  <1>3. NothingLeft BY <1>2 DEF LeftAfterStep, left, NothingLeft
  <1>4. ASSUME UNCHANGED <<main, pc, held>>, main # "off" => job'.mode = job.mode,
               \A h \in Hashes : tm'[h] = "machine" => tm[h] = "machine"
        PROVE  tm'[Hash[held'[v]]] # "machine"
    <2>1. pc[v] = "call" /\ job.mode # "force" BY <1>2, <1>4
    <2>2. tm[Hash[held[v]]] # "machine" BY <1>1, <1>3, <2>1 DEF NoCallForKnownText
    <2>3. Hash[held[v]] \in Hashes BY <1>1, <2>1, SegAssumption DEF HolderShape
    <2> QED BY <1>4, <2>2, <2>3
  <1>5. CASE Requests
    <2>1. ASSUME NEW s \in Segs, NEW st \in Statuses, Edit(s, st) \/ Erase(s, st) \/ Mark(s, st)
          PROVE  tm'[Hash[held'[v]]] # "machine"
      <3>1. Hash[s] \in Hashes BY SegAssumption
      <3> QED BY <1>1, <1>4, <2>1, <3>1 DEF Edit, Erase, Mark, run
    <2>2. ASSUME NEW S \in Scopes, NEW mode \in Modes,
                 Review(S) \/ SetPending(S) \/ Retranslate(S) \/ Start(mode, S)
          PROVE  tm'[Hash[held'[v]]] # "machine"
      <3>1. Idle => main = "off" BY <1>1 DEF Idle, RunShape
      <3> QED BY <1>4, <2>2, <3>1 DEF Review, SetPending, Retranslate, Start, run, ledger
    <2>3. ASSUME Stop PROVE tm'[Hash[held'[v]]] # "machine"
      <3>1. main # "off" => job'.mode = job.mode
        BY <1>1, <2>3 DEF Stop, RunShape, TypeOK
      <3> QED BY <1>4, <2>3, <3>1 DEF Stop
    <2> QED BY <1>5, <2>1, <2>2, <2>3, ScopeAssumption DEF Requests
  <1>6. CASE RunStarts BY <1>6 DEF RunStarts
  <1>7. CASE RunRefused \/ Boot \/ RunReturns \/ Unwind \/ Cancel \/ Crash \/ ShutdownEnds
    BY <1>1, <1>2, <1>7 DEF RunRefused, Boot, RunReturns, Unwind, NoTasks, Cancel, Crash, ShutdownEnds, run,
       RunShape
  <1>8. CASE Feed \/ PutResumes \/ FeedEnds \/ Seal
    <2>1. UNCHANGED <<tm, job, pc, held>> /\ main # "off"
      BY <1>8 DEF Feed, PutResumes, FeedEnds, Seal, ledger
    <2> QED BY <1>1, <1>3, <2>1 DEF NoCallForKnownText
  <1>9. CASE ShutdownBegins BY <1>4, <1>9 DEF ShutdownBegins, ledger
  <1>10. ASSUME NEW w \in Workers, Works(w) \/ WorkerDies(w) \/ StoreFails(w)
         PROVE  tm'[Hash[held'[v]]] # "machine"
    <2>1. /\ \A u \in Workers \ {w} : pc'[u] = pc[u] /\ held'[u] = held[u]
          /\ job' = job
      BY <1>1, <1>10, WorksType
      DEF Works, TakePill, Skip, Claim, GetLock, Answer, CallFails, WorkerDies, StoreFails
    <2>2. CASE v = w
      <3>1. job.mode # "force" /\ tm[Hash[held'[w]]] = "none" /\ tm' = tm
        BY <1>1, <1>10, <2>1, <2>2, WorksCalls
      <3> QED BY <2>2, <3>1
    <2>3. CASE v # w
      <3>1. pc[v] = "call" /\ held'[v] = held[v] /\ Hash[held[v]] \in Hashes
        BY <1>1, <2>1, <2>3, SegAssumption DEF HolderShape
      <3>2. tm[Hash[held[v]]] # "machine" BY <1>1, <1>3, <2>1, <3>1 DEF NoCallForKnownText
      <3>3. tm' = tm \/ (pc[w] = "call" /\ tm' = [tm EXCEPT ![Hash[held[w]]] = "machine"])
        BY <1>10 DEF Works, TakePill, Skip, Claim, GetLock, Answer, CallFails, WorkerDies, StoreFails, ledger
      <3>4. pc[w] = "call" => Hash[held[w]] # Hash[held[v]] BY <1>1, <2>3, <3>1 DEF OneCallPerHash
      <3> QED BY <1>1, <3>1, <3>2, <3>3, <3>4
    <2> QED BY <2>2, <2>3
  <1> QED BY <1>5, <1>6, <1>7, <1>8, <1>9, <1>10 DEF Next, Coroutine

\* Workers left behind never go home: after a step of theirs something is left.
LEMMA KnownAfterLeftWorks ==
  ASSUME FailedRunInductive, NEW w \in Workers, LeftWorks(w)
  PROVE  NoCallForKnownText'
  <1>1. leftPc \in [Workers -> {"off", "get", "lock", "call", "dead"}]
    BY LeftTypeSplit DEF FailedRunInductive, LeftType
  <1>2. leftPc'[w] # "off"
    BY <1>1 DEF LeftWorks, Left!Skip, Left!Claim, Left!GetLock, Left!Answer, Left!CallFails, Left!Takes,
       Left!UnderLock, Left!Rests, Left!Move
  <1> QED BY <1>2 DEF NothingLeft, NoCallForKnownText

-----------------------------------------------------------------------------
(* The inductive invariant *)

LEMMA FailedRunInitInductive == FailedRunInit => FailedRunInductive
  <1> SUFFICES ASSUME FailedRunInit PROVE FailedRunInductive OBVIOUS
  <1>1. RunInductive /\ TypeOK /\ InOnePlace BY InitInductive DEF FailedRunInit, RunInductive
  <1>2. leftStop = FALSE BY DEF FailedRunInit, NothingLeft
  <1>3. Left!HolderShape /\ Left!QueueInScope
    BY DEF FailedRunInit, NothingLeft, Left!HolderShape, Left!QueueInScope, Left!Workers, Workers, Left!NoSeg
  <1>4. Left!TypeOK
    <2>1. <<>> \in Seq(Segs \cup {Sentinel}) /\ Len(<<>>) = 0 /\ 0 <= Capacity
      BY EmptySeq, ConcurrencyAssumption DEF Capacity
    <2>2. leftPc = [w \in Workers |-> "off"] /\ leftHeld = [w \in Workers |-> NoSeg]
          /\ leftQueue = <<>> /\ leftJob = NoJob /\ leftStop = FALSE
      BY DEF FailedRunInit, NothingLeft
    <2> QED BY <1>1, <2>1, <2>2
        DEF TypeOK, NoJob, Left!TypeOK, Left!Segs, Segs, Left!Workers, Workers, Left!Capacity, Capacity,
            Left!NoSeg, Left!Sentinel, Left!Statuses, Left!Finished, Left!Texts, Left!Modes
  <1>5. NoCallForKnownText BY DEF FailedRunInit, Init, NoCallForKnownText
  <1>6. HeldWhileProcessing BY DEF FailedRunInit, Init, HeldWhileProcessing
  <1> QED BY <1>1, <1>2, <1>3, <1>4, <1>5, <1>6 DEF FailedRunInductive

LEMMA FailedRunNextInductive == FailedRunInductive /\ [FailedRunNext]_allVars => FailedRunInductive'
  <1> SUFFICES ASSUME FailedRunInductive, [FailedRunNext]_allVars PROVE FailedRunInductive'
    OBVIOUS
  <1>1. CASE Next /\ LeftAfterStep
    <2>1. RunInductive' /\ TypeOK' BY <1>1, NextInductive DEF FailedRunInductive, RunInductive
    <2>2. Left!TypeOK' /\ Left!HolderShape' /\ Left!QueueInScope' /\ leftStop' = FALSE
      BY <1>1, <2>1, LeftAfterStepKeeps
    <2>3. NoCallForKnownText' /\ HeldWhileProcessing'
      BY <1>1, <2>1, KnownAfterRunStep, HeldAfterRunStep
    <2> QED BY <2>1, <2>2, <2>3 DEF FailedRunInductive
  <1>2. CASE SummaryReadFails
    <2>1. RunInductive' /\ Left!TypeOK' /\ Left!HolderShape' /\ Left!QueueInScope' /\ leftStop' = FALSE
      BY <1>2, SummaryReadFailsKeeps
    <2>2. HeldWhileProcessing' BY <1>2, <2>1, HeldAfterFailure
    <2>3. NoCallForKnownText' BY <1>2 DEF SummaryReadFails, NoTasks, NoCallForKnownText
    <2> QED BY <2>1, <2>2, <2>3 DEF FailedRunInductive
  <1>3. ASSUME NEW w \in Workers, LeftWorks(w) PROVE FailedRunInductive'
    <2>1. /\ Left!TypeOK' /\ Left!HolderShape' /\ Left!QueueInScope' /\ FinishedHasText'
      BY <1>3, LeftWorksKeeps
    <2>2. UNCHANGED <<project, job, server, main, todo, pills, queue, pc, held, stopEv, requests, boots,
                      faults, leftStop>>
      BY <1>3 DEF LeftWorks, Left!Skip, Left!Claim, Left!GetLock, Left!Answer, Left!CallFails, Left!counts
    <2>3. status' \in [Segs -> Statuses] /\ text' \in [Segs -> Texts] /\ tm' \in [Hashes -> Texts]
      BY <2>1 DEF Left!TypeOK, Left!Segs, Segs, Left!Statuses, Left!Finished, Left!Texts
    <2>4. TypeOK' BY <2>2, <2>3 DEF FailedRunInductive, RunInductive, TypeOK
    <2>5. RunShape' /\ HolderShape' /\ (todo \subseteq job.scope)' /\ QueueInScope' /\ InOnePlace'
          /\ OneCallPerHash' /\ TranslatingWhileRunning'
      BY <2>2 DEF FailedRunInductive, RunInductive, RunShape, HolderShape, QueueInScope, InOnePlace,
         OneCallPerHash, TranslatingWhileRunning
    <2>6. RunInductive' BY <2>1, <2>4, <2>5 DEF RunInductive
    <2>7. NoCallForKnownText' /\ HeldWhileProcessing'
      BY <1>3, <2>6, KnownAfterLeftWorks, HeldAfterLeftWorks
    <2> QED BY <2>1, <2>2, <2>6, <2>7 DEF FailedRunInductive
  <1>4. CASE UNCHANGED allVars
    BY <1>4 DEF allVars, vars, left, FailedRunInductive, RunInductive, TypeOK, RunShape, HolderShape,
       QueueInScope, InOnePlace, OneCallPerHash, FinishedHasText, TranslatingWhileRunning, NothingLeft,
       NoCallForKnownText, HeldWhileProcessing, NobodyDied, Left!TypeOK, Left!HolderShape, Left!QueueInScope
  <1> QED BY <1>1, <1>2, <1>3, <1>4 DEF FailedRunNext

\* The run's shape, the ledger and the workers of both kinds fit together in every
\* state: what the properties below rest on.
THEOREM FailedRunInvariant == FailedRunSpec => []FailedRunInductive
  <1>1. FailedRunInit => FailedRunInductive BY FailedRunInitInductive
  <1>2. FailedRunInductive /\ [FailedRunNext]_allVars => FailedRunInductive'
    BY FailedRunNextInductive
  <1> QED BY <1>1, <1>2, PTL DEF FailedRunSpec

-----------------------------------------------------------------------------
(* The safety properties *)

\* No segment stays behind processing while the server runs, and two workers of a
\* run never have the same one, unless a task died.
THEOREM SegmentsAreHeld == FailedRunSpec => []HeldWhileProcessing
  <1>1. FailedRunInductive => HeldWhileProcessing BY DEF FailedRunInductive
  <1> QED BY <1>1, FailedRunInvariant, PTL

\* The locks of the source hashes keep calls for the same text apart.
THEOREM CallsAreApart == FailedRunSpec => []OneCallPerHash
  <1>1. FailedRunInductive => OneCallPerHash BY DEF FailedRunInductive, RunInductive
  <1> QED BY <1>1, FailedRunInvariant, PTL

\* The memory is asked again under the lock, so nothing is translated twice.
THEOREM KnownTextIsUsed == FailedRunSpec => []NoCallForKnownText
  <1>1. FailedRunInductive => NoCallForKnownText BY DEF FailedRunInductive
  <1> QED BY <1>1, FailedRunInvariant, PTL

\* The export finds a text in every finished segment.
THEOREM FinishedSegmentsHaveText == FailedRunSpec => []FinishedHasText
  <1>1. FailedRunInductive => FinishedHasText BY DEF FailedRunInductive, RunInductive
  <1> QED BY <1>1, FailedRunInvariant, PTL

\* The project's status says whether a run is on.
THEOREM ProjectSaysTranslating == FailedRunSpec => []TranslatingWhileRunning
  <1>1. FailedRunInductive => TranslatingWhileRunning BY DEF FailedRunInductive, RunInductive
  <1> QED BY <1>1, FailedRunInvariant, PTL

\* Nobody but the user, or a forced run, changes a finished segment.
THEOREM FinishedSegmentsAreKept == FailedRunSpec => FinishedIsKept
  <1> DEFINE Kept == requests' = requests =>
                        \A s \in Segs \ (Forced \cup Left!Forced) :
                            status[s] \in Finished => status'[s] = status[s] /\ text'[s] = text[s]
  <1>1. FailedRunInductive /\ [FailedRunNext]_allVars => [Kept]_allVars
    <2> SUFFICES ASSUME FailedRunInductive, FailedRunNext, requests' = requests
                 PROVE  \A s \in Segs \ (Forced \cup Left!Forced) :
                            status[s] \in Finished => status'[s] = status[s] /\ text'[s] = text[s]
      OBVIOUS
    <2>1. RunInductive /\ TypeOK /\ HolderShape /\ QueueInScope /\ FinishedHasText
          /\ status \in [Segs -> Statuses] /\ requests \in Int
      BY DEF FailedRunInductive, RunInductive, TypeOK
    <2>2. CASE Next
      <3>1. ~ Requests
        <4>1. Requests => Request
          BY DEF Requests, Edit, Erase, Mark, Review, SetPending, Retranslate, Start, Stop
        <4>2. ~ Request BY <2>1 DEF Request
        <4> QED BY <4>1, <4>2
      <3>2. ASSUME text' = text, status' \in {status, Swept}
            PROVE  \A s \in Segs : status[s] \in Finished => status'[s] = status[s] /\ text'[s] = text[s]
        BY <2>1, <3>2, SweptType
      <3>3. CASE RunStarts \/ RunRefused \/ RunReturns \/ Unwind \/ Boot
        BY <3>2, <3>3 DEF RunStarts, RunRefused, RunReturns, Unwind, AfterCancel, Boot, ledger
      <3>4. CASE Feed \/ PutResumes \/ FeedEnds \/ Seal \/ ShutdownBegins \/ ShutdownEnds \/ Crash
        BY <3>2, <3>4 DEF Feed, PutResumes, FeedEnds, Seal, ShutdownBegins, ShutdownEnds, Crash, ledger
      <3>5. CASE Cancel
        BY <2>1, <3>5 DEF Cancel, GivenBack
      <3>6. CASE \E w \in Workers : Works(w) \/ WorkerDies(w) \/ StoreFails(w)
        BY <2>1, <3>6, WorksLedger
      <3> QED BY <2>2, <3>1, <3>3, <3>4, <3>5, <3>6 DEF Next, Coroutine
    <2>3. CASE SummaryReadFails BY <2>3 DEF SummaryReadFails, ledger
    <2>4. CASE \E w \in Workers : LeftWorks(w) BY <2>4, LeftWorksKeeps
    <2> QED BY <2>2, <2>3, <2>4 DEF FailedRunNext
  <1> QED BY <1>1, FailedRunInvariant, PTL DEF FailedRunSpec, FinishedIsKept

\* After the stop no worker of the run begins a call.
THEOREM NoCallBegunAfterStop == FailedRunSpec => NoCallAfterStop
  <1> DEFINE NoCall == \A w \in Workers : stopEv /\ pc[w] # "call" => pc'[w] # "call"
  <1>1. FailedRunInductive /\ [FailedRunNext]_allVars => [NoCall]_vars
    <2> SUFFICES ASSUME FailedRunInductive, [FailedRunNext]_allVars, stopEv,
                        NEW w \in Workers, pc[w] # "call", pc'[w] = "call"
                 PROVE  FALSE
      OBVIOUS
    <2>1. RunInductive /\ TypeOK /\ HolderShape BY DEF FailedRunInductive, RunInductive
    <2>2. CASE Next
      <3>1. CASE Requests
        BY <3>1 DEF Requests, Edit, Erase, Mark, Review, SetPending, Retranslate, Start, Stop, run
      <3>2. CASE RunStarts \/ RunRefused \/ Coroutine \/ ShutdownBegins \/ Cancel \/ ShutdownEnds
                 \/ Crash \/ Boot
        BY <3>2 DEF RunStarts, RunRefused, Coroutine, Feed, PutResumes, FeedEnds, Seal, RunReturns, Unwind,
           ShutdownBegins, Cancel, ShutdownEnds, Crash, Boot, NoTasks, run
      <3>3. ASSUME NEW v \in Workers, Works(v) \/ WorkerDies(v) \/ StoreFails(v) PROVE FALSE
        <4>1. \A u \in Workers \ {v} : pc'[u] = pc[u] BY <2>1, <3>3, WorksType
        <4>2. pc'[v] = "call" => ~ stopEv BY <2>1, <3>3, WorksCalls
        <4> QED BY <4>1, <4>2
      <3> QED BY <2>2, <3>1, <3>2, <3>3 DEF Next
    <2>3. CASE SummaryReadFails BY <2>3 DEF SummaryReadFails, NoTasks
    <2>4. CASE \E v \in Workers : LeftWorks(v) BY <2>4 DEF LeftWorks
    <2>5. CASE UNCHANGED allVars BY <2>5 DEF allVars, vars
    <2> QED BY <2>2, <2>3, <2>4, <2>5 DEF FailedRunNext
  <1> QED BY <1>1, FailedRunInvariant, PTL DEF FailedRunSpec, NoCallAfterStop
=============================================================================
