-------------------------- MODULE JobManagerProofs --------------------------
(***************************************************************************)
(* Theorems about JobManager, for every set of projects, every timing in   *)
(* which a heartbeat fits into a lease, and every bound.                   *)
(*                                                                         *)
(* Inductive is preserved by every step.  The proof is cut by conjunct     *)
(* first: the type, the shape of the tasks, and then each property, so     *)
(* that every part names the few facts of the old state it needs.          *)
(***************************************************************************)
EXTENDS JobManager, FiniteSetTheorems, WellFoundedInduction, TLAPS

USE DEF JobIds, NoJob, Owned, Active, Terminal, Status

-----------------------------------------------------------------------------
(* Rows *)

\* The backoff floor is an integer.
LEMMA BackoffInt == ASSUME NEW n \in Nat PROVE Backoff(n) \in Int
  <1>1. \A k \in Nat : 2 ^ k \in Int BY SMT
  <1>2. (IF n > 1 THEN n - 1 ELSE 0) \in Nat OBVIOUS
  <1>3. 2 ^ (IF n > 1 THEN n - 1 ELSE 0) \in Int BY <1>1, <1>2
  <1> DEFINE d == BackoffBase * 2 ^ (IF n > 1 THEN n - 1 ELSE 0)
  <1>4. d \in Int
    <2> HIDE DEF d
    <2> DEFINE e == 2 ^ (IF n > 1 THEN n - 1 ELSE 0)
    <2>1. e \in Int BY <1>3
    <2>2. d = BackoffBase * e BY DEF d
    <2> HIDE DEF e
    <2>3. BackoffBase * e \in Int BY <2>1, BackoffAssumption
    <2> QED BY <2>2, <2>3
  <1>5. Backoff(n) = IF d < BackoffCap THEN d ELSE BackoffCap BY DEF Backoff
  <1> HIDE DEF d
  <1> QED BY <1>4, <1>5, BackoffAssumption

\* A new row is a row.
LEMMA NewRowType ==
  ASSUME NEW p \in Projects \cup {NoProject}, NEW t \in JobTypes, NEW n \in Nat
  PROVE  NewRow(p, t, n) \in JobRow
  BY BackoffInt, TimingAssumption DEF NewRow, JobRow

\* Every way the manager rewrites a row leaves a row.
LEMMA RowTypes ==
  ASSUME NEW row \in JobRow, TypeOK
  PROVE  /\ \A s \in Active \cup Terminal : Released(row, s) \in JobRow
         /\ StopRequested(row) \in JobRow
         /\ \A p \in Projects : Orphaned(row, p) \in JobRow
         /\ Claimed(row) \in JobRow
         /\ Rejected(row) \in JobRow
         /\ FailOrRequeue(row) \in JobRow
         /\ Renewed(row) \in JobRow
  <1>1. Lease \in 0..Lease BY TimingAssumption
  <1>2. 0 \in 0..Lease BY TimingAssumption
  <1>3. inst \in Nat BY BoundAssumption DEF TypeOK
  <1>4. Backoff(row.attempts) \in Int BY BackoffInt DEF JobRow
  <1>5. \A s \in Active \cup Terminal : Released(row, s) \in JobRow
    BY <1>2 DEF Released, JobRow
  <1>6. StopRequested(row) \in JobRow BY DEF StopRequested, JobRow
  <1>7. \A p \in Projects : Orphaned(row, p) \in JobRow BY DEF Orphaned, JobRow
  <1>8. Claimed(row) \in JobRow
    <2>1. row.attempts + 1 \in Nat BY DEF JobRow
    <2> DEFINE n == row.attempts + 1
    <2> HIDE DEF n
    <2> QED BY <1>1, <1>3, <2>1 DEF Claimed, JobRow, n
  <1>9. Rejected(row) \in JobRow BY <1>2, <1>8 DEF Rejected, Released, JobRow
  <1>10. FailOrRequeue(row) \in JobRow
    <2>1. Released(row, "queued") \in JobRow BY <1>5
    <2>2. Requeued(row) \in JobRow BY <1>4, <2>1 DEF Requeued, JobRow
    <2> QED BY <1>5, <2>2 DEF FailOrRequeue
  <1>11. Renewed(row) \in JobRow BY <1>1 DEF Renewed, JobRow
  <1> QED BY <1>5, <1>6, <1>7, <1>8, <1>9, <1>10, <1>11

\* The number of rows recovered at once.
LEMMA RetryableCount ==
  ASSUME NEW supported
  PROVE  /\ Retryable(supported) \in SUBSET JobIds
         /\ Cardinality(Retryable(supported)) \in Nat
  <1>1. IsFiniteSet(JobIds) BY BoundAssumption, FS_Interval
  <1>2. Retryable(supported) \in SUBSET JobIds BY DEF Retryable, Stale
  <1> QED BY <1>1, <1>2, FS_Subset, FS_CardinalityType

\* What a boot makes of a row: a stale one is interrupted, an id beyond the old
\* last may receive the copy of a retryable row, and the others stay.
LEMMA BootRows ==
  ASSUME TypeOK, NEW supported \in Versions, Boot(supported)
  PROVE  \E id \in FreshIds(Retryable(supported)) : \A j \in JobIds :
            \/ j \in Stale /\ job'[j] = Released(job[j], "interrupted")
            \/ /\ j \notin Stale /\ j > last
               /\ \E i \in Retryable(supported) :
                     /\ id[i] = j
                     /\ job'[j] = NewRow(job[i].project, job[i].type, job[i].attempts)
            \/ /\ j \notin Stale /\ job'[j] = job[j]
               /\ ~ \E i \in Retryable(supported) : id[i] = j
  <1> DEFINE S == Retryable(supported)
  <1>1. S \in SUBSET JobIds /\ Cardinality(S) \in Nat BY RetryableCount
  <1>2. PICK id \in FreshIds(S) : job' = Recovered(id, S) BY DEF Boot
  <1> HIDE DEF S
  <1>3. \A i \in S : id[i] > last
    BY <1>1, <1>2, BoundAssumption DEF FreshIds, TypeOK
  <1> SUFFICES ASSUME NEW j \in JobIds
               PROVE  \/ j \in Stale /\ job'[j] = Released(job[j], "interrupted")
                      \/ /\ j \notin Stale /\ j > last
                         /\ \E i \in S :
                               /\ id[i] = j
                               /\ job'[j] = NewRow(job[i].project, job[i].type, job[i].attempts)
                      \/ /\ j \notin Stale /\ job'[j] = job[j]
                         /\ ~ \E i \in S : id[i] = j
    BY <1>2 DEF S
  <1>4. CASE j \in Stale BY <1>2, <1>4 DEF Recovered
  <1>5. CASE j \notin Stale /\ \E i \in S : id[i] = j
    <2> DEFINE i == CHOOSE i \in S : id[i] = j
    <2>1. i \in S /\ id[i] = j BY <1>5
    <2>2. job'[j] = NewRow(job[i].project, job[i].type, job[i].attempts)
      BY <1>2, <1>5 DEF Recovered
    <2>3. j > last BY <2>1, <1>3
    <2> HIDE DEF i
    <2> QED BY <1>5, <2>1, <2>2, <2>3
  <1>6. CASE j \notin Stale /\ ~ \E i \in S : id[i] = j BY <1>2, <1>6 DEF Recovered
  <1> QED BY <1>4, <1>5, <1>6

-----------------------------------------------------------------------------
(* The type *)

\* The first state, an empty table and no process, is of the type.
LEMMA TypeInit == Init => TypeOK
  <1> SUFFICES ASSUME Init PROVE TypeOK OBVIOUS
  <1> DEFINE t == CHOOSE t \in JobTypes : TRUE
  <1>1. t \in JobTypes BY VersionAssumption
  <1> HIDE DEF t
  <1>2. [NewRow(NoProject, t, 0) EXCEPT !.status = "unused"] \in JobRow
    BY <1>1, NewRowType DEF JobRow
  <1>3. job \in [JobIds -> JobRow] BY <1>2 DEF Init, t
  <1>4. age \in 0..(Beat + Late) BY TimingAssumption DEF Init
  <1>5. /\ last \in 0..MaxJobs /\ inst \in 0..MaxBoots /\ faults \in 0..MaxFaults
        /\ cur \in JobIds \cup {NoJob}
    BY BoundAssumption DEF Init
  <1>6. stopEv \in BOOLEAN /\ wake \in BOOLEAN BY DEF Init
  <1> QED BY <1>3, <1>4, <1>5, <1>6 DEF Init, TypeOK

\* Every operation of manager.py keeps every variable of its type.  The shape of
\* the tasks is needed: a heartbeat renews the row cur names.
LEMMA TypeStep == TypeOK /\ TaskShape /\ [Next]_vars => TypeOK'
  <1> SUFFICES ASSUME TypeOK, TaskShape, [Next]_vars PROVE TypeOK' OBVIOUS
  <1>0. 0 \in 0..(Beat + Late) BY TimingAssumption
  <1> USE <1>0
  <1>1. ASSUME NEW p \in Projects, Stop(p) PROVE TypeOK'
    <2>1. PICK j \in JobIds : job' = [job EXCEPT ![j] = StopRequested(@)] /\ stopEv' = Signalled(j)
      BY <1>1 DEF Stop
    <2>2. StopRequested(job[j]) \in JobRow BY <1>1, RowTypes DEF TypeOK
    <2>3. job' \in [JobIds -> JobRow] BY <2>1, <2>2 DEF TypeOK
    <2> QED BY <1>1, <2>1, <2>3 DEF Stop, Signalled, Notify, TypeOK
  <1>2. ASSUME NEW p \in Projects, DeleteProject(p) PROVE TypeOK'
    <2>1. ASSUME NEW j \in JobIds
          PROVE  Orphaned(IF IsActiveJob(p, j) THEN StopRequested(job[j]) ELSE job[j], p) \in JobRow
      BY <1>2, RowTypes DEF TypeOK
    <2>2. job' \in [JobIds -> JobRow] BY <1>2, <2>1 DEF DeleteProject
    <2> QED BY <1>2, <2>2 DEF DeleteProject, Signalled, Notify, TypeOK
  <1>3. ASSUME NEW p \in Projects, NEW t \in JobTypes, Create(p, t) PROVE TypeOK'
    <2>1. NewRow(p, t, 0) \in JobRow BY NewRowType
    <2>2. job' \in [JobIds -> JobRow] BY <1>3, <2>1 DEF Create, TypeOK
    <2> QED BY <1>3, <2>2 DEF Create, Notify, TypeOK
  <1>4. ASSUME NEW j \in JobIds, ClaimAndRun(j) \/ ClaimAndReject(j) PROVE TypeOK'
    <2>1. Claimed(job[j]) \in JobRow /\ Rejected(job[j]) \in JobRow BY RowTypes DEF TypeOK
    <2>2. job' \in [JobIds -> JobRow]
      BY <1>4, <2>1 DEF ClaimAndRun, ClaimAndReject, TypeOK
    <2> QED BY <1>4, <2>2 DEF ClaimAndRun, ClaimAndReject, task, TypeOK
  <1>5. ASSUME NEW j \in JobIds, HandlerReturns(j) \/ HandlerRaises(j) PROVE TypeOK'
    <2>1. Released(job[j], Outcome(job[j])) \in JobRow BY RowTypes DEF Outcome, TypeOK
    <2>2. FailOrRequeue(job[j]) \in JobRow BY RowTypes DEF TypeOK
    <2>3. job' \in [JobIds -> JobRow]
      BY <1>5, <2>1, <2>2 DEF HandlerReturns, HandlerRaises, TypeOK
    <2> QED BY <1>5, <2>3 DEF HandlerReturns, HandlerRaises, RunEnds, TypeOK
  <1>6. CASE Heartbeat
    <2>1. cur \in JobIds BY <1>6 DEF Heartbeat, TaskShape
    <2>2. Renewed(job[cur]) \in JobRow BY <2>1, RowTypes DEF TypeOK
    <2>3. job' \in [JobIds -> JobRow] BY <1>6, <2>1, <2>2 DEF Heartbeat, TypeOK
    <2>4. stopEv' \in BOOLEAN BY <1>6, <2>1 DEF Heartbeat, TypeOK, JobRow
    <2> QED BY <1>6, <2>3, <2>4 DEF Heartbeat, TypeOK
  <1>7. CASE GraceExpires
    <2>1. cur \in JobIds BY <1>7 DEF GraceExpires, TaskShape
    <2>2. Released(job[cur], "interrupted") \in JobRow BY <2>1, RowTypes DEF TypeOK
    <2>3. job' \in [JobIds -> JobRow] BY <1>7, <2>1, <2>2 DEF GraceExpires, TypeOK
    <2> QED BY <1>7, <2>3 DEF GraceExpires, RunEnds, TypeOK
  <1>8. CASE ShutdownEnds
    <2>1. \A j \in JobIds : Released(job[j], "interrupted") \in JobRow BY RowTypes DEF TypeOK
    <2>2. job' \in [JobIds -> JobRow] BY <1>8, <2>1 DEF ShutdownEnds, TypeOK
    <2> QED BY <1>8, <2>2 DEF ShutdownEnds, ProcessEnds, TypeOK
  <1>9. ASSUME NEW supported \in Versions, Boot(supported) PROVE TypeOK'
    <2> USE BoundAssumption
    <2>1. Cardinality(Retryable(supported)) \in Nat BY RetryableCount
    <2>2. ASSUME NEW j \in JobIds PROVE job'[j] \in JobRow
      <3>1. Released(job[j], "interrupted") \in JobRow BY RowTypes DEF TypeOK
      <3>2. ASSUME NEW i \in JobIds
            PROVE  NewRow(job[i].project, job[i].type, job[i].attempts) \in JobRow
        <4>1. /\ job[i].project \in Projects \cup {NoProject}
              /\ job[i].type \in JobTypes /\ job[i].attempts \in Nat
          BY DEF TypeOK, JobRow
        <4> QED BY <4>1, NewRowType
      <3>3. Retryable(supported) \subseteq JobIds BY RetryableCount
      <3>4. job[j] \in JobRow BY DEF TypeOK
      <3> QED BY <1>9, <3>1, <3>2, <3>3, <3>4, BootRows
    <2>3. job' \in [JobIds -> JobRow] BY <1>9, <2>2 DEF Boot, Recovered
    <2>4. last' \in 0..MaxJobs BY <1>9, <2>1 DEF Boot, TypeOK
    <2> QED BY <1>9, <2>3, <2>4, VersionAssumption DEF Boot, Notify, TypeOK
  <1>10. CASE Tick
    <2>1. ASSUME NEW j \in JobIds
          PROVE  [job[j] EXCEPT !.lease = OneTickLess(@), !.backoff = OneTickLess(@)] \in JobRow
      <3>1. job[j] \in JobRow BY DEF TypeOK
      <3>2. job[j].lease \in 0..Lease BY <3>1 DEF JobRow
      <3>4. OneTickLess(job[j].lease) \in 0..Lease
        BY <3>2, TimingAssumption DEF OneTickLess
      <3>3. OneTickLess(job[j].backoff) \in Int BY <3>1 DEF OneTickLess, JobRow
      <3> QED BY <3>1, <3>3, <3>4 DEF JobRow
    <2>2. job' \in [JobIds -> JobRow] BY <1>10, <2>1 DEF Tick
    <2>3. age' \in 0..(Beat + Late)
      <3>1. age' = age \/ (age < Beat + Late /\ age' = age + 1) BY <1>10 DEF Tick
      <3>2. age \in 0..(Beat + Late) BY DEF TypeOK
      <3> QED BY <3>1, <3>2, TimingAssumption
    <2> QED BY <1>10, <2>2, <2>3 DEF Tick, TypeOK
  <1>11. CASE ClaimNothing \/ WakeUp \/ WorkerExits \/ ShutdownBegins \/ ShutdownFails \/ Crash
    BY <1>11 DEF ClaimNothing, WakeUp, WorkerExits, ShutdownBegins, ShutdownFails, Crash,
                 ProcessEnds, Notify, durable, TypeOK
  <1>12. CASE Faults
    <2>1. faults' \in 0..MaxFaults
      BY <1>12, BoundAssumption DEF Faults, ClaimFails, RecordFails, HeartbeatFails, Fault, TypeOK
    <2>2. CASE ClaimFails BY <2>1, <2>2 DEF ClaimFails, durable, TypeOK
    <2>3. CASE RecordFails BY <2>1, <2>3 DEF RecordFails, RunEnds, durable, TypeOK
    <2>4. CASE HeartbeatFails BY <2>1, <2>4 DEF HeartbeatFails, durable, TypeOK
    <2> QED BY <1>12, <2>2, <2>3, <2>4 DEF Faults
  <1>13. CASE UNCHANGED vars BY <1>13 DEF vars, TypeOK
  <1> QED BY <1>1, <1>2, <1>3, <1>4, <1>5, <1>6, <1>7, <1>8, <1>9, <1>10, <1>11, <1>12, <1>13
          DEF Next, Request, Claims, HandlerEnds, Shutdown

-----------------------------------------------------------------------------
(* The tasks of the process, and the order of insertion *)

\* Rows are inserted in id order by create() and recover(), and the worker and
\* its heartbeat belong to a row the process owns, whatever stop(), deletions
\* and shutdown do to that row.
LEMMA ShapeStep ==
  TypeOK /\ TaskShape /\ UnusedBeyondLast /\ [Next]_vars => TaskShape' /\ UnusedBeyondLast'
  <1> SUFFICES ASSUME TypeOK, TaskShape, UnusedBeyondLast, [Next]_vars
               PROVE  TaskShape' /\ UnusedBeyondLast'
    OBVIOUS
  <1>t. ASSUME NEW j \in JobIds
        PROVE  /\ job[j] \in JobRow
               /\ j > last => Status(j) = "unused"
               /\ DOMAIN job = JobIds
    BY DEF TypeOK, UnusedBeyondLast
  <1>1. ASSUME NEW p \in Projects, Stop(p) PROVE TaskShape' /\ UnusedBeyondLast'
    <2>1. PICK i \in JobIds : IsActiveJob(p, i) /\ job' = [job EXCEPT ![i] = StopRequested(@)]
      BY <1>1 DEF Stop
    <2>2. Status(i) \in Active BY <2>1 DEF IsActiveJob, ActiveJobs
    <2>3. \A j \in JobIds : j # i => job'[j] = job[j] BY <2>1
    <2>4. job'[i].status = IF Status(i) = "queued" THEN "cancelled" ELSE "stopping"
      BY <2>1, <1>t DEF StopRequested, JobRow
    <2>5. UnusedBeyondLast' BY <1>1, <2>2, <2>3, <2>4, <1>t DEF Stop, UnusedBeyondLast
    <2>6. TaskShape' BY <1>1, <2>3, <2>4 DEF Stop, TaskShape
    <2> QED BY <2>5, <2>6
  <1>2. ASSUME NEW p \in Projects, DeleteProject(p) PROVE TaskShape' /\ UnusedBeyondLast'
    <2>1. ASSUME NEW j \in JobIds
          PROVE  \/ job'[j].status = Status(j)
                 \/ Status(j) = "queued" /\ job'[j].status = "cancelled"
                 \/ Status(j) \in Owned /\ job'[j].status = "stopping"
      BY <1>2, <1>t DEF DeleteProject, Orphaned, StopRequested, IsActiveJob, ActiveJobs, JobRow
    <2>2. UnusedBeyondLast' BY <1>2, <2>1, <1>t DEF DeleteProject, UnusedBeyondLast
    <2>3. TaskShape' BY <1>2, <2>1 DEF DeleteProject, TaskShape
    <2> QED BY <2>2, <2>3
  <1>3. ASSUME NEW p \in Projects, NEW t \in JobTypes, Create(p, t)
        PROVE  TaskShape' /\ UnusedBeyondLast'
    <2>1. \A j \in JobIds : j # last + 1 => job'[j] = job[j] BY <1>3 DEF Create
    <2>2. UnusedBeyondLast' BY <1>3, <2>1, <1>t DEF Create, UnusedBeyondLast, TypeOK
    <2>3. worker = "running" => cur # last + 1 BY <1>t DEF TaskShape, TypeOK
    <2>4. TaskShape' BY <1>3, <2>1, <2>3 DEF Create, TaskShape
    <2> QED BY <2>2, <2>4
  <1>4. ASSUME NEW i \in JobIds, ClaimAndRun(i) \/ ClaimAndReject(i)
        PROVE  TaskShape' /\ UnusedBeyondLast'
    <2>1. Status(i) = "queued" BY <1>4 DEF ClaimAndRun, ClaimAndReject, Claimable,
                                           Scanned, Queued
    <2>2. \A j \in JobIds : j # i => job'[j] = job[j]
      <3>1. CASE ClaimAndRun(i) BY <3>1, <1>t DEF ClaimAndRun
      <3>2. CASE ClaimAndReject(i) BY <3>2, <1>t DEF ClaimAndReject
      <3> QED BY <1>4, <3>1, <3>2
    <2>3. UnusedBeyondLast'
      BY <1>4, <2>1, <2>2, <1>t DEF ClaimAndRun, ClaimAndReject, UnusedBeyondLast
    <2>4. ClaimAndRun(i) => job'[i].status = "running"
      BY <1>t DEF ClaimAndRun, Claimed, JobRow
    <2>5. TaskShape'
      BY <1>4, <2>4 DEF ClaimAndRun, ClaimAndReject, AtClaim, task, TaskShape
    <2> QED BY <2>3, <2>5
  <1>5. ASSUME NEW i \in JobIds, HandlerReturns(i) \/ HandlerRaises(i)
        PROVE  TaskShape' /\ UnusedBeyondLast'
    <2>1. Status(i) \in Owned BY <1>5 DEF HandlerReturns, HandlerRaises, Running, TaskShape
    <2>2. \A j \in JobIds : j # i => job'[j] = job[j]
      <3>1. CASE HandlerReturns(i) BY <3>1, <1>t DEF HandlerReturns
      <3>2. CASE HandlerRaises(i) BY <3>2, <1>t DEF HandlerRaises
      <3> QED BY <1>5, <3>1, <3>2
    <2>3. UnusedBeyondLast'
      BY <1>5, <2>1, <2>2, <1>t DEF HandlerReturns, HandlerRaises, UnusedBeyondLast
    <2>4. TaskShape' BY <1>5 DEF HandlerReturns, HandlerRaises, Running, RunEnds, TaskShape
    <2> QED BY <2>3, <2>4
  <1>6. CASE Heartbeat
    <2>1. \A j \in JobIds : job'[j].status = Status(j)
      BY <1>6, <1>t DEF Heartbeat, Renewed, JobRow
    <2> QED BY <1>6, <2>1, <1>t DEF Heartbeat, TaskShape, UnusedBeyondLast
  <1>7. CASE GraceExpires
    <2>1. Status(cur) \in Owned BY <1>7 DEF GraceExpires, TaskShape
    <2>2. \A j \in JobIds : j # cur => job'[j] = job[j] BY <1>7 DEF GraceExpires
    <2>3. UnusedBeyondLast' BY <1>7, <2>1, <2>2, <1>t DEF GraceExpires, UnusedBeyondLast
    <2>4. TaskShape' BY <1>7 DEF GraceExpires, RunEnds, TaskShape
    <2> QED BY <2>3, <2>4
  <1>8. CASE ShutdownEnds
    <2>1. \A j \in JobIds : Status(j) \in Owned \/ job'[j] = job[j]
      BY <1>8 DEF ShutdownEnds
    <2>2. UnusedBeyondLast' BY <1>8, <2>1, <1>t DEF ShutdownEnds, UnusedBeyondLast
    <2>3. TaskShape' BY <1>8 DEF ShutdownEnds, ProcessEnds, TaskShape
    <2> QED BY <2>2, <2>3
  <1>9. ASSUME NEW supported \in Versions, Boot(supported) PROVE TaskShape' /\ UnusedBeyondLast'
    <2> DEFINE S == Retryable(supported)
    <2>1. PICK id \in FreshIds(S) : \A j \in JobIds :
             \/ j \in Stale
             \/ \E i \in S : id[i] = j
             \/ job'[j] = job[j]
      BY <1>9, BootRows
    <2>2. Cardinality(S) \in Nat BY RetryableCount
    <2>3. last' = last + Cardinality(S) BY <1>9 DEF Boot
    <2>4. \A i \in S : id[i] <= last' BY <2>2, <2>3 DEF FreshIds, TypeOK
    <2> HIDE DEF S
    <2>5. \A j \in Stale : Status(j) # "unused" BY DEF Stale
    <2>6. UnusedBeyondLast'
      BY <2>1, <2>2, <2>3, <2>4, <2>5, <1>t, BoundAssumption DEF UnusedBeyondLast, TypeOK
    <2>7. TaskShape' BY <1>9 DEF Boot, TaskShape
    <2> QED BY <2>6, <2>7
  <1>10. CASE Tick
    <2>1. \A j \in JobIds : job'[j].status = Status(j) BY <1>10, <1>t DEF Tick, JobRow
    <2> QED BY <1>10, <2>1, <1>t DEF Tick, TaskShape, UnusedBeyondLast
  <1>11. CASE ClaimNothing \/ WakeUp \/ WorkerExits \/ ShutdownBegins \/ ShutdownFails \/ Crash
    BY <1>11 DEF ClaimNothing, WakeUp, WorkerExits, ShutdownBegins, ShutdownFails, Crash,
                 AtClaim, ProcessEnds, durable, TaskShape, UnusedBeyondLast
  <1>12. CASE Faults
    BY <1>12 DEF Faults, ClaimFails, RecordFails, HeartbeatFails, AtClaim, RunEnds, durable,
                 TaskShape, UnusedBeyondLast
  <1>13. CASE UNCHANGED vars BY <1>13 DEF vars, TaskShape, UnusedBeyondLast
  <1> QED BY <1>1, <1>2, <1>3, <1>4, <1>5, <1>6, <1>7, <1>8, <1>9, <1>10, <1>11, <1>12, <1>13
          DEF Next, Request, Claims, HandlerEnds, Shutdown

-----------------------------------------------------------------------------
(* What a step makes of a row that is in the table *)

\* Somebody answers for the row.
Cared(j) == Running(j) \/ faults > 0 \/ server = "down"

SameProject(j) == job'[j].project \in {job[j].project, NoProject}

\* Time passes over it, its lease is renewed, or its project is deleted.
Kept(j) ==
    /\ job'[j].status = Status(j)
    /\ job'[j].attempts = job[j].attempts
    /\ job'[j].cancel = job[j].cancel
    /\ job'[j].owner = job[j].owner
    /\ SameProject(j)
    /\ Status(j) \in Active => job'[j].project = job[j].project
    /\ Running(j) => Cared(j)'

\* Somebody asks for its end.
Asked(j) ==
    /\ Status(j) \in Active
    /\ job'[j].status = IF Status(j) = "queued" THEN "cancelled" ELSE "stopping"
    /\ job'[j].cancel
    /\ job'[j].attempts = job[j].attempts
    /\ job'[j].owner = job[j].owner
    /\ SameProject(j)
    /\ Running(j) => Running(j)'

\* The worker takes it, and runs it unless it has no project or no handler.
Taken(j) ==
    /\ Status(j) = "queued"
    /\ \/ job'[j].status = "running" /\ Cared(j)'
       \/ job'[j].status = "failed"
    /\ job'[j].attempts = job[j].attempts + 1
    /\ job'[j].cancel = job[j].cancel
    /\ job'[j].owner \in {inst, 0}
    /\ job'[j].project = job[j].project

\* It is given back: finished, or queued for another attempt.
GivenBack(j) ==
    /\ Status(j) \in Owned
    /\ job'[j].status \in Terminal \cup {"queued"}
    /\ job'[j].status = "succeeded" => Status(j) # "stopping"
    /\ job'[j].status = "queued" => ~ job[j].cancel /\ job[j].attempts < MaxAttempts
    /\ job'[j].attempts = job[j].attempts
    /\ job'[j].cancel = job[j].cancel
    /\ job'[j].owner = 0
    /\ job'[j].project = job[j].project

RowMoves == \A j \in JobIds : Kept(j) \/ Asked(j) \/ Taken(j) \/ GivenBack(j)

Insertion == \/ \E p \in Projects, t \in JobTypes : Create(p, t)
             \/ \E supported \in Versions : Boot(supported)

\* What the steps that insert no row do to every row: the ways a status, the
\* stop flag, the owner and the attempts may move, whichever handler did it.
LEMMA RowsMove ==
  ASSUME TypeOK, TaskShape, OneActiveJob, OrphansAreStopped, CancelledStaysStopped,
         [Next]_vars, ~ Insertion
  PROVE  RowMoves /\ inst' = inst /\ (server' # "down" => server # "down")
  <1>t. ASSUME NEW j \in JobIds PROVE job[j] \in JobRow /\ DOMAIN job = JobIds
    BY DEF TypeOK
  <1>s. \A j \in JobIds : job'[j] = job[j] /\ (Running(j) => Cared(j)') => Kept(j)
    BY DEF Kept, SameProject
  <1>1. ASSUME NEW p \in Projects, Stop(p) PROVE RowMoves
    <2>1. PICK i \in JobIds : IsActiveJob(p, i) /\ job' = [job EXCEPT ![i] = StopRequested(@)]
      BY <1>1 DEF Stop
    <2>2. Status(i) \in Active BY <2>1 DEF IsActiveJob, ActiveJobs
    <2>3. Asked(i)
      BY <1>1, <2>1, <2>2, <1>t DEF Stop, Asked, SameProject, StopRequested, Running, JobRow
    <2>4. ASSUME NEW j \in JobIds, j # i PROVE Kept(j)
      BY <1>1, <2>1, <2>4, <1>t, <1>s DEF Stop, Running, Cared
    <2> QED BY <2>3, <2>4 DEF RowMoves
  <1>2. ASSUME NEW p \in Projects, DeleteProject(p) PROVE RowMoves
    <2>1. \A j \in JobIds : Running(j) => Running(j)' BY <1>2 DEF DeleteProject, Running
    <2>2. ASSUME NEW j \in JobIds, IsActiveJob(p, j) PROVE Asked(j)
      <3>1. Status(j) \in Active BY <2>2 DEF IsActiveJob, ActiveJobs
      <3>2. job'[j] = Orphaned(StopRequested(job[j]), p) BY <1>2, <2>2 DEF DeleteProject
      <3> QED BY <2>1, <3>1, <3>2, <1>t DEF Asked, SameProject, Orphaned, StopRequested, JobRow
    <2>3. ASSUME NEW j \in JobIds, ~ IsActiveJob(p, j) PROVE Kept(j)
      <3>1. job'[j] = Orphaned(job[j], p) BY <1>2, <2>3 DEF DeleteProject
      <3>2. Status(j) \in Active => job[j].project # p
        <4> SUFFICES ASSUME Status(j) \in Active, job[j].project = p PROVE FALSE OBVIOUS
        <4>1. j \in ActiveJobs(p) BY DEF ActiveJobs
        <4>2. \A k \in ActiveJobs(p) : k = j
          BY ProjectAssumption DEF ActiveJobs, OneActiveJob
        <4>3. j <= j BY DEF JobIds
        <4> QED BY <2>3, <4>1, <4>2, <4>3 DEF IsActiveJob
      <3> QED BY <2>1, <3>1, <3>2, <1>t DEF Kept, Cared, SameProject, Orphaned, JobRow
    <2> QED BY <2>2, <2>3 DEF RowMoves
  <1>4. ASSUME NEW i \in JobIds, ClaimAndRun(i) \/ ClaimAndReject(i)
        PROVE  RowMoves
    <2>1. Status(i) = "queued"
      BY <1>4 DEF ClaimAndRun, ClaimAndReject, Claimable, Scanned, Queued
    <2>2. \A j \in JobIds : ~ Running(j)
      BY <1>4 DEF ClaimAndRun, ClaimAndReject, AtClaim, Running
    <2>3. ASSUME NEW j \in JobIds, j # i PROVE Kept(j)
      <3>1. job'[j] = job[j]
        BY <1>4, <2>3, <1>t DEF ClaimAndRun, ClaimAndReject
      <3> QED BY <2>2, <3>1, <1>s
    <2>4. CASE ClaimAndRun(i)
      <3>1. Cared(i)' BY <2>4 DEF ClaimAndRun, Cared, Running
      <3>2. job'[i] = Claimed(job[i]) BY <2>4, <1>t DEF ClaimAndRun
      <3>3. Taken(i) BY <2>1, <3>1, <3>2, <1>t DEF Taken, Claimed, JobRow
      <3> QED BY <2>3, <3>3 DEF RowMoves
    <2>5. CASE ClaimAndReject(i)
      <3>1. job'[i] = Rejected(job[i]) BY <2>5, <1>t DEF ClaimAndReject
      <3>2. job[i].project # NoProject
        BY <2>1 DEF OrphansAreStopped, CancelledStaysStopped, Active
      <3>3. Taken(i) BY <2>1, <3>1, <3>2, <1>t DEF Taken, Rejected, Released, Claimed, JobRow
      <3> QED BY <2>3, <3>3 DEF RowMoves
    <2> QED BY <1>4, <2>4, <2>5
  <1>5. ASSUME NEW i \in JobIds, HandlerReturns(i) \/ HandlerRaises(i) PROVE RowMoves
    <2>1. Status(i) \in Owned BY <1>5 DEF HandlerReturns, HandlerRaises, Running, TaskShape
    <2>2. ASSUME NEW j \in JobIds, j # i PROVE Kept(j)
      <3>1. job'[j] = job[j] BY <1>5, <2>2, <1>t DEF HandlerReturns, HandlerRaises
      <3>2. ~ Running(j) BY <1>5, <2>2 DEF HandlerReturns, HandlerRaises, Running
      <3> QED BY <3>1, <3>2, <1>s
    <2>3. CASE HandlerReturns(i)
      <3>1. job'[i] = Released(job[i], Outcome(job[i])) BY <2>3, <1>t DEF HandlerReturns
      <3>2. /\ Outcome(job[i]) \in Terminal
            /\ Outcome(job[i]) = "succeeded" => Status(i) # "stopping"
        BY DEF Outcome
      <3>3. GivenBack(i) BY <2>1, <3>1, <3>2, <1>t DEF GivenBack, Released, JobRow
      <3> QED BY <2>2, <3>3 DEF RowMoves
    <2>4. CASE HandlerRaises(i)
      <3>1. job'[i] = FailOrRequeue(job[i]) BY <2>4, <1>t DEF HandlerRaises
      <3>2. GivenBack(i)
        BY <2>1, <3>1, <1>t, AttemptAssumption
        DEF GivenBack, FailOrRequeue, Requeued, Released, JobRow
      <3> QED BY <2>2, <3>2 DEF RowMoves
    <2> QED BY <1>5, <2>3, <2>4
  <1>6. ASSUME Heartbeat PROVE RowMoves
    <2>1. ASSUME NEW j \in JobIds PROVE Kept(j)
      BY <1>6, <1>t DEF Heartbeat, Renewed, Kept, SameProject, Cared, Running, JobRow
    <2> QED BY <2>1 DEF RowMoves
  <1>7. ASSUME GraceExpires PROVE RowMoves
    <2>1. cur \in JobIds /\ Status(cur) \in Owned BY <1>7 DEF GraceExpires, TaskShape
    <2>2. job' = [job EXCEPT ![cur] = Released(@, "interrupted")] BY <1>7, <2>1 DEF GraceExpires
    <2>3. GivenBack(cur) BY <2>1, <2>2, <1>t DEF GivenBack, Released, JobRow
    <2>4. ASSUME NEW j \in JobIds, j # cur PROVE Kept(j)
      BY <2>2, <2>4, <1>t, <1>s DEF Running
    <2> QED BY <2>3, <2>4 DEF RowMoves
  <1>8. ASSUME ShutdownEnds PROVE RowMoves
    <2>1. ASSUME NEW j \in JobIds PROVE Kept(j) \/ GivenBack(j)
      <3>1. CASE Status(j) \in Owned /\ job[j].owner = inst
        <4>1. job'[j] = Released(job[j], "interrupted") BY <1>8, <3>1 DEF ShutdownEnds
        <4> QED BY <3>1, <4>1, <1>t DEF GivenBack, Released, JobRow
      <3>2. CASE ~ (Status(j) \in Owned /\ job[j].owner = inst)
        BY <1>8, <3>2, <1>s DEF ShutdownEnds, Running
      <3> QED BY <3>1, <3>2
    <2> QED BY <2>1 DEF RowMoves
  <1>10. ASSUME Tick PROVE RowMoves
    <2>1. ASSUME NEW j \in JobIds PROVE Kept(j)
      BY <1>10, <1>t DEF Tick, Kept, SameProject, Cared, Running, JobRow
    <2> QED BY <2>1 DEF RowMoves
  <1>11. ASSUME ClaimNothing \/ WakeUp \/ WorkerExits \/ ShutdownBegins \/ ShutdownFails \/ Crash
         PROVE  RowMoves
    <2>1. ASSUME NEW j \in JobIds PROVE Kept(j)
      BY <1>11, <1>s DEF ClaimNothing, WakeUp, WorkerExits, ShutdownBegins, ShutdownFails, Crash,
                   AtClaim, ProcessEnds, durable, Running, Cared
    <2> QED BY <2>1 DEF RowMoves
  <1>12. ASSUME Faults PROVE RowMoves
    <2>1. faults' > 0 BY <1>12 DEF Faults, ClaimFails, RecordFails, HeartbeatFails, Fault, TypeOK
    <2>2. ASSUME NEW j \in JobIds PROVE Kept(j)
      BY <1>12, <2>1, <1>s DEF Faults, ClaimFails, RecordFails, HeartbeatFails, durable, Cared
    <2> QED BY <2>2 DEF RowMoves
  <1>13. ASSUME UNCHANGED vars PROVE RowMoves
    <2>1. ASSUME NEW j \in JobIds PROVE Kept(j) BY <1>13, <1>s DEF vars, Running, Cared
    <2> QED BY <2>1 DEF RowMoves
  <1>14. RowMoves
    BY <1>1, <1>2, <1>4, <1>5, <1>6, <1>7, <1>8, <1>10, <1>11, <1>12, <1>13
    DEF Next, Request, Claims, HandlerEnds, Shutdown, Insertion
  <1>15. inst' = inst /\ (server' # "down" => server # "down")
    BY DEF Next, Request, Claims, HandlerEnds, Shutdown, Faults, Insertion, Stop, DeleteProject,
           ClaimNothing, ClaimAndRun, ClaimAndReject, WakeUp, HandlerReturns,
           HandlerRaises, Heartbeat, ShutdownBegins, WorkerExits, GraceExpires, ShutdownEnds,
           ShutdownFails, ProcessEnds, ClaimFails, RecordFails, HeartbeatFails, Crash, Tick, vars
  <1> QED BY <1>14, <1>15

\* What the two steps that insert rows do to every row.
LEMMA RowsInserted ==
  ASSUME TypeOK, UnusedBeyondLast, Insertion, NEW j \in JobIds
  PROVE  \/ job'[j] = job[j]
         \/ /\ Status(j) \in Owned /\ inst' = inst + 1
            /\ job'[j] = Released(job[j], "interrupted")
         \/ /\ Status(j) = "unused"
            /\ \E p \in Projects, t \in JobTypes :
                  \/ job'[j] = NewRow(p, t, 0) /\ inst' = inst
                  \/ /\ inst' = inst + 1
                     /\ \E i \in JobIds :
                            Status(i) \in Owned /\ job'[j] = NewRow(p, t, job[i].attempts)
  <1>1. CASE \E p \in Projects, t \in JobTypes : Create(p, t)
    <2>1. PICK p \in Projects, t \in JobTypes : Create(p, t) BY <1>1
    <2>2. CASE j = last + 1 BY <2>1, <2>2 DEF Create, UnusedBeyondLast, TypeOK
    <2>3. CASE j # last + 1 BY <2>1, <2>3 DEF Create, TypeOK
    <2> QED BY <2>2, <2>3
  <1>2. ASSUME NEW supported \in Versions, Boot(supported)
        PROVE  \/ job'[j] = job[j]
               \/ /\ Status(j) \in Owned /\ inst' = inst + 1
                  /\ job'[j] = Released(job[j], "interrupted")
               \/ /\ Status(j) = "unused"
                  /\ \E p \in Projects, t \in JobTypes :
                        /\ inst' = inst + 1
                        /\ \E i \in JobIds :
                              Status(i) \in Owned /\ job'[j] = NewRow(p, t, job[i].attempts)
    <2>1. inst' = inst + 1 BY <1>2 DEF Boot
    <2>2. CASE j \in Stale /\ job'[j] = Released(job[j], "interrupted")
      BY <2>1, <2>2 DEF Stale
    <2>3. ASSUME j > last,
                 NEW i \in Retryable(supported),
                 job'[j] = NewRow(job[i].project, job[i].type, job[i].attempts)
          PROVE  /\ Status(j) = "unused"
                 /\ \E p \in Projects, t \in JobTypes, k \in JobIds :
                       Status(k) \in Owned /\ job'[j] = NewRow(p, t, job[k].attempts)
      <3>1. i \in JobIds /\ Status(i) \in Owned BY RetryableCount DEF Retryable, Stale
      <3>2. /\ job[i].project \in Projects
            /\ job[i].type \in JobTypes /\ job[i].attempts \in Nat
        BY <3>1 DEF TypeOK, JobRow, Retryable
      <3>3. Status(j) = "unused" BY <2>3 DEF UnusedBeyondLast
      <3> QED BY <2>3, <3>1, <3>2, <3>3
    <2> QED BY <1>2, <2>1, <2>2, <2>3, BootRows
  <1> QED BY <1>1, <1>2 DEF Insertion

-----------------------------------------------------------------------------
(* The properties of single rows *)

\* The invariants that speak of one row at a time (owners, attempts, stop flags)
\* are preserved by each of those moves.
LEMMA RowInvStep ==
  ASSUME TypeOK, TypeOK', TaskShape, UnusedBeyondLast, [Next]_vars,
         OneActiveJob, OwnersBooted, OrphansAreStopped, StoppingWasAsked, NothingBeforeBoot,
         QueuedHasAttempt, AttemptsWithinLimit, CancelledStaysStopped
  PROVE  /\ OwnersBooted' /\ OrphansAreStopped' /\ StoppingWasAsked' /\ QueuedHasAttempt'
         /\ AttemptsWithinLimit' /\ CancelledStaysStopped'
  <1> DEFINE Limit(n) == MaxAttempts + (IF n > 1 THEN n - 1 ELSE 0)
             Good(row, n) ==
        /\ row.owner <= n
        /\ row.attempts <= Limit(n)
        /\ row.status = "queued" => row.attempts < Limit(n)
        /\ row.cancel => row.status \in {"stopping", "cancelled", "failed", "interrupted"}
        /\ row.status \in Active /\ row.project = NoProject => row.cancel
        /\ row.status = "stopping" => row.cancel
  <1>t. ASSUME NEW j \in JobIds
        PROVE  /\ job[j] \in JobRow /\ job'[j] \in JobRow
               /\ Good(job[j], inst)
    BY DEF TypeOK, OwnersBooted, OrphansAreStopped, StoppingWasAsked, QueuedHasAttempt, AttemptsWithinLimit,
           Restarts, CancelledStaysStopped
  <1>n. inst \in Nat /\ inst' \in Nat /\ MaxAttempts \in Nat /\ MaxAttempts >= 1
    BY AttemptAssumption, BoundAssumption DEF TypeOK
  <1>1. ASSUME Insertion, NEW j \in JobIds PROVE Good(job'[j], inst')
    <2>1. inst' >= inst BY <1>1, <1>n DEF Insertion, Create, Boot
    <2>2. CASE job'[j] = job[j] BY <2>1, <2>2, <1>t, <1>n DEF JobRow
    <2>3. CASE job'[j] = Released(job[j], "interrupted")
      BY <2>1, <2>3, <1>t, <1>n DEF Released, JobRow
    <2>4. ASSUME NEW p \in Projects, NEW t, job'[j] = NewRow(p, t, 0) PROVE Good(job'[j], inst')
      <3>1. /\ job'[j].owner = 0 /\ job'[j].attempts = 0 /\ ~ job'[j].cancel
            /\ job'[j].project # NoProject /\ job'[j].status = "queued"
        BY <2>4, ProjectAssumption DEF NewRow
      <3>2. \A n \in Nat : 0 <= n /\ 0 <= Limit(n) /\ 0 < Limit(n)
        BY AttemptAssumption
      <3>3. 0 <= inst' /\ 0 <= Limit(inst') /\ 0 < Limit(inst') BY <3>2, <1>n
      <3> QED BY <3>1, <3>3
    <2>5. ASSUME NEW p \in Projects, NEW t, NEW i \in JobIds, Status(i) \in Owned, inst' = inst + 1,
                 job'[j] = NewRow(p, t, job[i].attempts)
          PROVE  Good(job'[j], inst')
      <3>1. inst # 0
        <4>1. last \in 0..MaxJobs /\ i > 0 BY DEF TypeOK, JobIds
        <4>2. i > last => Status(i) \notin Owned BY DEF UnusedBeyondLast, Owned
        <4> QED BY <4>1, <4>2, <2>5 DEF NothingBeforeBoot
      <3>2. job[i].attempts \in Nat /\ job[i].attempts <= Limit(inst)
        BY <1>t DEF JobRow
      <3>3. \A m, n \in Nat : n # 0 /\ m <= Limit(n) => m < Limit(n + 1) /\ 0 <= n + 1
        BY AttemptAssumption
      <3>4. job[i].attempts < Limit(inst') /\ 0 <= inst' BY <2>5, <3>1, <3>2, <3>3, <1>n
      <3>5. /\ job'[j].owner = 0 /\ job'[j].attempts = job[i].attempts /\ ~ job'[j].cancel
            /\ job'[j].project # NoProject /\ job'[j].status = "queued"
        BY <2>5, ProjectAssumption DEF NewRow
      <3>6. \A m \in Nat, k \in Int : m < k => m <= k OBVIOUS
      <3>7. Limit(inst') \in Int BY <1>n
      <3> QED BY <3>2, <3>4, <3>5, <3>6, <3>7
    <2> QED BY <1>1, <2>2, <2>3, <2>4, <2>5, RowsInserted
  <1>2. ASSUME ~ Insertion, NEW j \in JobIds PROVE Good(job'[j], inst')
    <2>1. inst' = inst /\ (Kept(j) \/ Asked(j) \/ Taken(j) \/ GivenBack(j))
      BY <1>2, RowsMove DEF RowMoves
    <2>2. CASE Kept(j) BY <2>1, <2>2, <1>t DEF Kept
    <2>3. CASE Asked(j) BY <2>1, <2>3, <1>t DEF Asked
    <2>4. CASE Taken(j) BY <2>1, <2>4, <1>t, <1>n DEF Taken, JobRow
    <2>5. CASE GivenBack(j) BY <2>1, <2>5, <1>t, <1>n DEF GivenBack, JobRow
    <2> QED BY <2>1, <2>2, <2>3, <2>4, <2>5
  <1>3. ASSUME NEW j \in JobIds PROVE Good(job'[j], inst') BY <1>1, <1>2
  <1> QED BY <1>3 DEF OwnersBooted, OrphansAreStopped, StoppingWasAsked, QueuedHasAttempt, AttemptsWithinLimit,
                      Restarts, CancelledStaysStopped

\* A process that inserts rows has been booted, and no row is older than the
\* first boot.
LEMMA BeforeBootStep ==
  ASSUME TypeOK, TaskShape, OneActiveJob, OrphansAreStopped, CancelledStaysStopped,
         NothingBeforeBoot, [Next]_vars
  PROVE  NothingBeforeBoot'
  <1>1. CASE Insertion BY <1>1, BoundAssumption DEF TypeOK, Insertion, Create, Boot, NothingBeforeBoot
  <1>2. CASE ~ Insertion
    <2>1. last' = last
      BY <1>2 DEF Next, Insertion, Request, Claims, HandlerEnds, Shutdown, Faults, Stop,
         DeleteProject, ClaimNothing, ClaimAndRun, ClaimAndReject, WakeUp,
         HandlerReturns, HandlerRaises, Heartbeat, ShutdownBegins, WorkerExits, GraceExpires,
         ShutdownEnds, ShutdownFails, ClaimFails, RecordFails, HeartbeatFails, Crash, Tick,
         durable, vars
    <2>2. inst' = inst /\ (server' # "down" => server # "down") BY <1>2, RowsMove
    <2> QED BY <2>1, <2>2 DEF NothingBeforeBoot
  <1> QED BY <1>1, <1>2

-----------------------------------------------------------------------------
(* One active row per project *)

Holds(j, p) == job[j].project = p /\ Status(j) \in Active

\* No step makes a second active row of a project: create() looks first, and
\* recover() ends a row before it queues its copy.
LEMMA OneActiveStep ==
  ASSUME TypeOK, TypeOK', TaskShape, UnusedBeyondLast, OneActiveJob, OrphansAreStopped,
         CancelledStaysStopped, [Next]_vars
  PROVE  OneActiveJob'
  <1> SUFFICES ASSUME NEW p \in Projects, NEW i \in JobIds, NEW j \in JobIds,
                      Holds(i, p)', Holds(j, p)'
               PROVE  i = j
    BY ProjectAssumption DEF OneActiveJob, TypeOK, JobRow, Holds
  <1>0. \A k, l \in JobIds : Holds(k, p) /\ Holds(l, p) => k = l
    BY ProjectAssumption DEF OneActiveJob, Holds
  <1>t. ASSUME NEW k \in JobIds PROVE job[k] \in JobRow BY DEF TypeOK
  <1>1. CASE ~ Insertion
    <2>1. ASSUME NEW k \in JobIds, Holds(k, p)' PROVE Holds(k, p)
      <3>1. Kept(k) \/ Asked(k) \/ Taken(k) \/ GivenBack(k) BY <1>1, RowsMove DEF RowMoves
      <3> QED BY <2>1, <3>1, ProjectAssumption DEF Kept, Asked, Taken, GivenBack, SameProject, Holds
    <2> QED BY <2>1, <1>0
  <1>2. ASSUME NEW q \in Projects, NEW t \in JobTypes, Create(q, t) PROVE i = j
    <2>1. \A k \in JobIds : k # last + 1 => job'[k] = job[k] BY <1>2 DEF Create, TypeOK
    <2>2. last + 1 \in JobIds => job'[last + 1].project = q
      BY <1>2 DEF Create, NewRow, TypeOK
    <2>3. \A k \in JobIds : ~ Holds(k, q) BY <1>2 DEF Create, ActiveJobs, Holds
    <2> QED BY <2>1, <2>2, <2>3, <1>0 DEF Holds
  <1>3. ASSUME NEW supported \in Versions, Boot(supported) PROVE i = j
    <2> DEFINE S == Retryable(supported)
               Copy(k, o) == o \in S /\ job'[k].project = job[o].project
    <2>1. PICK id \in FreshIds(S) : \A k \in JobIds :
             \/ k \in Stale /\ job'[k] = Released(job[k], "interrupted")
             \/ /\ k \notin Stale /\ k > last
                /\ \E o \in S :
                      /\ id[o] = k
                      /\ job'[k] = NewRow(job[o].project, job[o].type, job[o].attempts)
             \/ /\ k \notin Stale /\ job'[k] = job[k]
                /\ ~ \E o \in S : id[o] = k
      BY <1>3, BootRows
    <2>2. ASSUME NEW k \in JobIds, Holds(k, p)'
          PROVE  \E o \in JobIds : /\ Holds(o, p)
                                   /\ \/ o \in S /\ id[o] = k
                                      \/ o = k /\ k \notin Stale
      <3>1. CASE k \in Stale /\ job'[k] = Released(job[k], "interrupted")
        BY <2>2, <3>1, <1>t DEF Released, JobRow, Holds
      <3>2. ASSUME NEW o \in S, id[o] = k,
                   job'[k] = NewRow(job[o].project, job[o].type, job[o].attempts)
            PROVE  o \in JobIds /\ Holds(o, p)
        BY <2>2, <3>2 DEF NewRow, Retryable, Stale, Holds
      <3>3. CASE k \notin Stale /\ job'[k] = job[k] BY <2>2, <3>3 DEF Holds
      <3> QED BY <2>1, <3>1, <3>2, <3>3
    <2>3. PICK o1 \in JobIds : /\ Holds(o1, p)
                               /\ (o1 \in S /\ id[o1] = i) \/ (o1 = i /\ i \notin Stale)
      BY <2>2
    <2>4. PICK o2 \in JobIds : /\ Holds(o2, p)
                               /\ (o2 \in S /\ id[o2] = j) \/ (o2 = j /\ j \notin Stale)
      BY <2>2
    <2>5. Holds(o1, p) /\ Holds(o2, p) BY <2>3, <2>4
    <2>7. o1 = o2 BY <2>5, <1>0
    <2>6. S \subseteq Stale BY DEF Retryable
    <2> HIDE DEF S
    <2> QED BY <2>3, <2>4, <2>7, <2>6
  <1> QED BY <1>1, <1>2, <1>3 DEF Insertion

-----------------------------------------------------------------------------
(* No row of this process is left behind, and no lease of a live run lapses *)

\* A row the process owns stays in the hands of its worker: the end of a run
\* releases it in the same step, and a new process owns no row.
LEMMA NoStrandedStep ==
  ASSUME TypeOK, TypeOK', TaskShape, UnusedBeyondLast, OwnersBooted, OneActiveJob,
         OrphansAreStopped, CancelledStaysStopped, NoStrandedRun, [Next]_vars
  PROVE  NoStrandedRun'
  <1> SUFFICES ASSUME NEW j \in JobIds,
                      server' # "down", job'[j].status \in Owned, job'[j].owner = inst'
               PROVE  Running(j)' \/ faults' > 0
    BY DEF NoStrandedRun
  <1>t. /\ job[j] \in JobRow /\ job[j].owner <= inst
        /\ inst \in Nat /\ faults \in Nat /\ faults' \in Nat /\ faults' >= faults
    <2>1. faults' = faults \/ faults' = faults + 1
      BY DEF Next, Request, Claims, HandlerEnds, Shutdown, Faults, Stop, DeleteProject, Create,
          ClaimNothing, ClaimAndRun, ClaimAndReject, WakeUp, HandlerReturns,
          HandlerRaises, Heartbeat, ShutdownBegins, WorkerExits, GraceExpires, ShutdownEnds,
          ShutdownFails, Fault, ClaimFails, RecordFails, HeartbeatFails, Crash, Boot, Tick, vars
    <2>2. faults \in Nat BY BoundAssumption DEF TypeOK
    <2> QED BY <2>1, <2>2, BoundAssumption DEF TypeOK, OwnersBooted
  <1>f. faults > 0 => faults' > 0 BY <1>t
  <1>1. CASE ~ Insertion
    <2>1. /\ inst' = inst /\ server # "down"
          /\ Kept(j) \/ Asked(j) \/ Taken(j) \/ GivenBack(j)
      BY <1>1, RowsMove DEF RowMoves
    <2>2. CASE Kept(j)
      <3>1. Running(j) \/ faults > 0
        BY <2>1, <2>2 DEF Kept, NoStrandedRun
      <3>2. Running(j) => Cared(j)' BY <2>2 DEF Kept
      <3> QED BY <3>1, <3>2, <1>f, Zenon DEF Cared
    <2>3. CASE Asked(j)
      <3>1. Running(j) \/ faults > 0
        BY <2>1, <2>3 DEF Asked, NoStrandedRun
      <3>2. Running(j) => Running(j)' BY <2>3 DEF Asked
      <3> QED BY <3>1, <3>2, <1>f, Zenon
    <2>4. CASE Taken(j) BY <2>4 DEF Taken, Cared
    <2>5. CASE GivenBack(j) BY <2>5 DEF GivenBack
    <2> QED BY <2>1, <2>2, <2>3, <2>4, <2>5
  <1>2. CASE Insertion
    <2>1. job'[j] = job[j]
      <3>1. Released(job[j], "interrupted").status = "interrupted"
        BY <1>t DEF Released, JobRow
      <3>2. \A p, t, n : NewRow(p, t, n).status = "queued" BY DEF NewRow
      <3> QED BY <1>2, <3>1, <3>2, RowsInserted
    <2>2. CASE \E p \in Projects, t \in JobTypes : Create(p, t)
      <3>1. server = "up" /\ inst' = inst /\ (Running(j) => Running(j)')
        BY <2>2 DEF Create, Running
      <3>2. Running(j) \/ faults > 0
        BY <2>1, <3>1 DEF NoStrandedRun
      <3> QED BY <2>1, <3>1, <3>2, <1>f, Zenon
    <2>3. CASE \E supported \in Versions : Boot(supported)
      BY <2>1, <2>3, <1>t DEF Boot
    <2> QED BY <1>2, <2>2, <2>3 DEF Insertion
  <1> QED BY <1>1, <1>2

\* _heartbeat() renews on the clock the lease runs on: lease and sleep always add
\* up to LEASE_SECONDS.
LEMMA LeaseStep ==
  ASSUME TypeOK, TypeOK', TaskShape, TaskShape', UnusedBeyondLast, LeaseClock, [Next]_vars
  PROVE  LeaseClock'
  <1> SUFFICES ASSUME beat' = "live" PROVE job'[cur'].lease + age' = Lease
    BY DEF LeaseClock
  <1>t. ASSUME NEW j \in JobIds PROVE job[j] \in JobRow /\ DOMAIN job = JobIds
    BY DEF TypeOK
  <1>0. ASSUME beat = "live", cur' = cur, age' = age, job'[cur].lease = job[cur].lease
        PROVE  job'[cur'].lease + age' = Lease
    BY <1>0 DEF LeaseClock
  <1>r. beat = "live" => cur \in JobIds /\ Status(cur) \in Owned BY DEF TaskShape
  <1>1. ASSUME NEW p \in Projects, Stop(p) PROVE job'[cur'].lease + age' = Lease
    <2>1. \A j \in JobIds : job'[j].lease = job[j].lease
      BY <1>1, <1>t DEF Stop, StopRequested, JobRow
    <2> QED BY <1>1, <2>1, <1>0, <1>r DEF Stop
  <1>2. ASSUME NEW p \in Projects, DeleteProject(p) PROVE job'[cur'].lease + age' = Lease
    <2>1. \A j \in JobIds : job'[j].lease = job[j].lease
      BY <1>2, <1>t DEF DeleteProject, Orphaned, StopRequested, JobRow
    <2> QED BY <1>2, <2>1, <1>0, <1>r DEF DeleteProject
  <1>3. ASSUME NEW p \in Projects, NEW t \in JobTypes, Create(p, t)
        PROVE  job'[cur'].lease + age' = Lease
    <2>1. beat = "live" /\ cur' = cur /\ age' = age BY <1>3 DEF Create
    <2>2. cur # last + 1 BY <2>1, <1>r DEF UnusedBeyondLast, TypeOK
    <2>3. job'[cur] = job[cur] BY <1>3, <2>1, <2>2, <1>r, <1>t DEF Create
    <2> QED BY <2>1, <2>3, <1>0
  <1>4. ASSUME NEW i \in JobIds, ClaimAndRun(i) PROVE job'[cur'].lease + age' = Lease
    <2>1. job'[i] = Claimed(job[i]) /\ cur' = i /\ age' = 0 BY <1>4, <1>t DEF ClaimAndRun
    <2>2. Claimed(job[i]).lease = Lease BY <1>t DEF Claimed, JobRow
    <2> QED BY <2>1, <2>2, TimingAssumption
  <1>5. CASE Heartbeat
    <2>1. beat = "live" /\ cur' = cur /\ age' = 0 BY <1>5 DEF Heartbeat
    <2>2. job'[cur] = Renewed(job[cur]) BY <1>5, <2>1, <1>r, <1>t DEF Heartbeat
    <2>3. Renewed(job[cur]).lease = Lease BY <2>1, <1>r, <1>t DEF Renewed, JobRow
    <2> QED BY <2>1, <2>2, <2>3, TimingAssumption
  <1>6. CASE Tick
    <2>1. beat = "live" /\ cur' = cur /\ age' = age + 1 /\ age < Beat + Late
      BY <1>6 DEF Tick, Asleep
    <2>2. job'[cur].lease = OneTickLess(job[cur].lease)
      BY <1>6, <2>1, <1>r, <1>t DEF Tick, JobRow
    <2> DEFINE l == job[cur].lease
    <2>3. l \in Nat /\ age \in Nat /\ l + age = Lease
      <3>1. l \in 0..Lease BY <2>1, <1>r, <1>t DEF JobRow
      <3>2. age \in 0..(Beat + Late) BY DEF TypeOK
      <3>3. l + age = Lease BY <2>1 DEF LeaseClock
      <3> QED BY <3>1, <3>2, <3>3
    <2> HIDE DEF l
    <2>4. \A m, n \in Nat : m + n = Lease /\ n < Beat + Late => OneTickLess(m) + (n + 1) = Lease
      BY TimingAssumption DEF OneTickLess
    <2>5. OneTickLess(l) + (age + 1) = Lease BY <2>1, <2>3, <2>4
    <2> QED BY <2>1, <2>2, <2>5 DEF l
  <1>7. CASE ShutdownBegins
    BY <1>7, <1>0 DEF ShutdownBegins, durable
  <1>8. CASE UNCHANGED vars BY <1>8, <1>0 DEF vars
  <1>9. ASSUME \/ WakeUp \/ WorkerExits \/ ClaimNothing \/ ClaimFails
               \/ \E i \in JobIds : ClaimAndReject(i)
               \/ HandlerEnds \/ GraceExpires \/ RecordFails \/ HeartbeatFails
               \/ ShutdownEnds \/ ShutdownFails \/ Crash
               \/ \E supported \in Versions : Boot(supported)
        PROVE  FALSE
    <2>1. worker' = "running" BY DEF TaskShape
    <2>2. worker # "running" => beat = "off" BY DEF TaskShape
    <2> QED BY <1>9, <2>1, <2>2 DEF WakeUp, WorkerExits, ClaimNothing, ClaimFails, ClaimAndReject,
               AtClaim, task, HandlerEnds, HandlerReturns, HandlerRaises,
               GraceExpires, RecordFails, HeartbeatFails, RunEnds, ShutdownEnds, ShutdownFails,
               Crash, ProcessEnds, Boot
  <1> QED BY <1>1, <1>2, <1>3, <1>4, <1>5, <1>6, <1>7, <1>8, <1>9
          DEF Next, Request, Claims, Shutdown, Faults

-----------------------------------------------------------------------------
(* The invariant, and the theorems of the specification *)

\* The inductive invariant holds of an empty table.
LEMMA InductiveInit == Init => Inductive
  <1> SUFFICES ASSUME Init PROVE Inductive OBVIOUS
  <1>1. TypeOK BY TypeInit
  <1>2. ASSUME NEW j \in JobIds
        PROVE  /\ Status(j) = "unused" /\ ~ job[j].cancel
               /\ job[j].owner = 0 /\ job[j].attempts = 0
    BY DEF Init, NewRow
  <1>3. inst = 0 /\ beat = "off" /\ worker = "none" /\ cur = NoJob BY DEF Init
  <1>4. UnusedBeyondLast /\ TaskShape /\ LeaseClock
    BY <1>2, <1>3 DEF UnusedBeyondLast, TaskShape, LeaseClock
  <1>0. NothingBeforeBoot BY DEF Init, NothingBeforeBoot
  <1>r. Restarts = 0 BY <1>3 DEF Restarts
  <1>5. OwnersBooted /\ QueuedHasAttempt /\ AttemptsWithinLimit
    BY <1>2, <1>3, <1>r, AttemptAssumption
       DEF OwnersBooted, QueuedHasAttempt, AttemptsWithinLimit
  <1>6. OneActiveJob /\ OrphansAreStopped /\ StoppingWasAsked /\ CancelledStaysStopped /\ NoStrandedRun
    BY <1>2 DEF OneActiveJob, OrphansAreStopped, StoppingWasAsked, CancelledStaysStopped, NoStrandedRun
  <1> QED BY <1>0, <1>1, <1>4, <1>5, <1>6 DEF Inductive

\* Every step, and a stuttering one, preserves the inductive invariant.
LEMMA InductiveStep == Inductive /\ [Next]_vars => Inductive'
  <1> SUFFICES ASSUME Inductive, [Next]_vars PROVE Inductive' OBVIOUS
  <1> USE DEF Inductive
  <1>1. TypeOK' BY TypeStep
  <1>2. TaskShape' /\ UnusedBeyondLast' BY ShapeStep
  <1>3. LeaseClock' BY <1>1, <1>2, LeaseStep
  <1>4. /\ OwnersBooted' /\ OrphansAreStopped' /\ StoppingWasAsked' /\ QueuedHasAttempt'
        /\ AttemptsWithinLimit' /\ CancelledStaysStopped'
    BY <1>1, RowInvStep
  <1>7. NothingBeforeBoot' BY BeforeBootStep
  <1>5. OneActiveJob' BY <1>1, OneActiveStep
  <1>6. NoStrandedRun' BY <1>1, NoStrandedStep
  <1> QED BY <1>1, <1>2, <1>3, <1>4, <1>5, <1>6, <1>7

\* Every reachable state of the queue satisfies the inductive invariant; the
\* theorems below read its conjuncts.
THEOREM QueueInvariant == Spec => []Inductive
  <1> QED BY InductiveInit, InductiveStep, PTL DEF Spec

\* The type of every variable of the job manager.
THEOREM TypeCorrect == Spec => []TypeOK
  <1>1. Inductive => TypeOK BY DEF Inductive
  <1> QED BY QueueInvariant, <1>1, PTL

\* manager.py never writes a second active row of a project, whatever requests,
\* retries, deletions and recoveries come before: the partial unique index of
\* models.py is a second line of defence that is never reached.
THEOREM AtMostOneActiveJob == Spec => []OneActiveJob
  <1>1. Inductive => OneActiveJob BY DEF Inductive
  <1> QED BY QueueInvariant, <1>1, PTL

\* _heartbeat() keeps the lease of its run from lapsing, as long as the event
\* loop is late by less than LEASE_SECONDS - HEARTBEAT_SECONDS.
THEOREM LiveRunIsLeased == Spec => []RunIsLeased
  <1>1. ASSUME Inductive PROVE RunIsLeased
    <2> SUFFICES ASSUME beat = "live" PROVE job[cur].lease > 0 BY DEF RunIsLeased
    <2>1. cur \in JobIds BY <1>1 DEF Inductive, TaskShape
    <2>2. job[cur].lease \in 0..Lease BY <1>1, <2>1 DEF Inductive, TypeOK, JobRow
    <2>3. age \in 0..(Beat + Late) BY <1>1 DEF Inductive, TypeOK
    <2>4. job[cur].lease + age = Lease BY <1>1 DEF Inductive, LeaseClock
    <2>5. \A m \in 0..Lease, n \in 0..(Beat + Late) : m + n = Lease => m > 0
      BY TimingAssumption
    <2> QED BY <2>2, <2>3, <2>4, <2>5
  <1> QED BY QueueInvariant, <1>1, PTL

\* stop() is obeyed on every path of the row: result, failure, retry, shutdown
\* and recovery.
THEOREM StopIsObeyed == Spec => []CancelledStaysStopped
  <1>1. Inductive => CancelledStaysStopped BY DEF Inductive
  <1> QED BY QueueInvariant, <1>1, PTL

\* The retry limit of _fail_or_requeue(), with what recover() adds to it.
THEOREM AttemptsAreBounded == Spec => []AttemptsWithinLimit
  <1>1. Inductive => AttemptsWithinLimit BY DEF Inductive
  <1> QED BY QueueInvariant, <1>1, PTL

\* Without database errors and deletions a row the process owns is being run.
THEOREM NoRunIsStranded == Spec => []NoStrandedRun
  <1>1. Inductive => NoStrandedRun BY DEF Inductive
  <1> QED BY QueueInvariant, <1>1, PTL

\* The outcome of a finished row is written once.
THEOREM FinishedRowsStay == Spec => OutcomeIsFinal
  <1>1. ASSUME Inductive, [Next]_vars, NEW j \in JobIds, Status(j) \in Terminal
        PROVE  job'[j].status = Status(j)
    <2>1. CASE Insertion BY <1>1, <2>1, RowsInserted DEF Inductive
    <2>2. CASE ~ Insertion
      <3>1. Kept(j) \/ Asked(j) \/ Taken(j) \/ GivenBack(j)
        BY <1>1, <2>2, RowsMove DEF Inductive, RowMoves
      <3> QED BY <1>1, <3>1 DEF Kept, Asked, Taken, GivenBack
    <2> QED BY <2>1, <2>2
  <1>2. Inductive /\ [Next]_vars
        => [\A j \in JobIds : Status(j) \in Terminal => job'[j].status = Status(j)]_vars
    BY <1>1
  <1> QED BY QueueInvariant, <1>2, PTL DEF Spec, OutcomeIsFinal

-----------------------------------------------------------------------------
(* No wake-up is lost *)

\* Of the rows that are due one is the oldest.
LEMMA OldestDue ==
  ASSUME NEW S \in SUBSET JobIds, S # {}
  PROVE  \E j \in S : \A i \in S : j <= i
  <1>1. S \subseteq Nat OBVIOUS
  <1>2. PICK j \in S : \A i \in S : ~ (<<i, j>> \in OpToRel(<, Nat))
    BY <1>1, NatLessThanWellFounded, WFMin
  <1>3. \A i \in S : ~ (i < j) BY <1>1, <1>2 DEF OpToRel
  <1> QED BY <1>1, <1>3

\* Whatever puts a row within the reach of the next claim sets the wake event.
LEMMA PromptStep ==
  ASSUME TypeOK, TaskShape, PromptService, [Next]_vars
  PROVE  PromptService'
  <1> SUFFICES ASSUME worker' = "idle", ~ wake', server' = "up", NEW j \in Scanned'
               PROVE  job'[j].attempts > 0
    BY DEF PromptService
  <1>t. \A i \in JobIds : job[i] \in JobRow BY DEF TypeOK
  <1>1. CASE ClaimNothing
    <2>1. job' = job BY <1>1 DEF ClaimNothing, durable
    <2>2. j \in Scanned /\ j \in JobIds BY <2>1 DEF Scanned, Queued
    <2>3. SUFFICES ASSUME job[j].attempts = 0 PROVE FALSE
      BY <2>1, <2>2, <1>t DEF JobRow
    <2> DEFINE D == {i \in Scanned : Due(i)}
    <2>4. j \in D BY <2>2, <2>3 DEF Due
    <2>5. D \in SUBSET JobIds BY DEF Scanned, Queued
    <2>6. \E i \in D : \A k \in D : i <= k
      <3> HIDE DEF D
      <3> QED BY <2>4, <2>5, OldestDue
    <2> QED BY <1>1, <2>6 DEF ClaimNothing, Claimable, Scanned, Queued
  <1>2. ASSUME worker = "idle", ~ wake, server = "up", \A i \in JobIds : Status(i) = job'[i].status,
               \A i \in JobIds : job'[i].attempts = job[i].attempts
        PROVE  job'[j].attempts > 0
    <2>1. Queued' = Queued BY <1>2 DEF Queued
    <2>2. Scanned' = Scanned BY <2>1 DEF Scanned
    <2> QED BY <1>2, <2>2 DEF PromptService, Scanned, Queued
  <1>3. ~ (\E p \in Projects : Stop(p) \/ \E t \in JobTypes : Create(p, t))
    BY DEF Stop, Create, Notify
  <1>4. ASSUME NEW p \in Projects, DeleteProject(p) PROVE job'[j].attempts > 0
    <2>1. ActiveJobs(p) = {} BY <1>4 DEF DeleteProject, Notify
    <2>2. \A i \in JobIds : job'[i] = Orphaned(job[i], p)
      BY <1>4, <2>1 DEF DeleteProject, IsActiveJob
    <2>3. \A i \in JobIds : Status(i) = job'[i].status /\ job'[i].attempts = job[i].attempts
      BY <2>2, <1>t DEF Orphaned, JobRow
    <2>4. worker = "idle" /\ ~ wake /\ server = "up" BY <1>4, <2>1 DEF DeleteProject
    <2> QED BY <1>2, <2>3, <2>4
  <1>5. CASE Tick
    <2>1. \A i \in JobIds : Status(i) = job'[i].status /\ job'[i].attempts = job[i].attempts
      BY <1>5, <1>t DEF Tick, JobRow
    <2> QED BY <1>2, <1>5, <2>1 DEF Tick
  <1>6. ~ (\E i \in JobIds : ClaimAndRun(i) \/ ClaimAndReject(i) \/ HandlerReturns(i) \/ HandlerRaises(i))
    BY DEF ClaimAndRun, ClaimAndReject, AtClaim, task, HandlerReturns, HandlerRaises, RunEnds
  <1>7. ~ (WakeUp \/ ShutdownBegins \/ WorkerExits \/ GraceExpires \/ ShutdownEnds \/ ShutdownFails \/ Crash)
    BY DEF WakeUp, ShutdownBegins, WorkerExits, GraceExpires, ShutdownEnds, ShutdownFails, Crash,
           ProcessEnds
  <1>8. ~ (\E supported \in Versions : Boot(supported)) BY DEF Boot
  <1>9. ~ (Heartbeat \/ Faults)
    BY DEF Heartbeat, Faults, ClaimFails, RecordFails, RunEnds, HeartbeatFails, TaskShape
  <1>10. CASE UNCHANGED vars BY <1>2, <1>10 DEF vars
  <1> QED BY <1>1, <1>3, <1>4, <1>5, <1>6, <1>7, <1>8, <1>9, <1>10
          DEF Next, Request, Claims, HandlerEnds, Shutdown

\* An idle worker that nobody has woken has only retries to wait for.
THEOREM NoWakeUpIsLost == Spec => []PromptService
  <1>1. Init => PromptService BY DEF Init, PromptService
  <1>2. Inductive /\ PromptService /\ [Next]_vars => PromptService' BY PromptStep DEF Inductive
  <1> QED BY QueueInvariant, <1>1, <1>2, PTL DEF Spec

=============================================================================
