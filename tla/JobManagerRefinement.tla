------------------------ MODULE JobManagerRefinement ------------------------
(***************************************************************************)
(* JobManager implements ProjectWork: seen through active_job(), every     *)
(* step of the queue is one step of the work on one project, the end of a  *)
(* server, the start of one, or nothing at all.                            *)
(*                                                                         *)
(* What active_job() shows of a project is the status of its only active   *)
(* row, so OneActiveJob carries the proof: it is used of the rows before a *)
(* step and of the rows after it.                                          *)
(***************************************************************************)
EXTENDS JobManagerProofs

USE DEF JobIds, NoJob, Owned, Active, Terminal, Status

AbstractStep == [Work!WorkNext]_(Work!workVars)

-----------------------------------------------------------------------------
(* What active_job() shows *)

ActiveIn(rows, p) == {j \in JobIds : rows[j].project = p /\ rows[j].status \in Active}

OldestIn(rows, p) ==
    CHOOSE j \in JobIds : j \in ActiveIn(rows, p) /\ \A i \in ActiveIn(rows, p) : j <= i

WorkIn(rows, p) ==
    IF ActiveIn(rows, p) = {} THEN "idle" ELSE rows[OldestIn(rows, p)].status

LEMMA WorkOnRows ==
  ASSUME NEW p PROVE WorkOn(p) = WorkIn(job, p) /\ WorkOn(p)' = WorkIn(job', p)
  BY DEF WorkOn, ActiveJobs, IsActiveJob, WorkIn, OldestIn, ActiveIn

\* With one active row per project active_job() shows that row.
LEMMA OneRowShows ==
  ASSUME NEW rows, NEW p,
         \A i, j \in ActiveIn(rows, p) : i = j
  PROVE  /\ ActiveIn(rows, p) = {} => WorkIn(rows, p) = "idle"
         /\ \A j \in ActiveIn(rows, p) : WorkIn(rows, p) = rows[j].status
  <1>1. ASSUME NEW j \in ActiveIn(rows, p) PROVE OldestIn(rows, p) = j
    <2>1. j \in JobIds /\ j <= j BY DEF ActiveIn
    <2>2. \A i \in ActiveIn(rows, p) : j <= i BY <2>1
    <2>3. /\ OldestIn(rows, p) \in JobIds
          /\ OldestIn(rows, p) \in ActiveIn(rows, p)
      BY <2>1, <2>2 DEF OldestIn
    <2> QED BY <2>3
  <1> QED BY <1>1 DEF WorkIn

LEMMA RowShows ==
  ASSUME OneActiveJob, NEW p \in Projects
  PROVE  /\ ActiveIn(job, p) = {} => WorkOn(p) = "idle"
         /\ \A j \in ActiveIn(job, p) : WorkOn(p) = job[j].status
  <1>1. \A i, j \in ActiveIn(job, p) : i = j
    BY ProjectAssumption DEF OneActiveJob, ActiveIn
  <1> QED BY <1>1, OneRowShows, WorkOnRows

LEMMA RowShowsNext ==
  ASSUME OneActiveJob', NEW p \in Projects
  PROVE  /\ ActiveIn(job', p) = {} => WorkOn(p)' = "idle"
         /\ \A j \in ActiveIn(job', p) : WorkOn(p)' = job'[j].status
  <1>1. \A i, j \in ActiveIn(job', p) : i = j
    BY ProjectAssumption DEF OneActiveJob, ActiveIn
  <1> QED BY <1>1, OneRowShows, WorkOnRows

\* A step that leaves the active rows of a project alone shows nothing of it.
LEMMA SameShown ==
  ASSUME OneActiveJob, OneActiveJob', NEW p \in Projects,
         ActiveIn(job', p) = ActiveIn(job, p),
         \A j \in ActiveIn(job, p) : job'[j].status = job[j].status
  PROVE  WorkOn(p)' = WorkOn(p)
  BY RowShows, RowShowsNext

-----------------------------------------------------------------------------
(* Steps of the abstract specification *)

\* The work on one project moves and that on the others stays.
LEMMA WorkMoves ==
  ASSUME NEW p \in Projects, NEW from, NEW to,
         \A q \in Projects \ {p} : WorkOn(q)' = WorkOn(q),
         WorkOn(p) \in from, WorkOn(p)' = to, inst' = inst
  PROVE  Work!Moves(p, from, to)
  <1>1. [q \in Projects |-> WorkOn(q)]' = [[q \in Projects |-> WorkOn(q)] EXCEPT ![p] = to]
    OBVIOUS
  <1> QED BY <1>1 DEF Work!Moves

LEMMA WorkStays ==
  ASSUME \A q \in Projects : WorkOn(q)' = WorkOn(q), inst' = inst
  PROVE  AbstractStep
  BY DEF AbstractStep, Work!workVars

\* A row takes status s, every other row keeps its status, and none changes its
\* project: the requests, claims, results and failures of manager.py do no more.
LEMMA OneRowMoves ==
  ASSUME OneActiveJob, OneActiveJob', inst' = inst, NEW j \in JobIds,
         \A i \in JobIds : job'[i].project = job[i].project,
         \A i \in JobIds \ {j} : job'[i].status = job[i].status,
         \/ job'[j].status = job[j].status
         \/ job[j].status = "queued" /\ job'[j].status = "running"
         \/ job[j].status = "running" /\ job'[j].status \in {"queued", "stopping"}
         \/ job[j].status \in Active /\ job'[j].status \in Terminal
  PROVE  AbstractStep
  <1>0. PICK p : p = job[j].project OBVIOUS
  <1>1. ASSUME NEW q \in Projects, q # p \/ job'[j].status = job[j].status
        PROVE  WorkOn(q)' = WorkOn(q)
    <2>1. ActiveIn(job', q) = ActiveIn(job, q) BY <1>0, <1>1 DEF ActiveIn
    <2>2. \A i \in ActiveIn(job, q) : job'[i].status = job[i].status BY <1>0, <1>1 DEF ActiveIn
    <2> QED BY <2>1, <2>2, SameShown
  <1>2. CASE p \notin Projects \/ job'[j].status = job[j].status
    BY <1>1, <1>2, WorkStays
  <1>3. CASE p \in Projects /\ job'[j].status # job[j].status
    <2>1. \A q \in Projects \ {p} : WorkOn(q)' = WorkOn(q) BY <1>1
    <2>2. j \in ActiveIn(job, p) BY <1>0, <1>3 DEF ActiveIn
    <2>3. WorkOn(p) = job[j].status BY <1>3, <2>2, RowShows
    <2>4. ASSUME job'[j].status \in Active PROVE WorkOn(p)' = job'[j].status
      <3>1. j \in ActiveIn(job', p) BY <1>0, <2>4 DEF ActiveIn
      <3> QED BY <1>3, <3>1, RowShowsNext
    <2>5. ASSUME job'[j].status \in Terminal PROVE WorkOn(p)' = "idle"
      <3>1. \A i \in ActiveIn(job, p) : i = j
        BY <1>0, <1>3, <2>2, ProjectAssumption DEF ActiveIn, OneActiveJob
      <3>2. ActiveIn(job', p) = {} BY <2>5, <3>1 DEF ActiveIn
      <3> QED BY <1>3, <3>2, RowShowsNext
    <2>6. CASE job[j].status = "queued" /\ job'[j].status = "running"
      <3>1. Work!Moves(p, {"queued"}, "running") BY <1>3, <2>1, <2>3, <2>4, <2>6, WorkMoves
      <3> QED BY <1>3, <3>1 DEF AbstractStep, Work!WorkNext, Work!Begins
    <2>7. CASE job[j].status = "running" /\ job'[j].status = "queued"
      <3>1. Work!Moves(p, {"running"}, "queued") BY <1>3, <2>1, <2>3, <2>4, <2>7, WorkMoves
      <3> QED BY <1>3, <3>1 DEF AbstractStep, Work!WorkNext, Work!Retried
    <2>8. CASE job[j].status = "running" /\ job'[j].status = "stopping"
      <3>1. Work!Moves(p, {"running"}, "stopping") BY <1>3, <2>1, <2>3, <2>4, <2>8, WorkMoves
      <3> QED BY <1>3, <3>1 DEF AbstractStep, Work!WorkNext, Work!AskedToStop
    <2>9. CASE job[j].status \in Active /\ job'[j].status \in Terminal
      <3>1. WorkOn(p) \in {"queued", "running", "stopping"} BY <2>3, <2>9
      <3>2. Work!Moves(p, {"queued", "running", "stopping"}, "idle")
        BY <1>3, <2>1, <2>5, <2>9, <3>1, WorkMoves
      <3> QED BY <1>3, <3>2 DEF AbstractStep, Work!WorkNext, Work!Ends
    <2> QED BY <1>3, <2>6, <2>7, <2>8, <2>9
  <1> QED BY <1>2, <1>3

-----------------------------------------------------------------------------
(* The steps of the queue *)

\* create(): work on an idle project is submitted.
LEMMA CreateWorks ==
  ASSUME Inductive, Inductive', NEW p \in Projects, NEW t \in JobTypes, Create(p, t)
  PROVE  AbstractStep
  <1> USE DEF Inductive
  <1>t. \A i \in JobIds : job[i] \in JobRow BY DEF TypeOK
  <1>1. last + 1 \in JobIds /\ Status(last + 1) = "unused"
    BY BoundAssumption DEF Create, TypeOK, UnusedBeyondLast
  <1>2. /\ job'[last + 1].status = "queued" /\ job'[last + 1].project = p
        /\ \A i \in JobIds \ {last + 1} : job'[i] = job[i]
    BY <1>1 DEF Create, NewRow, TypeOK
  <1>3. ASSUME NEW q \in Projects \ {p} PROVE WorkOn(q)' = WorkOn(q)
    <2>1. ActiveIn(job', q) = ActiveIn(job, q) BY <1>1, <1>2 DEF ActiveIn
    <2>2. \A i \in ActiveIn(job, q) : job'[i].status = job[i].status BY <1>1, <1>2 DEF ActiveIn
    <2> QED BY <2>1, <2>2, SameShown
  <1>4. ActiveIn(job, p) = {} BY DEF Create, ActiveJobs, ActiveIn
  <1>5. last + 1 \in ActiveIn(job', p) BY <1>1, <1>2 DEF ActiveIn
  <1>6. WorkOn(p) \in {"idle"} /\ WorkOn(p)' = "queued"
    BY <1>2, <1>4, <1>5, RowShows, RowShowsNext
  <1>7. Work!Moves(p, {"idle"}, "queued") BY <1>3, <1>6, WorkMoves DEF Create
  <1> QED BY <1>7 DEF AbstractStep, Work!WorkNext, Work!Submitted

\* delete_project(): whatever was done for the project ends, as nothing shows
\* its rows any more.
LEMMA DeleteWorks ==
  ASSUME Inductive, Inductive', NEW p \in Projects, DeleteProject(p)
  PROVE  AbstractStep
  <1> USE DEF Inductive
  <1>t. \A i \in JobIds : job[i] \in JobRow BY DEF TypeOK
  <1>1. ASSUME NEW i \in JobIds
        PROVE  /\ job'[i].project # p
               /\ job[i].project # p => job'[i] = job[i]
               /\ job[i].project = p => job'[i].project = NoProject
    BY <1>t, ProjectAssumption
       DEF DeleteProject, Orphaned, StopRequested, IsActiveJob, ActiveJobs, JobRow
  <1>2. ASSUME NEW q \in Projects \ {p} PROVE WorkOn(q)' = WorkOn(q)
    <2>1. ActiveIn(job', q) = ActiveIn(job, q) BY <1>1, ProjectAssumption DEF ActiveIn
    <2>2. \A i \in ActiveIn(job, q) : job'[i].status = job[i].status BY <1>1 DEF ActiveIn
    <2> QED BY <2>1, <2>2, SameShown
  <1>3. ActiveIn(job', p) = {} BY <1>1 DEF ActiveIn
  <1>4. WorkOn(p)' = "idle" BY <1>3, RowShowsNext
  <1>5. inst' = inst BY DEF DeleteProject
  <1>6. CASE ActiveIn(job, p) = {}
    <2>1. WorkOn(p) = "idle" BY <1>6, RowShows
    <2> QED BY <1>2, <1>4, <1>5, <2>1, WorkStays
  <1>7. CASE ActiveIn(job, p) # {}
    <2>1. WorkOn(p) \in {"queued", "running", "stopping"} BY <1>7, RowShows DEF ActiveIn
    <2>2. Work!Moves(p, {"queued", "running", "stopping"}, "idle")
      BY <1>2, <1>4, <1>5, <2>1, WorkMoves
    <2> QED BY <2>2 DEF AbstractStep, Work!WorkNext, Work!Ends
  <1> QED BY <1>6, <1>7

\* stop(), the claims, the ends of a run and its interruption rewrite one row.
LEMMA RowStepWorks ==
  ASSUME Inductive, Inductive',
         \/ \E p \in Projects : Stop(p)
         \/ \E j \in JobIds : \/ ClaimAndRun(j) \/ ClaimAndReject(j)
                              \/ HandlerReturns(j) \/ HandlerRaises(j)
         \/ GraceExpires
  PROVE  AbstractStep
  <1> USE DEF Inductive
  <1>t. job \in [JobIds -> JobRow] /\ \A i \in JobIds : job[i] \in JobRow BY DEF TypeOK
  <1>1. ASSUME NEW p \in Projects, Stop(p) PROVE AbstractStep
    <2>1. PICK i \in JobIds : IsActiveJob(p, i) /\ job' = [job EXCEPT ![i] = StopRequested(@)]
      BY <1>1 DEF Stop
    <2>2. job[i].status \in Active BY <2>1 DEF IsActiveJob, ActiveJobs
    <2>3. /\ StopRequested(job[i]).project = job[i].project
          /\ job[i].status = "queued" => StopRequested(job[i]).status = "cancelled"
          /\ job[i].status # "queued" => StopRequested(job[i]).status = "stopping"
      BY <1>t DEF StopRequested, JobRow
    <2>4. inst' = inst BY <1>1 DEF Stop
    <2> QED BY <1>t, <2>1, <2>2, <2>3, <2>4, OneRowMoves
  <1>2. ASSUME NEW j \in JobIds, ClaimAndRun(j) \/ ClaimAndReject(j) PROVE AbstractStep
    <2>1. /\ job[j].status = "queued" /\ inst' = inst
          /\ \/ job' = [job EXCEPT ![j] = Claimed(@)]
             \/ job' = [job EXCEPT ![j] = Rejected(@)]
      BY <1>2 DEF ClaimAndRun, ClaimAndReject, Claimable, Scanned, Queued
    <2>2. /\ Claimed(job[j]).status = "running" /\ Claimed(job[j]).project = job[j].project
          /\ Rejected(job[j]).status \in {"running", "failed"}
          /\ Rejected(job[j]).project = job[j].project
      BY <1>t DEF Claimed, Rejected, Released, JobRow
    <2> QED BY <1>t, <2>1, <2>2, OneRowMoves
  <1>3. ASSUME NEW j \in JobIds, HandlerReturns(j) PROVE AbstractStep
    <2>1. /\ job[j].status \in Owned /\ inst' = inst
          /\ job' = [job EXCEPT ![j] = Released(@, Outcome(@))]
      BY <1>3 DEF HandlerReturns, Running, TaskShape
    <2>2. /\ Released(job[j], Outcome(job[j])).status \in Terminal
          /\ Released(job[j], Outcome(job[j])).project = job[j].project
      BY <1>t DEF Outcome, Released, JobRow
    <2> QED BY <1>t, <2>1, <2>2, OneRowMoves
  <1>4. ASSUME NEW j \in JobIds, HandlerRaises(j) PROVE AbstractStep
    <2>1. /\ job[j].status \in Owned /\ inst' = inst
          /\ job' = [job EXCEPT ![j] = FailOrRequeue(@)]
      BY <1>4 DEF HandlerRaises, Running, TaskShape
    <2>2. /\ FailOrRequeue(job[j]).status \in {"queued", "failed"}
          /\ FailOrRequeue(job[j]).project = job[j].project
          /\ job[j].cancel => FailOrRequeue(job[j]).status = "failed"
      BY <1>t DEF FailOrRequeue, Requeued, Released, JobRow
    <2>3. job[j].status = "stopping" => job[j].cancel BY DEF StoppingWasAsked
    <2> QED BY <1>t, <2>1, <2>2, <2>3, OneRowMoves
  <1>5. CASE GraceExpires
    <2>1. /\ cur \in JobIds /\ job[cur].status \in Owned /\ inst' = inst
          /\ job' = [job EXCEPT ![cur] = Released(@, "interrupted")]
      BY <1>5 DEF GraceExpires, TaskShape
    <2>2. /\ Released(job[cur], "interrupted").status = "interrupted"
          /\ Released(job[cur], "interrupted").project = job[cur].project
      BY <1>t, <2>1 DEF Released, JobRow
    <2>3. PICK i : i = cur OBVIOUS
    <2> QED BY <1>t, <2>1, <2>2, <2>3, OneRowMoves
  <1> QED BY <1>1, <1>2, <1>3, <1>4, <1>5

\* shutdown(): what the process still owns is interrupted.
LEMMA ShutdownWorks ==
  ASSUME Inductive, Inductive', ShutdownEnds PROVE AbstractStep
  <1> USE DEF Inductive
  <1>t. \A i \in JobIds : job[i] \in JobRow BY DEF TypeOK
  <1> DEFINE Swept == {j \in JobIds : job[j].status \in Owned /\ job[j].owner = inst}
             S == {p \in Projects : \E j \in Swept : job[j].project = p}
  <1>1. ASSUME NEW j \in JobIds
        PROVE  /\ job'[j].project = job[j].project
               /\ j \in Swept => job'[j].status = "interrupted"
               /\ j \notin Swept => job'[j].status = job[j].status
    BY <1>t DEF ShutdownEnds, Released, JobRow
  <1>2. inst' = inst BY DEF ShutdownEnds
  <1>3. ASSUME NEW p \in S
        PROVE  p \in Projects /\ WorkOn(p) \in {"running", "stopping"} /\ WorkOn(p)' = "idle"
    <2>1. PICK j \in Swept : job[j].project = p OBVIOUS
    <2>2. j \in ActiveIn(job, p) BY <2>1 DEF ActiveIn
    <2>3. \A i \in ActiveIn(job, p) : i = j
      BY <2>2, ProjectAssumption DEF OneActiveJob, ActiveIn
    <2>4. ActiveIn(job', p) = {} BY <1>1, <2>1, <2>3 DEF ActiveIn
    <2> QED BY <2>1, <2>2, <2>4, RowShows, RowShowsNext
  <1>4. ASSUME NEW p \in Projects \ S PROVE WorkOn(p)' = WorkOn(p)
    <2>1. \A j \in ActiveIn(job, p) : j \notin Swept BY DEF ActiveIn
    <2>2. ActiveIn(job', p) = ActiveIn(job, p) BY <1>1, <2>1 DEF ActiveIn
    <2> QED BY <1>1, <2>1, <2>2, SameShown DEF ActiveIn
  <1>5. PICK T : T = S OBVIOUS
  <1> HIDE DEF S, Swept
  <1>6. T \in SUBSET Work!Held BY <1>3, <1>5 DEF Work!Held
  <1>7. \A p \in Projects : WorkOn(p)' = IF p \in T THEN "idle" ELSE WorkOn(p)
    BY <1>3, <1>4, <1>5
  <1>8. [p \in Projects |-> WorkOn(p)]'
          = [p \in Projects |-> IF p \in T THEN "idle" ELSE [q \in Projects |-> WorkOn(q)][p]]
    BY <1>7
  <1>9. Work!Interrupted BY <1>2, <1>6, <1>8 DEF Work!Interrupted
  <1> QED BY <1>9 DEF AbstractStep, Work!WorkNext

\* startup(): what an earlier process has left ends, or its copy is queued.
LEMMA BootWorks ==
  ASSUME Inductive, Inductive', NEW supported \in Versions, Boot(supported)
  PROVE  AbstractStep
  <1> USE DEF Inductive
  <1>t. \A i \in JobIds : job[i] \in JobRow BY DEF TypeOK
  <1> DEFINE R == Retryable(supported)
             S == {p \in Projects : \E j \in Stale : job[j].project = p}
             A == {p \in Projects : \E j \in R : job[j].project = p}
  <1>0. PICK id \in FreshIds(R) : \A j \in JobIds :
            \/ j \in Stale /\ job'[j] = Released(job[j], "interrupted")
            \/ /\ j \notin Stale /\ j > last
               /\ \E i \in R :
                     /\ id[i] = j
                     /\ job'[j] = NewRow(job[i].project, job[i].type, job[i].attempts)
            \/ /\ j \notin Stale /\ job'[j] = job[j]
               /\ ~ \E i \in R : id[i] = j
    BY BootRows
  <1>1. /\ Stale \subseteq JobIds
        /\ \A j \in Stale : job[j].status \in Owned
        /\ \A j \in R : j \in Stale /\ job[j].project \in Projects
    BY <1>t DEF Stale, Retryable, JobRow
  <1>2. ASSUME NEW i \in R
        PROVE  id[i] \in JobIds /\ id[i] > last /\ \A k \in R : id[k] = id[i] => k = i
    <2>1. Cardinality(R) \in Nat BY RetryableCount
    <2>2. last + Cardinality(R) <= MaxJobs BY DEF Boot
    <2>3. id[i] \in (last + 1)..(last + Cardinality(R)) BY DEF FreshIds
    <2>4. last \in Nat BY BoundAssumption DEF TypeOK
    <2>5. id[i] \in JobIds /\ id[i] > last
      <3> DEFINE c == Cardinality(R)
      <3> HIDE DEF c, R
      <3> QED BY <2>1, <2>2, <2>3, <2>4, BoundAssumption DEF c
    <2> QED BY <2>5 DEF FreshIds
  <1>3. ASSUME NEW j \in Stale
        PROVE  job'[j].status = "interrupted" /\ job'[j].project = job[j].project
    BY <1>0, <1>1, <1>t DEF Released, JobRow
  <1>4. ASSUME NEW j \in JobIds \ Stale, ~ \E i \in R : id[i] = j
        PROVE  job'[j] = job[j]
    BY <1>0, <1>4
  <1>5. ASSUME NEW i \in R
        PROVE  /\ job[id[i]].status = "unused"
               /\ job'[id[i]].status = "queued" /\ job'[id[i]].project = job[i].project
    <2>1. id[i] \in JobIds /\ job[id[i]].status = "unused" BY <1>2 DEF UnusedBeyondLast
    <2>2. id[i] \notin Stale BY <2>1, <1>1
    <2>3. job'[id[i]] = NewRow(job[i].project, job[i].type, job[i].attempts)
      BY <1>0, <1>2, <2>1, <2>2
    <2> QED BY <2>1, <2>3 DEF NewRow
  <1> HIDE DEF R
  <1>6. ASSUME NEW p \in S
        PROVE  /\ p \in Projects /\ WorkOn(p) \in {"running", "stopping"}
               /\ p \notin A => WorkOn(p)' = "idle"
    <2>1. PICK j \in Stale : job[j].project = p OBVIOUS
    <2>2. j \in ActiveIn(job, p) /\ p \in Projects BY <1>1, <2>1 DEF ActiveIn
    <2>3. \A i \in ActiveIn(job, p) : i = j
      BY <2>2, ProjectAssumption DEF OneActiveJob, ActiveIn
    <2>4. WorkOn(p) \in {"running", "stopping"} BY <1>1, <2>2, RowShows
    <2>5. ASSUME p \notin A PROVE ActiveIn(job', p) = {}
      <3> SUFFICES ASSUME NEW i \in ActiveIn(job', p) PROVE FALSE OBVIOUS
      <3>1. i \in JobIds /\ job'[i].project = p /\ job'[i].status \in Active BY DEF ActiveIn
      <3>2. i \notin Stale BY <1>3, <3>1
      <3>3. ~ \E k \in R : id[k] = i BY <1>5, <2>2, <2>5, <3>1
      <3>4. job'[i] = job[i] BY <1>4, <3>1, <3>2, <3>3
      <3> QED BY <2>1, <2>3, <3>1, <3>2, <3>4 DEF ActiveIn
    <2> QED BY <2>2, <2>4, <2>5, RowShowsNext
  <1>7. ASSUME NEW p \in A PROVE p \in S /\ WorkOn(p)' = "queued"
    <2>1. PICK i \in R : job[i].project = p OBVIOUS
    <2>2. id[i] \in ActiveIn(job', p) BY <1>2, <1>5, <2>1 DEF ActiveIn
    <2> QED BY <1>1, <1>5, <2>1, <2>2, RowShowsNext
  <1>8. ASSUME NEW p \in Projects \ S PROVE WorkOn(p)' = WorkOn(p)
    <2>1. ASSUME NEW j \in ActiveIn(job, p)
          PROVE  j \in ActiveIn(job', p) /\ job'[j].status = job[j].status
      <3>1. j \in JobIds \ Stale /\ job[j].status # "unused" BY DEF ActiveIn
      <3>2. ~ \E k \in R : id[k] = j BY <1>5, <3>1
      <3>3. job'[j] = job[j] BY <1>4, <3>1, <3>2
      <3> QED BY <3>3 DEF ActiveIn
    <2>2. ASSUME NEW j \in ActiveIn(job', p) PROVE j \in ActiveIn(job, p)
      <3>1. j \in JobIds /\ job'[j].project = p /\ job'[j].status \in Active BY DEF ActiveIn
      <3>2. j \notin Stale BY <1>3, <3>1
      <3>3. ~ \E k \in R : id[k] = j BY <1>1, <1>5, <3>1
      <3>4. job'[j] = job[j] BY <1>4, <3>1, <3>2, <3>3
      <3> QED BY <3>1, <3>4 DEF ActiveIn
    <2>3. ActiveIn(job', p) = ActiveIn(job, p) BY <2>1, <2>2
    <2> QED BY <2>1, <2>3, SameShown
  <1>9. PICK T, again : T = S /\ again = A OBVIOUS
  <1> HIDE DEF S, A
  <1>10. T \in SUBSET Work!Held /\ again \in SUBSET Work!Held
    BY <1>6, <1>7, <1>9 DEF Work!Held
  <1>11. \A p \in Projects : WorkOn(p)' = IF p \notin T THEN WorkOn(p)
                                          ELSE IF p \in again THEN "queued" ELSE "idle"
    BY <1>6, <1>7, <1>8, <1>9
  <1>12. [p \in Projects |-> WorkOn(p)]'
           = [p \in Projects |-> IF p \notin T THEN [q \in Projects |-> WorkOn(q)][p]
                                 ELSE IF p \in again THEN "queued" ELSE "idle"]
    BY <1>11
  <1>13. inst' = inst + 1 BY DEF Boot
  <1>14. Work!Restarted BY <1>10, <1>12, <1>13 DEF Work!Restarted
  <1> QED BY <1>14 DEF AbstractStep, Work!WorkNext

\* The rest of the steps rewrite leases and backoffs, or no row at all.
LEMMA HiddenStepWorks ==
  ASSUME Inductive, Inductive',
         \/ Heartbeat \/ Tick \/ Faults \/ Crash \/ ClaimNothing \/ WakeUp
         \/ ShutdownBegins \/ WorkerExits \/ ShutdownFails \/ UNCHANGED vars
  PROVE  AbstractStep
  <1> USE DEF Inductive
  <1>t. job \in [JobIds -> JobRow] /\ \A i \in JobIds : job[i] \in JobRow BY DEF TypeOK
  <1>1. inst' = inst
    BY DEF Heartbeat, Tick, Faults, ClaimFails, RecordFails, HeartbeatFails, Crash, ClaimNothing,
           WakeUp, ShutdownBegins, WorkerExits, ShutdownFails, vars
  <1>2. ASSUME NEW i \in JobIds
        PROVE  job'[i].project = job[i].project /\ job'[i].status = job[i].status
    <2>1. CASE Heartbeat
      <3>1. job' = job \/ job' = [job EXCEPT ![cur] = Renewed(@)] BY <2>1 DEF Heartbeat
      <3>2. Renewed(job[i]).project = job[i].project /\ Renewed(job[i]).status = job[i].status
        BY <1>t DEF Renewed, JobRow
      <3> QED BY <1>t, <3>1, <3>2
    <2>2. CASE Tick BY <1>t, <2>2 DEF Tick, JobRow
    <2>3. CASE ~ Heartbeat /\ ~ Tick
      <3>1. job' = job
        BY <2>3 DEF Faults, ClaimFails, RecordFails, HeartbeatFails, Crash, ClaimNothing,
                    WakeUp, ShutdownBegins, WorkerExits, ShutdownFails, durable, vars
      <3> QED BY <3>1
    <2> QED BY <2>1, <2>2, <2>3
  <1>3. ASSUME NEW p \in Projects PROVE WorkOn(p)' = WorkOn(p)
    <2>1. ActiveIn(job', p) = ActiveIn(job, p) BY <1>2 DEF ActiveIn
    <2> QED BY <1>2, <2>1, SameShown DEF ActiveIn
  <1> QED BY <1>1, <1>3, WorkStays

-----------------------------------------------------------------------------
(* The refinement *)

\* An empty table shows no work.
LEMMA WorkStarts == Init => Work!WorkInit
  <1> SUFFICES ASSUME Init PROVE Work!WorkInit OBVIOUS
  <1>1. OneActiveJob BY InductiveInit DEF Inductive
  <1>2. \A i \in JobIds : job[i].status = "unused" BY DEF Init, NewRow
  <1>3. ASSUME NEW p \in Projects PROVE WorkOn(p) = "idle"
    <2>1. ActiveIn(job, p) = {} BY <1>2 DEF ActiveIn
    <2> QED BY <1>1, <2>1, RowShows
  <1> QED BY <1>3 DEF Work!WorkInit, Init

LEMMA StepWorks == Inductive /\ Inductive' /\ [Next]_vars => AbstractStep
  <1> SUFFICES ASSUME Inductive, Inductive', [Next]_vars PROVE AbstractStep OBVIOUS
  <1>1. CASE \/ \E p \in Projects : Stop(p)
             \/ \E j \in JobIds : \/ ClaimAndRun(j) \/ ClaimAndReject(j)
                                  \/ HandlerReturns(j) \/ HandlerRaises(j)
             \/ GraceExpires
    BY <1>1, RowStepWorks
  <1>2. CASE \E p \in Projects : DeleteProject(p) BY <1>2, DeleteWorks
  <1>3. CASE \E p \in Projects, t \in JobTypes : Create(p, t) BY <1>3, CreateWorks
  <1>4. CASE ShutdownEnds BY <1>4, ShutdownWorks
  <1>5. CASE \E supported \in Versions : Boot(supported) BY <1>5, BootWorks
  <1>6. CASE \/ Heartbeat \/ Tick \/ Faults \/ Crash \/ ClaimNothing \/ WakeUp
             \/ ShutdownBegins \/ WorkerExits \/ ShutdownFails \/ UNCHANGED vars
    BY <1>6, HiddenStepWorks
  <1> QED BY <1>1, <1>2, <1>3, <1>4, <1>5, <1>6
          DEF Next, Request, Claims, HandlerEnds, Shutdown

\* The queue of manager.py implements one piece of work per project: what
\* active_job() shows never begins unsubmitted, never skips a state, and what was
\* asked to stop runs again only after a restart of the server.
THEOREM QueueImplementsWork == Spec => ImplementsProjectWork
  <1>1. Inductive /\ Inductive' /\ [Next]_vars => [Work!WorkNext]_(Work!workVars)
    BY StepWorks DEF AbstractStep
  <1> QED BY QueueInvariant, WorkStarts, <1>1, PTL DEF Spec, ImplementsProjectWork, Work!WorkSpec
=============================================================================
