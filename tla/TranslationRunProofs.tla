------------------------ MODULE TranslationRunProofs ------------------------
(***************************************************************************)
(* What every step of TranslationRun keeps, for any number of segments,    *)
(* workers, requests, boots and faults.  The lemmas about the steps of a   *)
(* worker speak of one set of workers and its queue: FailedRunProofs uses  *)
(* them for the workers of a run and, by substitution, for those that a    *)
(* failed run has left behind.                                             *)
(***************************************************************************)
EXTENDS TranslationRun, FiniteSetTheorems, SequenceTheorems, TLAPS

USE DEF NoSeg, Sentinel, Finished, Statuses, Texts, Modes

-----------------------------------------------------------------------------
(* Operators *)

\* A sweep takes every segment out of the workers' hands and changes no other.
LEMMA SweptType ==
  ASSUME TypeOK
  PROVE  /\ Swept \in [Segs -> Statuses]
         /\ \A s \in Segs : Swept[s] # "processing" /\ (status[s] # "processing" => Swept[s] = status[s])
         /\ \A s \in Segs : Swept[s] \in Finished => Swept[s] = status[s]
  BY DEF TypeOK, Swept

\* Taking an item off the queue moves the others up.
LEMMA TakesType ==
  ASSUME TypeOK, NEW w \in Workers, NEW i, Takes(w, i)
  PROVE  /\ i \in Segs \cup {Sentinel} /\ i = queue[1] /\ 1 \in DOMAIN queue
         /\ queue' \in Seq(Segs \cup {Sentinel})
         /\ Len(queue') = Len(queue) - 1 /\ Len(queue') <= Capacity
         /\ DOMAIN queue' = 1..Len(queue')
         /\ \A k \in DOMAIN queue' : k + 1 \in DOMAIN queue /\ k + 1 # 1 /\ queue'[k] = queue[k + 1]
  <1>1. queue \in Seq(Segs \cup {Sentinel}) /\ queue # <<>> /\ queue' = Tail(queue) /\ i = Head(queue)
    BY DEF TypeOK, Takes
  <1>2. Len(queue) \in Nat /\ Len(queue) # 0 /\ DOMAIN queue = 1..Len(queue)
    BY <1>1, EmptySeq, LenProperties
  <1>3. Capacity \in Int BY ConcurrencyAssumption DEF Capacity
  <1>4. Len(queue) <= Capacity BY DEF TypeOK
  <1>5. queue' \in Seq(Segs \cup {Sentinel}) /\ Len(queue') = Len(queue) - 1
    BY <1>1, <1>2, HeadTailProperties
  <1>6. \A k \in 1..Len(queue') : queue'[k] = queue[k + 1]
    BY <1>1, <1>2, HeadTailProperties
  <1>7. DOMAIN queue' = 1..Len(queue') BY <1>5, LenProperties
  <1>8. 1 \in DOMAIN queue /\ i = queue[1] BY <1>1, <1>2, HeadTailProperties
  <1>9. i \in Segs \cup {Sentinel} BY <1>1, <1>2, HeadTailProperties
  <1> QED BY <1>2, <1>3, <1>4, <1>5, <1>6, <1>7, <1>8, <1>9

LEMMA MoveType ==
  ASSUME TypeOK, NEW w \in Workers, NEW to \in {"off", "get", "lock", "call", "dead"},
         NEW s \in Segs \cup {NoSeg}, Move(w, to, s)
  PROVE  /\ pc' \in [Workers -> {"off", "get", "lock", "call", "dead"}]
         /\ held' \in [Workers -> Segs \cup {NoSeg}]
         /\ pc'[w] = to /\ held'[w] = s
         /\ \A v \in Workers \ {w} : pc'[v] = pc[v] /\ held'[v] = held[v]
  BY DEF TypeOK, Move

-----------------------------------------------------------------------------
(* The steps of a worker *)

\* What a worker does to the ledger keeps the types of all three columns.
LEMMA UnderLockType ==
  ASSUME TypeOK, NEW w \in Workers, NEW s \in Segs, NEW st \in [Segs -> Statuses],
         UnderLock(w, s, st)
  PROVE  /\ status' \in [Segs -> Statuses]
         /\ text' \in [Segs -> Texts]
         /\ pc' \in [Workers -> {"off", "get", "lock", "call", "dead"}]
         /\ held' \in [Workers -> Segs \cup {NoSeg}]
         /\ \A v \in Workers \ {w} : pc'[v] = pc[v] /\ held'[v] = held[v]
         /\ \/ pc'[w] = "get" /\ held'[w] = NoSeg
            \/ pc'[w] = "call" /\ held'[w] = s
  <1>1. Hash[s] \in Hashes BY SegAssumption
  <1>2. NoSeg \notin Segs BY SegAssumption DEF Segs
  <1>3. tm[Hash[s]] \in Texts BY <1>1 DEF TypeOK
  <1>4. text \in [Segs -> Texts] BY DEF TypeOK
  <1>5. CASE StopSeen /\ status' = [st EXCEPT ![s] = GivenBack(@)] /\ UNCHANGED text /\ Rests(w)
    BY <1>4, <1>5, MoveType DEF Rests, GivenBack
  <1>6. CASE /\ ~StopSeen /\ Hit(w, s) /\ Rests(w)
             /\ status' = IF st[s] = "processing" THEN [st EXCEPT ![s] = "done"] ELSE st
             /\ text' = IF st[s] = "processing" THEN [text EXCEPT ![s] = tm[Hash[s]]] ELSE text
    BY <1>3, <1>4, <1>6, MoveType DEF Rests
  <1>7. CASE ~StopSeen /\ ~Hit(w, s) /\ status' = st /\ UNCHANGED text /\ Move(w, "call", s)
    BY <1>4, <1>7, MoveType
  <1> QED BY <1>5, <1>6, <1>7 DEF UnderLock

\* Every step of a worker keeps the types and the shape, and of its queue it only
\* takes the first item.
LEMMA WorksType ==
  ASSUME TypeOK, HolderShape, NEW w \in Workers, Works(w) \/ WorkerDies(w) \/ StoreFails(w)
  PROVE  /\ TypeOK'
         /\ HolderShape'
         /\ \A v \in Workers \ {w} : pc'[v] = pc[v] /\ held'[v] = held[v]
         /\ \/ queue' = queue /\ held'[w] \in {held[w], NoSeg}
            \/ /\ Takes(w, queue[1])
               /\ held[w] = NoSeg /\ held'[w] \in {queue[1], NoSeg}
  <1> DEFINE P == /\ status' \in [Segs -> Statuses]
                  /\ text' \in [Segs -> Texts]
                  /\ tm' \in [Hashes -> Texts]
                  /\ pc' \in [Workers -> {"off", "get", "lock", "call", "dead"}]
                  /\ held' \in [Workers -> Segs \cup {NoSeg}]
                  /\ \A v \in Workers \ {w} : pc'[v] = pc[v] /\ held'[v] = held[v]
                  /\ pc'[w] \in {"lock", "call"} <=> held'[w] # NoSeg
                  /\ \/ queue' = queue /\ held'[w] \in {held[w], NoSeg}
                     \/ /\ Takes(w, queue[1])
                        /\ held[w] = NoSeg /\ held'[w] \in {queue[1], NoSeg}
  <1>1. NoSeg \notin Segs BY SegAssumption DEF Segs
  <1>2. /\ status \in [Segs -> Statuses] /\ text \in [Segs -> Texts] /\ tm \in [Hashes -> Texts]
        /\ pc \in [Workers -> {"off", "get", "lock", "call", "dead"}]
        /\ held \in [Workers -> Segs \cup {NoSeg}]
    BY DEF TypeOK
  <1>3. \A i : Takes(w, i) => i = queue[1] /\ held[w] = NoSeg BY TakesType DEF Takes, HolderShape
  <1>4. pc[w] \in {"lock", "call"} => held[w] \in Segs /\ Hash[held[w]] \in Hashes
    BY <1>2, SegAssumption DEF HolderShape
  <1>5. ASSUME TakePill(w) PROVE P
    BY <1>2, <1>3, <1>5, MoveType DEF TakePill, ledger
  <1>6. ASSUME Skip(w) PROVE P
    BY <1>2, <1>3, <1>6 DEF Skip, ledger, Takes
  <1>7. ASSUME Claim(w) PROVE P
    <2>1. PICK s \in Segs :
             /\ Takes(w, s)
             /\ LET claimed == [status EXCEPT ![s] = "processing"] IN
                  \/ UnderLock(w, s, claimed)
                  \/ status' = claimed /\ UNCHANGED text /\ Move(w, "lock", s)
      BY <1>7 DEF Claim
    <2>2. [status EXCEPT ![s] = "processing"] \in [Segs -> Statuses] BY <1>2
    <2>3. UNCHANGED tm BY <1>7 DEF Claim
    <2>4. CASE UnderLock(w, s, [status EXCEPT ![s] = "processing"])
      <3>1. /\ status' \in [Segs -> Statuses] /\ text' \in [Segs -> Texts]
            /\ pc' \in [Workers -> {"off", "get", "lock", "call", "dead"}]
            /\ held' \in [Workers -> Segs \cup {NoSeg}]
            /\ \A v \in Workers \ {w} : pc'[v] = pc[v] /\ held'[v] = held[v]
            /\ \/ pc'[w] = "get" /\ held'[w] = NoSeg
               \/ pc'[w] = "call" /\ held'[w] = s
        BY <2>2, <2>4, UnderLockType
      <3>2. s = queue[1] /\ held[w] = NoSeg BY <1>3, <2>1
      <3> QED BY <1>1, <1>2, <2>1, <2>3, <3>1, <3>2
    <2>5. CASE status' = [status EXCEPT ![s] = "processing"] /\ UNCHANGED text /\ Move(w, "lock", s)
      BY <1>1, <1>2, <1>3, <2>1, <2>2, <2>3, <2>5, MoveType
    <2> QED BY <2>1, <2>4, <2>5
  <1>8. ASSUME GetLock(w) PROVE P
    <2>1. UNCHANGED tm /\ queue' = queue /\ UnderLock(w, held[w], status) /\ held[w] \in Segs
      BY <1>4, <1>8 DEF GetLock
    <2> QED BY <1>1, <1>2, <2>1, UnderLockType
  <1>9. ASSUME Answer(w) PROVE P
    BY <1>2, <1>4, <1>9, MoveType DEF Answer, Rests, ledger
  <1>10. ASSUME CallFails(w) PROVE P
    BY <1>2, <1>4, <1>10, MoveType DEF CallFails, Rests
  <1>11. ASSUME WorkerDies(w) PROVE P
    <2>1. /\ Move(w, "dead", NoSeg) /\ UNCHANGED <<text, tm>>
          /\ \/ \E s \in Segs : /\ Takes(w, s)
                                /\ status' \in {status, [status EXCEPT ![s] = "processing"]}
             \/ UNCHANGED <<queue, status>>
      BY <1>11 DEF WorkerDies
    <2> QED BY <1>2, <1>3, <2>1, MoveType
  <1>12. ASSUME StoreFails(w) PROVE P
    BY <1>2, <1>4, <1>12, MoveType DEF StoreFails, Rests
  <1>13. P BY <1>5, <1>6, <1>7, <1>8, <1>9, <1>10, <1>11, <1>12 DEF Works
  <1>14. HolderShape' BY <1>13 DEF HolderShape
  <1>15. queue' \in Seq(Segs \cup {Sentinel}) /\ Len(queue') <= Capacity
    BY <1>13, TakesType DEF TypeOK
  <1>16. UNCHANGED <<project, job, server, main, todo, pills, stopEv, requests, boots>>
    BY DEF Works, TakePill, Skip, Claim, GetLock, Answer, CallFails, WorkerDies, StoreFails, counts
  <1>17. faults' \in 0..MaxFaults
    BY LimitAssumption DEF TypeOK, Works, TakePill, Skip, Claim, GetLock, Answer, CallFails, WorkerDies,
       StoreFails, Fault, counts
  <1> QED BY <1>13, <1>14, <1>15, <1>16, <1>17 DEF TypeOK

\* Under the lock only the segment itself is written, and only if it is still
\* being processed; it stays so only in the hands of the worker.
LEMMA UnderLockLedger ==
  ASSUME TypeOK, NEW w \in Workers, NEW s \in Segs, NEW st \in [Segs -> Statuses],
         UnderLock(w, s, st)
  PROVE  /\ \A t \in Segs : t # s \/ st[t] # "processing" => status'[t] = st[t] /\ text'[t] = text[t]
         /\ status'[s] = "processing" => held'[w] = s
         /\ st[s] = "processing" /\ status'[s] \in Finished => text'[s] # "none"
  <1>1. held \in [Workers -> Segs \cup {NoSeg}] /\ text \in [Segs -> Texts] BY DEF TypeOK
  <1>2. CASE StopSeen /\ status' = [st EXCEPT ![s] = GivenBack(@)] /\ UNCHANGED text
    BY <1>2 DEF GivenBack
  <1>3. CASE /\ Hit(w, s)
             /\ status' = IF st[s] = "processing" THEN [st EXCEPT ![s] = "done"] ELSE st
             /\ text' = IF st[s] = "processing" THEN [text EXCEPT ![s] = tm[Hash[s]]] ELSE text
    BY <1>1, <1>3 DEF Hit
  <1>4. CASE status' = st /\ UNCHANGED text /\ Move(w, "call", s)
    BY <1>1, <1>4 DEF Move
  <1> QED BY <1>2, <1>3, <1>4 DEF UnderLock

\* A worker finishes a segment only with a text, leaves what is finished as it is
\* unless the run is forced, and lets go of a segment only by writing its status,
\* unless it dies.
LEMMA WorksLedger ==
  ASSUME TypeOK, HolderShape, QueueInScope, FinishedHasText,
         NEW w \in Workers, Works(w) \/ WorkerDies(w) \/ StoreFails(w)
  PROVE  /\ FinishedHasText'
         /\ \A s \in Segs \ Forced :
               status[s] \in Finished => status'[s] = status[s] /\ text'[s] = text[s]
         /\ pc'[w] # "dead" =>
               \A s \in Segs : status'[s] = "processing" =>
                   held'[w] = s \/ (status[s] = "processing" /\ held[w] # s)
  <1> DEFINE P == /\ \A s \in Segs : status'[s] \in Finished => text'[s] # "none"
                  /\ \A s \in Segs \ Forced :
                        status[s] \in Finished => status'[s] = status[s] /\ text'[s] = text[s]
                  /\ pc'[w] # "dead" =>
                        \A s \in Segs : status'[s] = "processing" =>
                            held'[w] = s \/ (status[s] = "processing" /\ held[w] # s)
  <1>1. NoSeg \notin Segs BY SegAssumption DEF Segs
  <1>2. /\ status \in [Segs -> Statuses] /\ text \in [Segs -> Texts]
        /\ pc \in [Workers -> {"off", "get", "lock", "call", "dead"}]
        /\ held \in [Workers -> Segs \cup {NoSeg}]
        /\ job.mode \in Modes
    BY DEF TypeOK
  <1>3. \A s \in Segs : status[s] \in Finished => text[s] # "none" BY DEF FinishedHasText
  <1>4. \A s \in Segs : Takes(w, s) => held[w] = NoSeg /\ s \in job.scope
    BY <1>1, TakesType DEF Takes, HolderShape, QueueInScope
  <1>5. \A s \in Segs : Takes(w, s) /\ Claims(s) => s \in Forced \/ status[s] \notin Finished
    BY <1>2, <1>4 DEF Claims, Claimable, Forced
  <1>6. pc[w] \in {"lock", "call"} => held[w] \in Segs
    BY <1>2 DEF HolderShape
  <1>7. ASSUME TakePill(w) \/ Skip(w) PROVE P
    <2>1. (pc[w] = "get" /\ held' = held) \/ (pc'[w] = "off" /\ held[w] = NoSeg)
      BY <1>2, <1>7, TakesType, MoveType DEF TakePill, Skip, Takes, HolderShape
    <2>2. held[w] = NoSeg BY <1>2, <1>7 DEF TakePill, Skip, Takes, HolderShape
    <2> QED BY <1>1, <1>3, <1>7, <2>2 DEF TakePill, Skip, ledger
  <1>8. ASSUME Claim(w) PROVE P
    <2> DEFINE claimed(s) == [status EXCEPT ![s] = "processing"]
    <2>1. PICK s \in Segs :
             /\ Takes(w, s) /\ Claims(s)
             /\ \/ UnderLock(w, s, claimed(s))
                \/ status' = claimed(s) /\ UNCHANGED text /\ Move(w, "lock", s)
      BY <1>8 DEF Claim
    <2>2. claimed(s) \in [Segs -> Statuses] BY <1>2
    <2>3. claimed(s)[s] = "processing" /\ \A t \in Segs : t # s => claimed(s)[t] = status[t]
      BY <1>2
    <2>4. held[w] = NoSeg /\ (s \in Forced \/ status[s] \notin Finished) BY <1>4, <1>5, <2>1
    <2>5. CASE UnderLock(w, s, claimed(s))
      <3>0. /\ \A t \in Segs : t # s \/ claimed(s)[t] # "processing" =>
                    status'[t] = claimed(s)[t] /\ text'[t] = text[t]
            /\ status'[s] = "processing" => held'[w] = s
            /\ claimed(s)[s] = "processing" /\ status'[s] \in Finished => text'[s] # "none"
        <4> HIDE DEF claimed
        <4> QED BY <2>2, <2>5, UnderLockLedger
      <3>1. /\ \A t \in Segs : t # s => status'[t] = status[t] /\ text'[t] = text[t]
            /\ status'[s] = "processing" => held'[w] = s
            /\ status'[s] \in Finished => text'[s] # "none"
        <4> HIDE DEF claimed
        <4> QED BY <2>3, <3>0
      <3>2. \A t \in Segs : status'[t] \in Finished => text'[t] # "none" BY <1>3, <3>1
      <3>3. \A t \in Segs \ Forced :
               status[t] \in Finished => status'[t] = status[t] /\ text'[t] = text[t]
        BY <2>4, <3>1
      <3>4. \A t \in Segs : status'[t] = "processing" => held'[w] = t \/ status[t] = "processing"
        BY <3>1
      <3> QED BY <1>1, <2>4, <3>2, <3>3, <3>4
    <2>6. CASE status' = claimed(s) /\ UNCHANGED text /\ Move(w, "lock", s)
      <3>1. held'[w] = s BY <2>6, MoveType
      <3> QED BY <1>1, <1>3, <2>3, <2>4, <2>6, <3>1
    <2> QED BY <2>1, <2>5, <2>6
  <1>9. ASSUME GetLock(w) PROVE P
    <2>1. held[w] \in Segs /\ UnderLock(w, held[w], status) BY <1>6, <1>9 DEF GetLock
    <2>2. /\ \A t \in Segs : t # held[w] \/ status[t] # "processing" =>
                status'[t] = status[t] /\ text'[t] = text[t]
          /\ status'[held[w]] = "processing" => held'[w] = held[w]
          /\ status[held[w]] = "processing" /\ status'[held[w]] \in Finished => text'[held[w]] # "none"
      BY <1>2, <2>1, UnderLockLedger
    <2>3. \A t \in Segs : status'[t] \in Finished => text'[t] # "none" BY <1>3, <2>2
    <2>4. \A t \in Segs \ Forced :
             status[t] \in Finished => status'[t] = status[t] /\ text'[t] = text[t]
      BY <2>2
    <2>5. \A t \in Segs : status'[t] = "processing" =>
             held'[w] = t \/ (status[t] = "processing" /\ held[w] # t)
      BY <2>2
    <2> QED BY <2>3, <2>4, <2>5
  <1>10. ASSUME Answer(w) \/ CallFails(w) \/ StoreFails(w) PROVE P
    <2>1. held[w] \in Segs BY <1>6, <1>10 DEF Answer, CallFails, StoreFails
    <2>2. /\ \A t \in Segs : t # held[w] \/ status[t] # "processing" =>
                status'[t] = status[t] /\ text'[t] = text[t]
          /\ status'[held[w]] # "processing"
          /\ status[held[w]] = "processing" /\ status'[held[w]] \in Finished => text'[held[w]] # "none"
      BY <1>2, <1>10, <2>1 DEF Answer, CallFails, StoreFails, StillProcessing, ledger
    <2> QED BY <1>3, <2>1, <2>2
  <1>11. ASSUME WorkerDies(w) PROVE P
    <2>1. pc'[w] = "dead" BY <1>11, MoveType DEF WorkerDies
    <2>2. text' = text BY <1>11 DEF WorkerDies
    <2>3. CASE status' = status BY <1>3, <2>1, <2>2, <2>3
    <2>4. CASE \E s \in Segs : /\ Takes(w, s) /\ Claims(s)
                               /\ status' = [status EXCEPT ![s] = "processing"]
      BY <1>2, <1>3, <1>5, <2>1, <2>2, <2>4
    <2> QED BY <1>11, <2>3, <2>4 DEF WorkerDies
  <1>12. P BY <1>7, <1>8, <1>9, <1>10, <1>11 DEF Works
  <1> QED BY <1>12 DEF FinishedHasText

\* A worker begins a call only under the lock of the hash, before a stop, and, if
\* the run may use the memory, for a text the memory does not hold.
LEMMA WorksCalls ==
  ASSUME TypeOK, HolderShape, NEW w \in Workers, Works(w) \/ WorkerDies(w) \/ StoreFails(w),
         pc'[w] = "call"
  PROVE  /\ pc[w] # "call"
         /\ held'[w] \in Segs
         /\ \A v \in Workers : pc[v] = "call" => Hash[held[v]] # Hash[held'[w]]
         /\ ~ stopEv
         /\ job.mode # "force" => tm[Hash[held'[w]]] = "none"
         /\ tm' = tm
  <1>1. held \in [Workers -> Segs \cup {NoSeg}] /\ status \in [Segs -> Statuses]
        /\ pc \in [Workers -> {"off", "get", "lock", "call", "dead"}]
    BY DEF TypeOK
  <1>2. ASSUME NEW s \in Segs, NEW st \in [Segs -> Statuses], UnderLock(w, s, st)
        PROVE  held'[w] = s /\ ~ Locked(s) /\ ~ stopEv /\ ~ Hit(w, s)
    BY <1>1, <1>2 DEF UnderLock, Rests, Move, StopSeen
  <1>3. PICK s \in Segs : held'[w] = s /\ ~ Locked(s) /\ ~ stopEv /\ ~ Hit(w, s) /\ pc[w] # "call" /\ tm' = tm
    <2>1. CASE Claim(w)
      <3>1. PICK s \in Segs : /\ pc[w] = "get"
                              /\ \/ UnderLock(w, s, [status EXCEPT ![s] = "processing"])
                                 \/ Move(w, "lock", s)
        BY <2>1 DEF Claim, Takes
      <3>2. ~ Move(w, "lock", s) BY <1>1 DEF Move
      <3>3. [status EXCEPT ![s] = "processing"] \in [Segs -> Statuses] BY <1>1
      <3> QED BY <1>2, <2>1, <3>1, <3>2, <3>3 DEF Claim
    <2>2. CASE GetLock(w)
      <3>1. held[w] \in Segs BY <1>1, <2>2 DEF GetLock, HolderShape
      <3> QED BY <1>1, <1>2, <2>2, <3>1 DEF GetLock
    <2>3. CASE Skip(w) BY <2>3 DEF Skip, Takes
    <2>4. CASE TakePill(w) \/ Answer(w) \/ CallFails(w) \/ WorkerDies(w) \/ StoreFails(w)
      BY <1>1, <2>4 DEF TakePill, Answer, CallFails, WorkerDies, StoreFails, Rests, Move
    <2> QED BY <2>1, <2>2, <2>3, <2>4 DEF Works
  <1> QED BY <1>3 DEF Locked, Hit

\* The queue holds segments of the selection, whatever a worker takes off it.
LEMMA WorksScope ==
  ASSUME TypeOK, HolderShape, QueueInScope, NEW w \in Workers,
         Works(w) \/ WorkerDies(w) \/ StoreFails(w)
  PROVE  QueueInScope'
  <1>1. \/ queue' = queue
        \/ Takes(w, queue[1])
    BY WorksType
  <1>2. job' = job
    BY DEF Works, TakePill, Skip, Claim, GetLock, Answer, CallFails, WorkerDies, StoreFails
  <1>3. CASE queue' = queue BY <1>2, <1>3 DEF QueueInScope
  <1>4. CASE Takes(w, queue[1])
    <2>1. \A k \in DOMAIN queue' : k + 1 \in DOMAIN queue /\ queue'[k] = queue[k + 1]
      BY <1>4, TakesType
    <2> QED BY <1>2, <2>1 DEF QueueInScope
  <1> QED BY <1>1, <1>3, <1>4

\* The inductive invariant over a worker's step: the segment it takes leaves the
\* queue as it gets into its hands, and it calls only under the lock.
LEMMA WorksInductive ==
  ASSUME RunInductive, NEW w \in Workers, Works(w) \/ WorkerDies(w) \/ StoreFails(w)
  PROVE  RunInductive'
  <1>1. TypeOK /\ HolderShape /\ QueueInScope /\ FinishedHasText /\ InOnePlace BY DEF RunInductive
  <1>0. NoSeg \notin todo BY <1>1, SegAssumption DEF TypeOK, Segs
  <1>2. /\ TypeOK' /\ HolderShape'
        /\ \A v \in Workers \ {w} : pc'[v] = pc[v] /\ held'[v] = held[v]
        /\ \/ queue' = queue /\ held'[w] \in {held[w], NoSeg}
           \/ /\ Takes(w, queue[1])
              /\ held[w] = NoSeg /\ held'[w] \in {queue[1], NoSeg}
    BY <1>1, WorksType
  <1>3. FinishedHasText' BY <1>1, WorksLedger
  <1>4. UNCHANGED <<project, job, server, main, todo>>
    BY DEF Works, TakePill, Skip, Claim, GetLock, Answer, CallFails, WorkerDies, StoreFails
  <1>5. pc[w] # "off"
    BY DEF Works, TakePill, Skip, Claim, GetLock, Answer, CallFails, WorkerDies, StoreFails, Takes
  <1>6. RunShape'
    BY <1>4, <1>5 DEF RunInductive, RunShape
  <1>7. (todo \subseteq job.scope)' BY <1>4 DEF RunInductive
  <1>8. ASSUME queue' = queue /\ held'[w] \in {held[w], NoSeg}
        PROVE  QueueInScope' /\ InOnePlace'
    <2>1. QueueInScope' BY <1>1, WorksScope
    <2>2. \A v \in Workers : held'[v] \in {held[v], NoSeg} BY <1>2, <1>8
    <2>3. \A v \in Workers : held'[v] \notin todo
      BY <1>0, <1>1, <2>2 DEF InOnePlace
    <2>4. \A u, v \in Workers : held'[u] = held'[v] /\ held'[u] # NoSeg => u = v
      BY <1>1, <2>2 DEF InOnePlace
    <2>5. \A v \in Workers, k \in DOMAIN queue : held'[v] # NoSeg => queue[k] # held'[v]
      BY <1>1, <2>2 DEF InOnePlace
    <2>6. InOnePlace' BY <1>1, <1>4, <1>8, <2>3, <2>4, <2>5 DEF InOnePlace
    <2> QED BY <2>1, <2>6
  <1>9. ASSUME Takes(w, queue[1]) /\ held[w] = NoSeg /\ held'[w] \in {queue[1], NoSeg}
        PROVE  QueueInScope' /\ InOnePlace'
    <2>1. /\ 1 \in DOMAIN queue /\ DOMAIN queue' \subseteq Nat
          /\ \A k \in DOMAIN queue' : k + 1 \in DOMAIN queue /\ k + 1 # 1 /\ queue'[k] = queue[k + 1]
      BY <1>1, <1>9, TakesType
    <2>2. QueueInScope' BY <1>1, WorksScope
    <2>3. \A k, j \in DOMAIN queue' : queue'[k] = queue'[j] /\ queue'[k] # Sentinel => k = j
      <3>1. \A k, j \in DOMAIN queue : queue[k] = queue[j] /\ queue[k] # Sentinel => k = j
        BY <1>1 DEF InOnePlace
      <3> QED BY <2>1, <3>1
    <2>4. \A k \in DOMAIN queue' : queue'[k] \notin todo /\ (queue'[k] # Sentinel => queue'[k] # queue[1])
      BY <1>1, <2>1 DEF InOnePlace
    <2>5. \A v \in Workers : held'[v] \notin todo
      BY <1>0, <1>1, <1>2, <1>9, <2>1 DEF InOnePlace
    <2>6. \A v \in Workers, k \in DOMAIN queue' : held'[v] # NoSeg => queue'[k] # held'[v]
      BY <1>1, <1>2, <1>9, <2>1, <2>4 DEF InOnePlace
    <2>7. \A u, v \in Workers : held'[u] = held'[v] /\ held'[u] # NoSeg => u = v
      BY <1>1, <1>2, <1>9, <2>1 DEF InOnePlace
    <2> QED BY <1>4, <2>2, <2>3, <2>4, <2>5, <2>6, <2>7 DEF InOnePlace
  <1>10. OneCallPerHash'
    <2>1. \A v \in Workers : v # w /\ pc'[v] = "call" /\ pc'[w] = "call" => Hash[held'[v]] # Hash[held'[w]]
      <3>1. CASE pc[w] = "call" /\ pc'[w] = "call" BY <1>1, <3>1, WorksCalls
      <3>2. CASE pc[w] # "call" /\ pc'[w] = "call" BY <1>1, <1>2, <3>2, WorksCalls
      <3> QED BY <3>1, <3>2
    <2> QED BY <1>2, <2>1 DEF RunInductive, OneCallPerHash
  <1>11. TranslatingWhileRunning' BY <1>4 DEF RunInductive, TranslatingWhileRunning
  <1> QED BY <1>2, <1>3, <1>6, <1>7, <1>8, <1>9, <1>10, <1>11 DEF RunInductive

-----------------------------------------------------------------------------
(* The other steps *)

TasksShape == /\ HolderShape /\ todo \subseteq job.scope
              /\ QueueInScope /\ InOnePlace /\ OneCallPerHash

TasksType == /\ todo \subseteq Segs /\ pills \in 0..Concurrency
             /\ queue \in Seq(Segs \cup {Sentinel}) /\ Len(queue) <= Capacity
             /\ pc \in [Workers -> {"off", "get", "lock", "call", "dead"}]
             /\ held \in [Workers -> Segs \cup {NoSeg}]
             /\ stopEv \in BOOLEAN

LEMMA NoTasksShape ==
  ASSUME NoTasks
  PROVE  TasksShape' /\ TasksType'
  <1>1. queue' = <<>> /\ todo' = {} /\ pills' = 0 /\ stopEv' = FALSE
    BY DEF NoTasks
  <1>2. /\ pc' = [w \in Workers |-> "off"] /\ held' = [w \in Workers |-> NoSeg]
    BY DEF NoTasks
  <1>3. NoSeg \notin {} /\ \A i \in DOMAIN queue' : FALSE BY <1>1
  <1>4. HolderShape' BY <1>2 DEF HolderShape
  <1>5. QueueInScope' BY <1>1, <1>3 DEF QueueInScope
  <1>6. InOnePlace' BY <1>1, <1>2, <1>3 DEF InOnePlace
  <1>7. OneCallPerHash' BY <1>2 DEF OneCallPerHash
  <1>8. TasksType'
    <2>1. <<>> \in Seq(Segs \cup {Sentinel}) /\ Len(<<>>) = 0 BY EmptySeq
    <2>2. 0 <= Capacity /\ 0 \in 0..Concurrency BY ConcurrencyAssumption DEF Capacity
    <2>3. /\ pc' \in [Workers -> {"off", "get", "lock", "call", "dead"}]
          /\ held' \in [Workers -> Segs \cup {NoSeg}]
      BY <1>2
    <2> QED BY <1>1, <2>1, <2>2, <2>3 DEF TasksType
  <1> QED BY <1>1, <1>4, <1>5, <1>6, <1>7, <1>8 DEF TasksShape

\* A step that leaves the tasks alone, and the selection too while they are there.
LEMMA SameTasksShape ==
  ASSUME RunInductive, UNCHANGED <<main, todo, pills, queue, pc, held>>, stopEv' \in BOOLEAN,
         main = "off" \/ job'.scope = job.scope
  PROVE  TasksShape' /\ TasksType'
  <1>1. HolderShape' BY DEF RunInductive, HolderShape
  <1>2. main = "off" => queue = <<>> /\ todo = {} BY DEF RunInductive, RunShape
  <1>3. (todo \subseteq job.scope)' BY <1>2 DEF RunInductive
  <1>4. QueueInScope' BY <1>2 DEF RunInductive, QueueInScope
  <1>5. InOnePlace' BY DEF RunInductive, InOnePlace
  <1>6. OneCallPerHash' BY DEF RunInductive, OneCallPerHash
  <1>7. TasksType' BY DEF RunInductive, TypeOK, TasksType
  <1> QED BY <1>1, <1>3, <1>4, <1>5, <1>6, <1>7 DEF TasksShape

\* A request leaves the tasks alone and enqueues only when there are none.
LEMMA RequestsInductive ==
  ASSUME RunInductive, Requests
  PROVE  RunInductive'
  <1> DEFINE P == /\ RunShape' /\ TasksShape' /\ TasksType' /\ TranslatingWhileRunning'
                  /\ status' \in [Segs -> Statuses]
                  /\ text' \in [Segs -> Texts]
                  /\ tm' \in [Hashes -> Texts]
                  /\ project' \in {"ready", "translating", "done", "error"}
                  /\ job' \in [phase : {"none", "queued", "running", "stopping"},
                               mode : Modes, scope : SUBSET Segs]
                  /\ FinishedHasText'
  <1>1. /\ status \in [Segs -> Statuses] /\ text \in [Segs -> Texts] /\ tm \in [Hashes -> Texts]
        /\ project \in {"ready", "translating", "done", "error"} /\ stopEv \in BOOLEAN
        /\ job \in [phase : {"none", "queued", "running", "stopping"},
                    mode : Modes, scope : SUBSET Segs]
    BY DEF RunInductive, TypeOK
  <1>2. RunShape /\ FinishedHasText /\ TranslatingWhileRunning BY DEF RunInductive
  <1>3. ASSUME UNCHANGED <<project, job, server, main, todo, pills, queue, pc, held, stopEv>>
        PROVE  RunShape' /\ TasksShape' /\ TasksType' /\ TranslatingWhileRunning'
    <2>1. TasksShape' /\ TasksType' BY <1>1, <1>3, SameTasksShape
    <2> QED BY <1>2, <1>3, <2>1 DEF RunShape, TranslatingWhileRunning
  <1>4. ASSUME NEW s \in Segs, NEW st \in Statuses, Edit(s, st) \/ Erase(s, st) \/ Mark(s, st)
        PROVE  P
    <2>1. UNCHANGED <<project, job, server, main, todo, pills, queue, pc, held, stopEv>>
      BY <1>4 DEF Edit, Erase, Mark, run
    <2>2. Hash[s] \in Hashes BY SegAssumption
    <2>3. /\ status' = [status EXCEPT ![s] = st]
          /\ \/ text' = [text EXCEPT ![s] = "user"]
             \/ text' = [text EXCEPT ![s] = "none"] /\ st \notin Finished
             \/ text' = text /\ (st \in Finished => text[s] # "none")
          /\ tm' = tm \/ tm' = [tm EXCEPT ![Hash[s]] = "user"]
      BY <1>4 DEF Edit, Erase, Mark, Markable
    <2>4. FinishedHasText' BY <1>1, <1>2, <2>3 DEF FinishedHasText
    <2>5. status' \in [Segs -> Statuses] /\ text' \in [Segs -> Texts] /\ tm' \in [Hashes -> Texts]
      BY <1>1, <2>2, <2>3
    <2> QED BY <1>1, <1>3, <2>1, <2>4, <2>5
  <1>5. ASSUME NEW S \in Scopes, Review(S) PROVE P
    <2>1. UNCHANGED <<project, job, server, main, todo, pills, queue, pc, held, stopEv>>
      BY <1>5 DEF Review, run
    <2>2. text' = text /\ tm' = tm
          /\ status' = [s \in Segs |-> IF s \in S /\ status[s] \in Finished /\ text[s] # "none"
                                       THEN "reviewed" ELSE status[s]]
      BY <1>5 DEF Review
    <2>3. FinishedHasText' BY <1>1, <1>2, <2>2 DEF FinishedHasText
    <2> QED BY <1>1, <1>3, <2>1, <2>2, <2>3
  <1>6. ASSUME NEW S \in Scopes, Reset(S)
        PROVE  /\ FinishedHasText'
               /\ status' \in [Segs -> Statuses] /\ text' \in [Segs -> Texts]
    BY <1>1, <1>2, <1>6 DEF FinishedHasText, Reset
  <1>7. ASSUME NEW S \in Scopes, SetPending(S) PROVE P
    BY <1>1, <1>3, <1>6, <1>7 DEF SetPending, run
  <1>8. ASSUME NEW mode \in Modes, NEW S \in SUBSET Segs, Idle, job' = Enqueued(mode, S),
               UNCHANGED <<project, server, main, todo, pills, queue, pc, held, stopEv>>
        PROVE  /\ RunShape' /\ TasksShape' /\ TasksType' /\ TranslatingWhileRunning'
               /\ job' \in [phase : {"none", "queued", "running", "stopping"},
                            mode : Modes, scope : SUBSET Segs]
    <2>1. main = "off" BY <1>2, <1>8 DEF RunShape, Idle
    <2>2. TasksShape' /\ TasksType' BY <1>1, <1>8, <2>1, SameTasksShape
    <2> QED BY <1>2, <1>8, <2>1, <2>2 DEF RunShape, TranslatingWhileRunning, Idle, Enqueued
  <1>9. ASSUME NEW S \in Scopes, Retranslate(S) PROVE P
    <2>1. S \in SUBSET Segs BY ScopeAssumption
    <2> QED BY <1>1, <1>6, <1>8, <1>9, <2>1 DEF Retranslate, run
  <1>10. ASSUME NEW S \in Scopes, NEW mode \in {"fresh", "retry"}, Start(mode, S) PROVE P
    <2>1. PICK E \in SUBSET Segs : job' = Enqueued(mode, E)
      <3>1. S \in SUBSET Segs BY ScopeAssumption
      <3> QED BY <1>10, <3>1 DEF Start
    <2>2. UNCHANGED <<status, text, tm>> BY <1>10 DEF Start, ledger
    <2>3. /\ Idle
          /\ UNCHANGED <<project, server, main, todo, pills, queue, pc, held, stopEv>>
      BY <1>10 DEF Start, run
    <2> QED BY <1>1, <1>2, <1>8, <2>1, <2>2, <2>3 DEF FinishedHasText
  <1>11. ASSUME Stop PROVE P
    <2>1. /\ text' = text /\ tm' = tm /\ status' = Swept
          /\ UNCHANGED <<server, main, todo, pills, queue, pc, held>>
          /\ project' = NotTranslating(project) /\ stopEv' \in BOOLEAN
      BY <1>11 DEF Stop
    <2>2. /\ status' \in [Segs -> Statuses] /\ FinishedHasText'
      BY <1>1, <1>2, <2>1, SweptType DEF FinishedHasText, RunInductive
    <2>3. \/ job.phase \in {"none", "queued"} /\ job' = NoJob /\ main = "off"
          \/ job.phase \in {"running", "stopping"} /\ job' = [job EXCEPT !.phase = "stopping"]
      BY <1>1, <1>2, <1>11 DEF Stop, RunShape
    <2>4. /\ job' \in [phase : {"none", "queued", "running", "stopping"},
                       mode : Modes, scope : SUBSET Segs]
          /\ job'.scope = job.scope \/ main = "off"
          /\ job'.phase # "running" /\ (main # "off" => job'.phase = "stopping")
      BY <1>1, <2>3 DEF NoJob
    <2>5. TasksShape' /\ TasksType' BY <2>1, <2>4, SameTasksShape
    <2>6. RunShape' BY <1>2, <2>1, <2>4 DEF RunShape
    <2>7. TranslatingWhileRunning' /\ project' \in {"ready", "translating", "done", "error"}
      BY <1>1, <2>1, <2>4 DEF TranslatingWhileRunning, NotTranslating
    <2> QED BY <1>1, <2>1, <2>2, <2>4, <2>5, <2>6, <2>7
  <1>12. P
    BY <1>4, <1>5, <1>7, <1>9, <1>10, <1>11, ScopeAssumption DEF Requests
  <1>13. /\ Request /\ UNCHANGED <<server, main, boots, faults>>
    BY DEF Requests, Edit, Erase, Mark, Review, SetPending, Retranslate, Start, Stop, run
  <1>14. TypeOK'
    <2>1. /\ requests' \in 0..MaxRequests /\ boots' \in 0..MaxBoots /\ faults' \in 0..MaxFaults
          /\ server' \in {"down", "up", "closing"}
          /\ main' \in {"off", "feeding", "putting", "sealing", "joining", "unwinding"}
      BY <1>13, LimitAssumption DEF Request, RunInductive, TypeOK
    <2> QED BY <1>12, <2>1 DEF TypeOK, TasksType
  <1> QED BY <1>12, <1>14 DEF RunInductive, TasksShape

\* The team of a run has one worker at least, and no more than there are tasks for.
LEMMA TeamType == ASSUME RunInductive PROVE Team \in 1..Concurrency
  <1>1. Candidates \subseteq Segs
    BY DEF Candidates, RunInductive, TypeOK
  <1>2. IsFiniteSet(Segs) BY SegAssumption, FS_Interval DEF Segs
  <1>3. Cardinality(Candidates) \in Nat BY <1>1, <1>2, FS_Subset, FS_CardinalityType
  <1> QED BY <1>3, ConcurrencyAssumption DEF Team

\* A run that starts begins with everything to be fed and nobody at work.
LEMMA RunStartsInductive ==
  ASSUME RunInductive, RunStarts
  PROVE  RunInductive'
  <1>1. /\ main = "off" /\ queue = <<>> /\ \A w \in Workers : pc[w] = "off"
        /\ \A w \in Workers : held[w] = NoSeg
    BY DEF RunStarts, RunInductive, RunShape, HolderShape
  <1>2. /\ server' = server /\ server = "up" /\ main' = "feeding" /\ todo' = Candidates /\ pills' = Team
        /\ pc' = [w \in Workers |-> IF w <= Team THEN "get" ELSE "off"]
        /\ status' = Swept /\ project' = "translating" /\ text' = text /\ tm' = tm
        /\ job' = [job EXCEPT !.phase = "running"]
        /\ UNCHANGED <<queue, held, stopEv, requests, boots, faults>>
    BY DEF RunStarts, counts
  <1>3. Candidates \subseteq job.scope /\ Candidates \subseteq Segs
    BY DEF Candidates, RunInductive, TypeOK
  <1>4. /\ job' \in [phase : {"none", "queued", "running", "stopping"},
                     mode : Modes, scope : SUBSET Segs]
        /\ job'.scope = job.scope /\ job'.phase = "running"
    BY <1>2 DEF RunInductive, TypeOK
  <1>5. status' \in [Segs -> Statuses] /\ FinishedHasText'
    BY <1>2, SweptType DEF RunInductive, TypeOK, FinishedHasText
  <1>6. TypeOK'
    <2>1. Team \in 0..Concurrency BY TeamType, ConcurrencyAssumption
    <2>2. pc' \in [Workers -> {"off", "get", "lock", "call", "dead"}] BY <1>2
    <2>3. held \in [Workers -> Segs \cup {NoSeg}] /\ text \in [Segs -> Texts]
          /\ queue \in Seq(Segs \cup {Sentinel}) /\ Len(queue) <= Capacity
      BY DEF RunInductive, TypeOK
    <2> QED BY <1>2, <1>3, <1>4, <1>5, <2>1, <2>2, <2>3 DEF TypeOK, RunInductive
  <1>7. RunShape' BY <1>2, <1>4 DEF RunShape
  <1>8. \A w \in Workers : pc'[w] \in {"get", "off"} /\ held'[w] = NoSeg BY <1>1, <1>2
  <1>9. HolderShape' /\ OneCallPerHash' BY <1>8 DEF HolderShape, OneCallPerHash
  <1>10. QueueInScope' BY <1>1, <1>2 DEF QueueInScope
  <1>11. InOnePlace'
    <2>1. NoSeg \notin Candidates BY <1>3, SegAssumption DEF Segs
    <2> QED BY <1>1, <1>2, <1>8, <2>1 DEF InOnePlace
  <1>12. TranslatingWhileRunning' BY <1>2, <1>4 DEF TranslatingWhileRunning
  <1> QED BY <1>2, <1>3, <1>4, <1>5, <1>6, <1>7, <1>9, <1>10, <1>11, <1>12 DEF RunInductive

LEMMA RunRefusedInductive ==
  ASSUME RunInductive, RunRefused
  PROVE  RunInductive'
  <1>1. /\ UNCHANGED <<text, tm, server, main, todo, pills, queue, pc, held, stopEv, requests, boots, faults>>
        /\ main = "off" /\ job' \in {job, NoJob} /\ status' = Swept /\ project' = "error"
    BY DEF RunRefused, run, counts
  <1>2. TasksShape' /\ TasksType' BY <1>1, SameTasksShape DEF RunInductive, TypeOK
  <1>3. /\ job' \in [phase : {"none", "queued", "running", "stopping"},
                     mode : Modes, scope : SUBSET Segs]
    BY <1>1 DEF RunInductive, TypeOK, NoJob
  <1>4. status' \in [Segs -> Statuses] /\ FinishedHasText'
    BY <1>1, SweptType DEF RunInductive, TypeOK, FinishedHasText
  <1>5. TypeOK' BY <1>1, <1>2, <1>3, <1>4 DEF TypeOK, RunInductive, TasksType
  <1>6. RunShape' /\ TranslatingWhileRunning'
    BY <1>1 DEF RunInductive, RunShape, TranslatingWhileRunning
  <1> QED BY <1>2, <1>4, <1>5, <1>6 DEF RunInductive, TasksShape

\* A segment that is put is in the queue and no longer to be fed.
LEMMA PutShape ==
  ASSUME RunInductive, NEW s, First(s), Room, Put(s), UNCHANGED <<pills, pc, held, job, stopEv>>
  PROVE  TasksShape' /\ TasksType'
  <1>1. /\ s \in todo /\ s \in Segs /\ s \in job.scope /\ todo \subseteq Segs /\ s # NoSeg
        /\ queue \in Seq(Segs \cup {Sentinel})
    BY SegAssumption DEF First, RunInductive, TypeOK, Segs
  <1>2. queue' = Append(queue, s) /\ todo' = todo \ {s} BY DEF Put
  <1>3. /\ queue' \in Seq(Segs \cup {Sentinel}) /\ Len(queue') = Len(queue) + 1 /\ Len(queue) \in Nat
        /\ \A k \in 1..Len(queue) : queue'[k] = queue[k]
        /\ queue'[Len(queue) + 1] = s
    BY <1>1, <1>2, AppendProperties, LenProperties
  <1>4. DOMAIN queue = 1..Len(queue) /\ DOMAIN queue' = 1..(Len(queue) + 1)
    BY <1>1, <1>3, LenProperties
  <1>5. Len(queue') <= Capacity
    BY <1>3, ConcurrencyAssumption DEF Room, Capacity
  <1>6. \A k \in DOMAIN queue' : queue'[k] = s \/ (k \in DOMAIN queue /\ queue'[k] = queue[k])
    BY <1>3, <1>4
  <1>7. \A k \in DOMAIN queue' : queue'[k] = s => k = Len(queue) + 1
    BY <1>1, <1>3, <1>4 DEF RunInductive, InOnePlace
  <1>8. InOnePlace /\ HolderShape /\ OneCallPerHash /\ QueueInScope BY DEF RunInductive
  <1>9. InOnePlace'
    <2>1. \A i, j \in DOMAIN queue' : queue'[i] = queue'[j] /\ queue'[i] # Sentinel => i = j
      BY <1>6, <1>7, <1>8 DEF InOnePlace
    <2>2. \A i \in DOMAIN queue' : queue'[i] \notin todo'
      BY <1>2, <1>6, <1>8 DEF InOnePlace
    <2>3. \A w \in Workers : held'[w] \notin todo' /\ held'[w] # s
      BY <1>1, <1>2, <1>8 DEF InOnePlace
    <2>4. \A w \in Workers, i \in DOMAIN queue' : held'[w] # NoSeg => queue'[i] # held'[w]
      BY <1>6, <1>8, <2>3 DEF InOnePlace
    <2> QED BY <1>8, <2>1, <2>2, <2>3, <2>4 DEF InOnePlace
  <1>10. QueueInScope' BY <1>1, <1>6, <1>8 DEF QueueInScope
  <1>11. HolderShape' /\ OneCallPerHash' BY <1>8 DEF HolderShape, OneCallPerHash
  <1>12. (todo \subseteq job.scope)' BY <1>2 DEF RunInductive
  <1>13. TasksType' BY <1>2, <1>3, <1>5 DEF TasksType, RunInductive, TypeOK
  <1> QED BY <1>9, <1>10, <1>11, <1>12, <1>13 DEF TasksShape

\* The sentinels come after the segments, and there is room for them.
LEMMA SealShape ==
  ASSUME RunInductive, Seal
  PROVE  TasksShape' /\ TasksType'
  <1> DEFINE free == Capacity - Len(queue)
             n    == IF Sealed < free THEN Sealed ELSE free
             more == [i \in 1..n |-> Sentinel]
  <1>1. /\ queue \in Seq(Segs \cup {Sentinel}) /\ Len(queue) \in Nat /\ Capacity \in Nat
        /\ Len(queue) < Capacity /\ pills \in 0..Concurrency
        /\ DOMAIN queue = 1..Len(queue)
    BY ConcurrencyAssumption, LenProperties DEF Seal, Room, RunInductive, TypeOK, Capacity
  <1>2. n \in Nat /\ n <= free /\ n <= pills /\ free \in Nat BY <1>1 DEF Sealed
  <1>3. queue' = queue \o more /\ pills' = Sealed - n
        /\ UNCHANGED <<job, todo, pc, held, stopEv>>
    BY DEF Seal, ledger, counts
  <1> HIDE DEF n, free
  <1>4. more \in Seq(Segs \cup {Sentinel}) /\ Len(more) = n BY <1>2
  <1>5. \A k \in 1..n : more[k] = Sentinel OBVIOUS
  <1> HIDE DEF more
  <1>6. /\ queue' \in Seq(Segs \cup {Sentinel}) /\ Len(queue') = Len(queue) + n
        /\ \A k \in 1..(Len(queue) + n) :
              queue'[k] = IF k <= Len(queue) THEN queue[k] ELSE more[k - Len(queue)]
    BY <1>1, <1>3, <1>4, ConcatProperties
  <1>7. DOMAIN queue' = 1..(Len(queue) + n) BY <1>6, LenProperties
  <1>8. \A k \in DOMAIN queue' : queue'[k] = Sentinel \/ (k \in DOMAIN queue /\ queue'[k] = queue[k])
    BY <1>1, <1>2, <1>5, <1>6, <1>7
  <1>9. Len(queue') <= Capacity BY <1>1, <1>2, <1>6 DEF free
  <1>10. pills' \in 0..Concurrency BY <1>1, <1>2, <1>3, ConcurrencyAssumption DEF Sealed
  <1>11. InOnePlace /\ HolderShape /\ OneCallPerHash /\ QueueInScope BY DEF RunInductive
  <1>12. Sentinel \notin todo BY SegAssumption DEF RunInductive, TypeOK, Segs
  <1>13. InOnePlace' BY <1>3, <1>8, <1>11, <1>12 DEF InOnePlace
  <1>14. QueueInScope' BY <1>3, <1>8, <1>11 DEF QueueInScope
  <1>15. HolderShape' /\ OneCallPerHash' BY <1>3, <1>11 DEF HolderShape, OneCallPerHash
  <1>16. (todo \subseteq job.scope)' BY <1>3 DEF RunInductive
  <1>17. TasksType' BY <1>3, <1>6, <1>9, <1>10 DEF TasksType, RunInductive, TypeOK
  <1> QED BY <1>13, <1>14, <1>15, <1>16, <1>17 DEF TasksShape

\* The coroutine of the run up to the join: it moves segments, and writes nothing.
LEMMA FeedingInductive ==
  ASSUME RunInductive, Feed \/ PutResumes \/ FeedEnds \/ Seal
  PROVE  RunInductive'
  <1>1. /\ UNCHANGED <<status, text, tm, project, job, server, pc, held, stopEv, requests, boots, faults>>
        /\ main # "off" /\ main # "unwinding" /\ main' # "off" /\ main' # "unwinding"
        /\ main' \in {"feeding", "putting", "sealing", "joining"}
    BY DEF Feed, PutResumes, FeedEnds, Seal, ledger, counts
  <1>2. TasksShape' /\ TasksType'
    <2>1. CASE Seal BY <2>1, SealShape
    <2>2. CASE \E s \in todo : /\ First(s) /\ Room /\ Put(s)
                               /\ UNCHANGED <<pills, pc, held, job, stopEv>>
      BY <2>2, PutShape
    <2>3. CASE UNCHANGED <<todo, pills, queue>>
      <3>1. HolderShape' /\ QueueInScope' /\ InOnePlace' /\ OneCallPerHash' /\ (todo \subseteq job.scope)'
        BY <1>1, <2>3 DEF RunInductive, HolderShape, QueueInScope, InOnePlace, OneCallPerHash
      <3>2. TasksType' BY <1>1, <2>3 DEF RunInductive, TypeOK, TasksType
      <3> QED BY <3>1, <3>2 DEF TasksShape
    <2> QED BY <2>1, <2>2, <2>3 DEF Feed, PutResumes, FeedEnds
  <1>3. TypeOK' BY <1>1, <1>2 DEF TypeOK, TasksType, RunInductive
  <1>4. RunShape' BY <1>1 DEF RunInductive, RunShape
  <1>5. FinishedHasText' BY <1>1 DEF RunInductive, FinishedHasText
  <1>6. TranslatingWhileRunning' BY <1>1 DEF RunInductive, TranslatingWhileRunning
  <1> QED BY <1>2, <1>3, <1>4, <1>5, <1>6 DEF RunInductive, TasksShape

\* A run that returns, is swept up after, or is ended by a crash leaves no task.
LEMMA RunGoneInductive ==
  ASSUME RunInductive, RunReturns \/ Unwind \/ Crash
  PROVE  RunInductive'
  <1>1. /\ NoTasks /\ text' = text /\ tm' = tm /\ UNCHANGED <<requests, boots, faults>>
        /\ status' \in {status, Swept}
        /\ \/ job' = NoJob /\ project' \in {"done", "ready"} /\ server' = server /\ main # "off"
           \/ job' = job /\ project' = project /\ server' = "down"
    BY DEF RunReturns, Unwind, Crash, ledger, counts, AfterCancel
  <1>2. TasksShape' /\ TasksType' BY <1>1, NoTasksShape
  <1>3. main' = "off" /\ todo' = {} /\ queue' = <<>> /\ \A w \in Workers : pc'[w] = "off"
    BY <1>1 DEF NoTasks
  <1>4. status' \in [Segs -> Statuses] /\ FinishedHasText'
    BY <1>1, SweptType DEF RunInductive, TypeOK, FinishedHasText
  <1>5. /\ job' \in [phase : {"none", "queued", "running", "stopping"},
                     mode : Modes, scope : SUBSET Segs]
    BY <1>1 DEF RunInductive, TypeOK, NoJob
  <1>6. TypeOK' BY <1>1, <1>2, <1>3, <1>4, <1>5 DEF TypeOK, TasksType, RunInductive
  <1>7. RunShape' BY <1>3 DEF RunShape
  <1>8. TranslatingWhileRunning' BY <1>1, <1>3 DEF TranslatingWhileRunning
  <1> QED BY <1>2, <1>4, <1>6, <1>7, <1>8 DEF RunInductive, TasksShape

\* The start and the end of the process.
LEMMA ProcessInductive ==
  ASSUME RunInductive, ShutdownBegins \/ ShutdownEnds \/ Boot
  PROVE  RunInductive'
  <1>1. /\ UNCHANGED <<text, tm, main, todo, pills, queue, pc, held, requests, faults>>
        /\ status' \in {status, Swept} /\ stopEv' \in BOOLEAN
        /\ server' \in {"down", "up", "closing"}
        /\ job' \in {job, [job EXCEPT !.phase = "queued"]}
        /\ \/ project' = project /\ job' = job /\ boots' = boots
           \/ /\ server = "down" /\ project' = NotTranslating(project)
              /\ boots < MaxBoots /\ boots' = boots + 1
    BY DEF ShutdownBegins, ShutdownEnds, Boot, ledger, run, counts, RunInductive, TypeOK
  <1>2. /\ job' \in [phase : {"none", "queued", "running", "stopping"},
                     mode : Modes, scope : SUBSET Segs]
        /\ job'.scope = job.scope
    BY <1>1 DEF RunInductive, TypeOK
  <1>3. TasksShape' /\ TasksType' BY <1>1, <1>2, SameTasksShape
  <1>4. status' \in [Segs -> Statuses] /\ FinishedHasText'
    BY <1>1, SweptType DEF RunInductive, TypeOK, FinishedHasText
  <1>5. project' \in {"ready", "translating", "done", "error"} /\ boots' \in 0..MaxBoots
    BY <1>1, LimitAssumption DEF RunInductive, TypeOK, NotTranslating
  <1>6. TypeOK' BY <1>1, <1>2, <1>3, <1>4, <1>5 DEF TypeOK, TasksType, RunInductive
  <1>7. RunShape'
    BY DEF ShutdownBegins, ShutdownEnds, Boot, run, RunInductive, RunShape
  <1>8. TranslatingWhileRunning'
    BY DEF ShutdownBegins, ShutdownEnds, Boot, run, RunInductive, RunShape, NotTranslating,
       TranslatingWhileRunning
  <1> QED BY <1>3, <1>4, <1>6, <1>7, <1>8 DEF RunInductive, TasksShape

LEMMA CancelInductive ==
  ASSUME RunInductive, Cancel
  PROVE  RunInductive'
  <1>1. /\ UNCHANGED <<text, tm, project, job, server, todo, pills, queue, stopEv, requests, boots, faults>>
        /\ main' = "unwinding" /\ main \notin {"off", "unwinding"}
        /\ pc' = [w \in Workers |-> "off"]
        /\ held' = [w \in Workers |-> NoSeg]
        /\ status' = [s \in Segs |-> IF \E w \in Workers : pc[w] = "call" /\ held[w] = s
                                     THEN GivenBack(status[s]) ELSE status[s]]
    BY DEF Cancel, counts
  <1>2. status' \in [Segs -> Statuses] /\ FinishedHasText'
    BY <1>1 DEF RunInductive, TypeOK, FinishedHasText, GivenBack
  <1>3. /\ pc' \in [Workers -> {"off", "get", "lock", "call", "dead"}]
        /\ held' \in [Workers -> Segs \cup {NoSeg}]
    BY <1>1
  <1>4. TypeOK' BY <1>1, <1>2, <1>3 DEF RunInductive, TypeOK
  <1>5. RunShape' BY <1>1 DEF RunInductive, RunShape
  <1>6. HolderShape' /\ OneCallPerHash' BY <1>1 DEF HolderShape, OneCallPerHash
  <1>7. QueueInScope' /\ (todo \subseteq job.scope)' BY <1>1 DEF RunInductive, QueueInScope
  <1>8. InOnePlace'
    <2>1. NoSeg \notin todo BY SegAssumption DEF RunInductive, TypeOK, Segs
    <2> QED BY <1>1, <2>1 DEF RunInductive, InOnePlace
  <1>9. TranslatingWhileRunning' BY <1>1 DEF RunInductive, TranslatingWhileRunning
  <1> QED BY <1>2, <1>4, <1>5, <1>6, <1>7, <1>8, <1>9 DEF RunInductive

LEMMA InitInductive == Init => RunInductive
  <1> SUFFICES ASSUME Init PROVE RunInductive OBVIOUS
  <1>1. NoSeg \notin {} /\ <<>> \in Seq(Segs \cup {Sentinel}) /\ Len(<<>>) = 0 BY EmptySeq
  <1>2. TypeOK
    <2>1. 0 <= Capacity /\ 0 \in 0..Concurrency BY ConcurrencyAssumption DEF Capacity
    <2>2. 0 \in 0..MaxRequests /\ 0 \in 0..MaxBoots /\ 0 \in 0..MaxFaults BY LimitAssumption
    <2>3. /\ NoJob \in [phase : {"none", "queued", "running", "stopping"},
                        mode : Modes, scope : SUBSET Segs]
      BY DEF NoJob
    <2>4. /\ status \in [Segs -> Statuses] /\ text \in [Segs -> Texts] /\ tm \in [Hashes -> Texts]
          /\ pc \in [Workers -> {"off", "get", "lock", "call", "dead"}]
          /\ held \in [Workers -> Segs \cup {NoSeg}]
      BY DEF Init
    <2> HIDE DEF NoSeg, Sentinel, Finished, Statuses, Texts, Modes
    <2> QED BY <1>1, <2>1, <2>2, <2>3, <2>4 DEF Init, TypeOK
  <1>3. RunShape /\ HolderShape /\ todo \subseteq job.scope BY DEF Init, RunShape, HolderShape
  <1>4. QueueInScope /\ InOnePlace /\ OneCallPerHash BY DEF Init, QueueInScope, InOnePlace, OneCallPerHash
  <1>5. FinishedHasText /\ TranslatingWhileRunning BY DEF Init, FinishedHasText, TranslatingWhileRunning
  <1> QED BY <1>2, <1>3, <1>4, <1>5 DEF RunInductive

\* Every step of the run keeps the inductive invariant.
LEMMA NextInductive == RunInductive /\ Next => RunInductive'
  BY WorksInductive, RequestsInductive, RunStartsInductive, RunRefusedInductive, FeedingInductive,
     RunGoneInductive, ProcessInductive, CancelInductive
  DEF Next, Coroutine
=============================================================================
