----------------------------- MODULE FailedRun -----------------------------
(***************************************************************************)
(* A run whose coroutine fails while its workers go on.                    *)
(*                                                                         *)
(* ensure_chapter_summary() reads the chapter outside of its try: an error *)
(* there leaves translate_project() (backend/app/engine/translator.py),    *)
(* which waits for its workers only when it is cancelled.  The job is      *)
(* queued again or given up, and a later run of the project has workers,   *)
(* a queue and locks of its own beside the ones left behind, which go on   *)
(* until their queue is empty and never hear of a stop.                    *)
(***************************************************************************)
EXTENDS TranslationRun

CONSTANT
    MaxRequestsLeft  \* bound: user requests of a behaviour with workers left behind

ASSUME LeftAssumption == MaxRequestsLeft \in Nat

VARIABLES
    leftPc, leftHeld,  \* the workers the failed run has left behind
    leftQueue,         \* their queue
    leftJob,           \* the job they work for
    leftStop           \* their stop event: the handler that would set it is gone

left == <<leftPc, leftHeld, leftQueue, leftJob, leftStop>>
allVars == <<vars, left>>

NothingLeft ==
    /\ leftPc = [w \in Workers |-> "off"] /\ leftHeld = [w \in Workers |-> NoSeg]
    /\ leftQueue = <<>> /\ leftJob = NoJob /\ leftStop = FALSE

\* Until the process ends they keep their stop event as it is.
Leaves(p, h, q, j) ==
    leftPc' = p /\ leftHeld' = h /\ leftQueue' = q /\ leftJob' = j /\ UNCHANGED leftStop

\* A worker left behind is one like any other.
Left == INSTANCE TranslationRun
            WITH pc <- leftPc, held <- leftHeld, queue <- leftQueue, job <- leftJob,
                 stopEv <- leftStop

\* The turn of the feeding loop that would begin a chapter.
SummaryReadFails ==
    /\ NothingLeft
    /\ main = "feeding" /\ ~ stopEv /\ todo # {}
    /\ Fault /\ requests <= MaxRequestsLeft
    /\ Leaves(pc, held, queue, job)
    /\ NoTasks
    /\ job' \in {[job EXCEPT !.phase = "queued"], NoJob}
    /\ project' = "error"
    /\ UNCHANGED <<ledger, server, requests, boots>>

\* It waits for its queue in the end, for nobody sends it a sentinel.
LeftWorks(w) ==
    /\ Left!Skip(w) \/ Left!Claim(w) \/ Left!GetLock(w) \/ Left!Answer(w) \/ Left!CallFails(w)
    /\ UNCHANGED <<job, pc, held, queue, stopEv>>

FailedRunInit == Init /\ NothingLeft

\* With the process all its tasks are gone.
LeftAfterStep ==
    IF server' # "down" THEN UNCHANGED left
    ELSE Leaves([w \in Workers |-> "off"], [w \in Workers |-> NoSeg], <<>>, NoJob)

FailedRunNext ==
    \/ /\ Next
       /\ LeftAfterStep
       /\ leftJob # NoJob => requests' <= MaxRequestsLeft
    \/ SummaryReadFails
    \/ \E w \in Workers : LeftWorks(w)

FailedRunSpec == FailedRunInit /\ [][FailedRunNext]_allVars

-----------------------------------------------------------------------------
(* Properties *)

NobodyDied == \A w \in Workers : pc[w] # "dead" /\ leftPc[w] # "dead"

\* While the server runs, a segment is processing only in the hands of a
\* worker that will write its result or give it back, and of one worker of its
\* run only; a cancelled run has until its sweep.  A worker that died holds
\* nothing: its segment stays behind.
HeldWhileProcessing ==
    server # "down" /\ main # "unwinding" /\ NobodyDied =>
        \A s \in Segs :
            status[s] = "processing" =>
                \/ \E w \in Workers : held[w] = s /\ \A v \in Workers : held[v] = s => v = w
                \/ \E w \in Workers : leftHeld[w] = s

\* Unless the run was forced, the model is not asked for a text it has already
\* translated and the memory holds: the worker that waited for the answer of
\* another one uses it.  Workers left behind have locks of their own: they may
\* answer for the same text at the same time.
NoCallForKnownText ==
    NothingLeft /\ job.mode # "force" =>
        \A w \in Workers : pc[w] = "call" => tm[Hash[held[w]]] # "machine"

\* What is finished stays as it is: apart from user requests, no step changes
\* a finished segment outside the scope of a forced run, however late the
\* answer, whatever was edited since the candidates were collected, and though
\* a failed run has left its workers beside those of the next.
FinishedIsKept ==
    [][requests' = requests =>
          \A s \in Segs \ (Forced \cup Left!Forced) :
              status[s] \in Finished => status'[s] = status[s] /\ text'[s] = text[s]]_allVars

\* The inductive invariant of the proofs: that of the run, the types and shape of
\* what a failed run has left, and the invariants about both.
FailedRunInductive ==
    /\ RunInductive
    /\ Left!TypeOK
    /\ Left!HolderShape
    /\ Left!QueueInScope
    /\ leftStop = FALSE
    /\ NoCallForKnownText
    /\ HeldWhileProcessing
=============================================================================
