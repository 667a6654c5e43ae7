---------------------------- MODULE RetryPolicy ----------------------------
(***************************************************************************)
(* How the workers of one run call the model: attempts, backoff, timeouts, *)
(* the cooldown they share after a 429, and the draft a streamed answer    *)
(* builds up (translate_with_retry, stream_with_retry and                  *)
(* RateLimitCoordinator of backend/app/engine/translator.py).              *)
(*                                                                         *)
(* Time is counted in ticks; cooldown, sleep, spent and due hold what is   *)
(* left or gone by.  Timers are punctual: no tick passes while a task is   *)
(* due to go on.  The lock of the coordinator is never held across an      *)
(* await and needs no state.  A worker asks again and again, so nothing    *)
(* here is bounded but what the policy bounds.                             *)
(***************************************************************************)
EXTENDS Integers

CONSTANTS
    Callers,        \* the workers of the run
    MaxTries,       \* RetryPolicy.max_attempts
    BaseDelay, MaxDelay, JitterPercent,
    CallTimeout     \* RetryPolicy.timeout

ASSUME RetryAssumption ==
    /\ MaxTries \in Nat \ {0} /\ CallTimeout \in Nat \ {0}
    /\ BaseDelay \in Nat \ {0} /\ MaxDelay \in Nat /\ JitterPercent \in Nat

VARIABLES
    at,        \* where each caller is
    try,       \* its attempt
    streams,   \* it calls stream_with_retry
    error,     \* what its latest attempt failed with
    sleep,     \* ticks left of its sleep
    spent,     \* ticks its attempt has taken
    cooldown,  \* ticks left until _cooldown_until
    draft,     \* the attempts whose chunks the reader is shown
    due        \* (history) ticks left of the delay its last failure asked for

retryVars == <<at, try, streams, error, sleep, spent, cooldown, draft, due>>

-----------------------------------------------------------------------------
Working == {"gate", "calling", "failed"}

Goes(c, place) == at' = [at EXCEPT ![c] = place]

Smaller(a, b) == IF a < b THEN a ELSE b
Larger(a, b) == IF a > b THEN a ELSE b

\* The delay after attempt n, with some jitter.
Delays(n) ==
    LET delay == Smaller(MaxDelay, BaseDelay * 2 ^ (n - 1))
    IN  delay .. (delay + (JitterPercent * delay) \div 100)

WorthRetrying(e) == e \in {"rate_limit", "transient"}

Ask(c) ==
    /\ at[c] \in {"idle", "answered", "raised"}
    /\ \E s \in BOOLEAN : streams' = [streams EXCEPT ![c] = s]
    /\ Goes(c, "gate")
    /\ try' = [try EXCEPT ![c] = 1]
    /\ error' = [error EXCEPT ![c] = "none"]
    /\ draft' = [draft EXCEPT ![c] = {}]
    /\ UNCHANGED <<sleep, spent, cooldown, due>>

\* rate_limit.wait() returns.
Pass(c) == at[c] = "gate" /\ sleep[c] = 0 /\ cooldown = 0

Call(c) ==
    /\ Pass(c)
    /\ Goes(c, "calling")
    /\ spent' = [spent EXCEPT ![c] = 0]
    /\ error' = [error EXCEPT ![c] = "none"]
    /\ UNCHANGED <<try, streams, sleep, cooldown, draft, due>>

\* rate_limit.wait() sleeps for what is left, and looks again.
HoldBack(c) ==
    /\ at[c] = "gate" /\ sleep[c] = 0 /\ cooldown > 0 /\ ~ Pass(c)
    /\ sleep' = [sleep EXCEPT ![c] = cooldown]
    /\ UNCHANGED <<at, try, streams, error, spent, cooldown, draft, due>>

Chunk(c) ==
    /\ at[c] = "calling" /\ streams[c]
    /\ draft' = [draft EXCEPT ![c] = @ \cup {try[c]}]
    /\ UNCHANGED <<at, try, streams, error, sleep, spent, cooldown, due>>

Answers(c) ==
    /\ at[c] = "calling" /\ spent[c] > 0
    /\ Goes(c, "answered")
    /\ UNCHANGED <<try, streams, error, sleep, spent, cooldown, draft, due>>

\* The last attempt, or an error that is no use retrying, is raised.
Fails(c, e) ==
    /\ at[c] = "calling"
    /\ error' = [error EXCEPT ![c] = e]
    /\ Goes(c, IF try[c] >= MaxTries \/ ~ WorthRetrying(e) THEN "raised" ELSE "failed")
    /\ UNCHANGED <<try, streams, sleep, spent, cooldown, draft, due>>

Refused(c) == spent[c] > 0 /\ \E e \in {"rate_limit", "transient", "fatal"} : Fails(c, e)

\* A fault: a call has no timeout.
NeverUp(c) == FALSE

\* asyncio.timeout() and wait_for(); the time the draft is shown counts.
TimesUp(c) == spent[c] >= CallTimeout

TimesOut(c) == TimesUp(c) /\ Fails(c, "transient")

\* A fault: the next attempt adds to the draft of this one.
KeepsDraft(c) == draft[c]

\* on_reset(), when there were chunks
Reset(c) == {}

\* A fault: a cooldown that another worker has asked for is cut short.
LastPenalty(delay) == delay

\* penalize()
Penalty(delay) == Larger(cooldown, delay)

\* After a 429 the caller waits at the gate, otherwise it sleeps on its own.
BackOff(c) ==
    /\ at[c] = "failed"
    /\ draft' = [draft EXCEPT ![c] = Reset(c)]
    /\ \E delay \in Delays(try[c]) :
          /\ due' = [due EXCEPT ![c] = delay]
          /\ IF error[c] = "rate_limit"
             THEN cooldown' = Penalty(delay) /\ UNCHANGED sleep
             ELSE sleep' = [sleep EXCEPT ![c] = delay] /\ UNCHANGED cooldown
    /\ try' = [try EXCEPT ![c] = @ + 1]
    /\ Goes(c, "gate")
    /\ UNCHANGED <<streams, error, spent>>

\* CancelledError is passed on from every await; the run is over for this worker.
Cancelled(c) ==
    /\ at[c] \in Working
    /\ Goes(c, "cancelled")
    /\ sleep' = [sleep EXCEPT ![c] = 0]
    /\ UNCHANGED <<try, streams, error, spent, cooldown, draft, due>>

\* Somebody's timer has run out.
Prompt(c) ==
    \/ at[c] = "failed"
    \/ at[c] = "gate" /\ sleep[c] = 0
    \/ at[c] = "calling" /\ TimesUp(c)

Down(n) == IF n > 0 THEN n - 1 ELSE 0

Passes ==
    /\ \A c \in Callers : ~ Prompt(c)
    /\ sleep' = [c \in Callers |-> Down(sleep[c])]
    /\ due' = [c \in Callers |-> Down(due[c])]
    /\ spent' = [c \in Callers |-> IF at[c] = "calling" THEN Smaller(spent[c] + 1, CallTimeout) ELSE 0]
    /\ cooldown' = Down(cooldown)
    /\ UNCHANGED <<at, try, streams, error, draft>>

-----------------------------------------------------------------------------
RetryInit ==
    /\ at = [c \in Callers |-> "idle"]
    /\ try = [c \in Callers |-> 1]
    /\ streams = [c \in Callers |-> FALSE]
    /\ error = [c \in Callers |-> "none"]
    /\ sleep = [c \in Callers |-> 0]
    /\ spent = [c \in Callers |-> 0]
    /\ cooldown = 0
    /\ draft = [c \in Callers |-> {}]
    /\ due = [c \in Callers |-> 0]

\* What the event loop does for a caller without anybody else's help.
Resumes(c) == Call(c) \/ HoldBack(c) \/ BackOff(c) \/ TimesOut(c)

RetryNext ==
    \/ \E c \in Callers : Resumes(c) \/ Ask(c) \/ Chunk(c) \/ Answers(c) \/ Refused(c) \/ Cancelled(c)
    \/ Passes

RetrySpec == RetryInit /\ [][RetryNext]_retryVars

\* Time passes and the event loop resumes what is due; that the model ever
\* answers is not assumed.
RetryFairness ==
    /\ WF_retryVars(Passes)
    /\ \A c \in Callers : WF_retryVars(Resumes(c))

RetryFairSpec == RetrySpec /\ RetryFairness

-----------------------------------------------------------------------------
(* Properties *)

\* A call starts when the delay its own last failure asked for is over, and so
\* is every delay a 429 asked of any worker; a worker with a shorter delay never
\* cuts the common one short (translator.py 111-125, 204-212, 276-285).
CallsRespectDelays ==
    [][\A c \in Callers :
         at[c] # "calling" /\ at'[c] = "calling" =>
            /\ due[c] = 0
            /\ \A o \in Callers : error[o] = "rate_limit" => due[o] = 0]_retryVars

\* The draft a reader is shown never mixes the chunks of two attempts
\* (translator.py 241-285).
DraftIsOfOneAttempt == \A c \in Callers : draft[c] \subseteq {try[c]}

\* A request for a translation comes to an end, though the model never answers
\* and the other workers keep renewing the cooldown (translator.py 185-214).
EveryCallEnds == \A c \in Callers : at[c] \in Working ~> at[c] \notin Working

-----------------------------------------------------------------------------
(* What the first two rest on *)

RetryTypeOK ==
    /\ at \in [Callers -> {"idle", "answered", "raised", "cancelled"} \cup Working]
    /\ try \in [Callers -> 1..MaxTries]
    /\ streams \in [Callers -> BOOLEAN]
    /\ error \in [Callers -> {"none", "rate_limit", "transient", "fatal"}]
    /\ sleep \in [Callers -> Nat] /\ spent \in [Callers -> Nat] /\ due \in [Callers -> Nat]
    /\ cooldown \in Nat
    /\ draft \in [Callers -> SUBSET Nat]

\* What has failed for the last time does not come back to the gate.
FailedMayRetry == \A c \in Callers : at[c] = "failed" => try[c] < MaxTries /\ WorthRetrying(error[c])

\* The delay asked for after a 429 is part of the common cooldown, whoever asked;
\* any other one is slept off at the gate, and none is left beyond it.
DelaysAreCovered ==
    \A c \in Callers :
        /\ error[c] = "rate_limit" => due[c] <= cooldown
        /\ at[c] = "gate" /\ error[c] # "rate_limit" => due[c] <= sleep[c]
        /\ at[c] \notin {"gate", "cancelled"} => due[c] = 0

RetryInductive == RetryTypeOK /\ FailedMayRetry /\ DelaysAreCovered /\ DraftIsOfOneAttempt
=============================================================================
