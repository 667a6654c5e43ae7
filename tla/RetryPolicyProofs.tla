-------------------------- MODULE RetryPolicyProofs --------------------------
(***************************************************************************)
(* Theorems about RetryPolicy, for every number of workers, attempts and   *)
(* every delay.                                                            *)
(*                                                                         *)
(* What a 429 asks of one worker is kept in the cooldown of all of them,   *)
(* and what any other failure asks for in the worker's own sleep; both run *)
(* down with the delay itself.  DelaysAreCovered says so, and at the gate, *)
(* where a call needs cooldown and sleep to be over, so is the delay.      *)
(***************************************************************************)
EXTENDS RetryPolicy, FiniteSetTheorems, TLAPS

-----------------------------------------------------------------------------
(* The delays *)

\* The provers know nothing of powers, but a set with k members has 2 ^ k subsets.
LEMMA PowerOfTwo == ASSUME NEW k \in Nat PROVE 2 ^ k \in Nat
  <1>1. IsFiniteSet(1..k) /\ Cardinality(1..k) = k
    <2>1. IsFiniteSet(1..k) /\ Cardinality(1..k) = IF 1 > k THEN 0 ELSE k - 1 + 1
      BY FS_Interval
    <2> QED BY <2>1
  <1>2. IsFiniteSet(SUBSET (1..k)) /\ Cardinality(SUBSET (1..k)) = 2 ^ Cardinality(1..k)
    BY <1>1, FS_SUBSET
  <1>3. Cardinality(SUBSET (1..k)) \in Nat BY <1>2, FS_CardinalityType
  <1> QED BY <1>1, <1>2, <1>3

\* Every delay of the backoff is a number of ticks.
LEMMA DelaysAreTicks == ASSUME NEW n \in 1..MaxTries PROVE Delays(n) \subseteq Nat
  <1> DEFINE power == 2 ^ (n - 1)
             delay == Smaller(MaxDelay, BaseDelay * power)
             jitter == (JitterPercent * delay) \div 100
  <1>1. n - 1 \in Nat BY RetryAssumption
  <1>2. power \in Nat BY <1>1, PowerOfTwo
  <1>3. delay \in Nat
    <2> HIDE DEF power
    <2>1. BaseDelay * power \in Nat BY <1>2, RetryAssumption
    <2> QED BY <2>1, RetryAssumption DEF Smaller
  <1>4. jitter \in Nat
    <2> HIDE DEF delay
    <2>1. JitterPercent * delay \in Nat BY <1>3, RetryAssumption
    <2> DEFINE m == JitterPercent * delay
    <2> HIDE DEF m
    <2>2. m \in Nat BY <2>1 DEF m
    <2>3. m \div 100 \in Nat BY <2>2
    <2> QED BY <2>3 DEF m
  <1>5. Delays(n) = delay .. (delay + jitter) BY DEF Delays
  <1> HIDE DEF delay, jitter
  <1> QED BY <1>3, <1>4, <1>5

\* A tick takes from two clocks alike.
LEMMA DownKeepsOrder ==
  /\ \A m \in Nat : Down(m) \in Nat
  /\ \A m, n \in Nat : m <= n => Down(m) <= Down(n)
  /\ Down(0) = 0
  BY DEF Down

-----------------------------------------------------------------------------
(* The invariant *)

LEMMA RetryStarts == RetryInit => RetryInductive
  <1> SUFFICES ASSUME RetryInit PROVE RetryInductive OBVIOUS
  <1>1. RetryTypeOK BY RetryAssumption DEF RetryInit, RetryTypeOK, Working
  <1> QED BY <1>1 DEF RetryInit, RetryInductive, FailedMayRetry, DelaysAreCovered, DraftIsOfOneAttempt

\* Every operation keeps the types; the next attempt is one of MaxTries, as only
\* what may be retried has failed.
LEMMA RetryTypeStep ==
  ASSUME RetryTypeOK, FailedMayRetry, [RetryNext]_retryVars
  PROVE  RetryTypeOK'
  <1> USE DEF RetryTypeOK, Goes, Working
  <1>1. ASSUME NEW c \in Callers, Ask(c) PROVE RetryTypeOK'
    BY <1>1, RetryAssumption DEF Ask
  <1>2. ASSUME NEW c \in Callers, Call(c) PROVE RetryTypeOK' BY <1>2 DEF Call
  <1>3. ASSUME NEW c \in Callers, HoldBack(c) PROVE RetryTypeOK' BY <1>3 DEF HoldBack
  <1>4. ASSUME NEW c \in Callers, BackOff(c) PROVE RetryTypeOK'
    <2>1. try[c] \in 1..MaxTries /\ try[c] < MaxTries BY <1>4 DEF BackOff, FailedMayRetry
    <2>2. try' = [try EXCEPT ![c] = @ + 1] BY <1>4 DEF BackOff
    <2>3. try[c] + 1 \in 1..MaxTries BY <2>1, RetryAssumption
    <2>4. try' \in [Callers -> 1..MaxTries] BY <2>2, <2>3
    <2>5. PICK delay \in Delays(try[c]) :
            /\ due' = [due EXCEPT ![c] = delay]
            /\ IF error[c] = "rate_limit"
               THEN cooldown' = Penalty(delay) /\ UNCHANGED sleep
               ELSE sleep' = [sleep EXCEPT ![c] = delay] /\ UNCHANGED cooldown
      BY <1>4 DEF BackOff
    <2>6. delay \in Nat BY <2>1, <2>5, DelaysAreTicks
    <2>7. due' \in [Callers -> Nat] /\ sleep' \in [Callers -> Nat] /\ cooldown' \in Nat
      BY <2>5, <2>6 DEF Penalty, Larger
    <2>8. draft' \in [Callers -> SUBSET Nat] BY <1>4 DEF BackOff, Reset
    <2> QED BY <1>4, <2>4, <2>7, <2>8 DEF BackOff
  <1>5. ASSUME NEW c \in Callers, TimesOut(c) \/ Refused(c) PROVE RetryTypeOK'
    <2>1. PICK e \in {"rate_limit", "transient", "fatal"} : Fails(c, e)
      BY <1>5 DEF TimesOut, Refused
    <2> QED BY <2>1 DEF Fails
  <1>6. ASSUME NEW c \in Callers, Chunk(c) PROVE RetryTypeOK'
    <2>1. try[c] \in Nat BY RetryAssumption
    <2> QED BY <1>6, <2>1 DEF Chunk
  <1>7. ASSUME NEW c \in Callers, Answers(c) \/ Cancelled(c) PROVE RetryTypeOK'
    BY <1>7 DEF Answers, Cancelled
  <1>8. CASE Passes
    <2>1. spent' \in [Callers -> Nat]
      BY <1>8, RetryAssumption DEF Passes, Smaller
    <2>2. sleep' \in [Callers -> Nat] /\ due' \in [Callers -> Nat] /\ cooldown' \in Nat
      BY <1>8, DownKeepsOrder DEF Passes
    <2> QED BY <1>8, <2>1, <2>2 DEF Passes
  <1>9. CASE UNCHANGED retryVars BY <1>9 DEF retryVars
  <1> QED BY <1>1, <1>2, <1>3, <1>4, <1>5, <1>6, <1>7, <1>8, <1>9 DEF RetryNext, Resumes

\* One worker goes on and the others, their errors and their delays stay.
LEMMA RetryStep ==
  ASSUME RetryInductive, [RetryNext]_retryVars
  PROVE  FailedMayRetry' /\ DelaysAreCovered' /\ DraftIsOfOneAttempt'
  <1>t. RetryTypeOK BY DEF RetryInductive
  <1> USE DEF RetryInductive, FailedMayRetry, DelaysAreCovered, DraftIsOfOneAttempt, Goes
  <1>1. ASSUME NEW c \in Callers, Ask(c)
        PROVE  FailedMayRetry' /\ DelaysAreCovered' /\ DraftIsOfOneAttempt'
    <2>1. due[c] = 0 /\ sleep[c] \in Nat BY <1>t, <1>1 DEF Ask, RetryTypeOK
    <2> QED BY <1>t, <1>1, <2>1 DEF Ask, RetryTypeOK
  <1>2. ASSUME NEW c \in Callers, Call(c)
        PROVE  FailedMayRetry' /\ DelaysAreCovered' /\ DraftIsOfOneAttempt'
    <2>1. due[c] = 0
      <3>1. due[c] \in Nat /\ sleep[c] = 0 /\ cooldown = 0 /\ at[c] = "gate"
        BY <1>t, <1>2 DEF Call, Pass, RetryTypeOK
      <3>2. due[c] <= 0 BY <3>1
      <3> QED BY <3>1, <3>2
    <2> QED BY <1>t, <1>2, <2>1 DEF Call, Pass, RetryTypeOK
  <1>3. ASSUME NEW c \in Callers, HoldBack(c)
        PROVE  FailedMayRetry' /\ DelaysAreCovered' /\ DraftIsOfOneAttempt'
    <2>1. sleep[c] = 0 /\ cooldown \in Nat /\ due[c] \in Nat /\ at[c] = "gate"
      BY <1>t, <1>3 DEF HoldBack, RetryTypeOK
    <2>2. error[c] # "rate_limit" => due[c] <= cooldown BY <2>1
    <2> QED BY <1>t, <1>3, <2>1, <2>2 DEF HoldBack, RetryTypeOK
  <1>4. ASSUME NEW c \in Callers, BackOff(c)
        PROVE  FailedMayRetry' /\ DelaysAreCovered' /\ DraftIsOfOneAttempt'
    <2>1. PICK delay \in Delays(try[c]) :
            /\ due' = [due EXCEPT ![c] = delay]
            /\ IF error[c] = "rate_limit"
               THEN cooldown' = Penalty(delay) /\ UNCHANGED sleep
               ELSE sleep' = [sleep EXCEPT ![c] = delay] /\ UNCHANGED cooldown
      BY <1>4 DEF BackOff
    <2>2. try[c] \in 1..MaxTries BY <1>t DEF RetryTypeOK
    <2>3. delay \in Nat BY <2>1, <2>2, DelaysAreTicks
    <2>4. cooldown' \in Nat /\ cooldown' >= cooldown /\ cooldown \in Nat
      BY <1>t, <2>1, <2>3 DEF Penalty, Larger, RetryTypeOK
    <2>5. error[c] = "rate_limit" => cooldown' >= delay
      BY <1>t, <2>1, <2>3 DEF Penalty, Larger, RetryTypeOK
    <2>6. at' = [at EXCEPT ![c] = "gate"] /\ error' = error BY <1>4 DEF BackOff
    <2>7. ASSUME NEW o \in Callers
          PROVE  /\ error'[o] = "rate_limit" => due'[o] <= cooldown'
                 /\ at'[o] = "gate" /\ error'[o] # "rate_limit" => due'[o] <= sleep'[o]
                 /\ at'[o] \notin {"gate", "cancelled"} => due'[o] = 0
      <3>1. CASE o = c
        <4>1. due'[o] = delay /\ at'[o] = "gate" BY <1>t, <2>1, <2>6, <3>1 DEF RetryTypeOK
        <4>2. error[c] # "rate_limit" => sleep'[o] = delay BY <1>t, <2>1, <3>1 DEF RetryTypeOK
        <4> QED BY <2>3, <2>5, <2>6, <3>1, <4>1, <4>2
      <3>2. CASE o # c
        <4>1. due'[o] = due[o] /\ at'[o] = at[o] /\ sleep'[o] = sleep[o] /\ due[o] \in Nat
          BY <1>t, <2>1, <2>6, <3>2 DEF RetryTypeOK
        <4> QED BY <2>4, <2>6, <4>1
      <3> QED BY <3>1, <3>2
    <2>8. FailedMayRetry' BY <1>t, <1>4, <2>6 DEF BackOff, RetryTypeOK
    <2>9. DraftIsOfOneAttempt' BY <1>t, <1>4 DEF BackOff, Reset, RetryTypeOK
    <2> QED BY <2>7, <2>8, <2>9
  <1>5. ASSUME NEW c \in Callers, TimesOut(c) \/ Refused(c)
        PROVE  FailedMayRetry' /\ DelaysAreCovered' /\ DraftIsOfOneAttempt'
    <2>1. PICK e \in {"rate_limit", "transient", "fatal"} : Fails(c, e)
      BY <1>5 DEF TimesOut, Refused
    <2>2. at[c] = "calling" /\ due[c] = 0 BY <2>1 DEF Fails
    <2>3. cooldown \in Nat /\ try[c] \in 1..MaxTries BY <1>t DEF RetryTypeOK
    <2> QED BY <1>t, <2>1, <2>2, <2>3, RetryAssumption DEF Fails, RetryTypeOK
  <1>6. ASSUME NEW c \in Callers, Chunk(c) \/ Answers(c) \/ Cancelled(c)
        PROVE  FailedMayRetry' /\ DelaysAreCovered' /\ DraftIsOfOneAttempt'
    BY <1>t, <1>6 DEF Chunk, Answers, Cancelled, Working, RetryTypeOK
  <1>7. CASE Passes
    <2>1. at' = at /\ error' = error /\ try' = try /\ draft' = draft BY <1>7 DEF Passes
    <2>2. ASSUME NEW o \in Callers
          PROVE  due'[o] = Down(due[o]) /\ sleep'[o] = Down(sleep[o]) /\ cooldown' = Down(cooldown)
      BY <1>7 DEF Passes
    <2>3. ASSUME NEW o \in Callers
          PROVE  due[o] \in Nat /\ sleep[o] \in Nat /\ cooldown \in Nat
      BY <1>t DEF RetryTypeOK
    <2> QED BY <2>1, <2>2, <2>3, DownKeepsOrder
  <1>8. CASE UNCHANGED retryVars BY <1>8 DEF retryVars
  <1> QED BY <1>1, <1>2, <1>3, <1>4, <1>5, <1>6, <1>7, <1>8 DEF RetryNext, Resumes

\* The state of the calls: their types, what may be retried, where the delays
\* are kept, and the draft.
THEOREM RetryInvariant == RetrySpec => []RetryInductive
  <1>1. RetryInductive /\ [RetryNext]_retryVars => RetryInductive'
    BY RetryTypeStep, RetryStep DEF RetryInductive
  <1> QED BY RetryStarts, <1>1, PTL DEF RetrySpec

\* stream_with_retry() empties the draft before the next attempt writes to it.
THEOREM DraftsAreUnmixed == RetrySpec => []DraftIsOfOneAttempt
  <1>1. RetryInductive => DraftIsOfOneAttempt BY DEF RetryInductive
  <1> QED BY RetryInvariant, <1>1, PTL

\* A call begins after the delay of its own last failure and after that of every
\* 429: no worker cuts the common cooldown short.
THEOREM DelaysAreRespected == RetrySpec => CallsRespectDelays
  <1>1. ASSUME RetryInductive, [RetryNext]_retryVars, NEW c \in Callers,
               at[c] # "calling", at'[c] = "calling"
        PROVE  due[c] = 0 /\ \A o \in Callers : error[o] = "rate_limit" => due[o] = 0
    <2>t. at \in [Callers -> {"idle", "answered", "raised", "cancelled"} \cup Working]
      BY <1>1 DEF RetryInductive, RetryTypeOK
    <2>1. Call(c)
      <3>1. ASSUME NEW o \in Callers,
                   Ask(o) \/ HoldBack(o) \/ BackOff(o) \/ Chunk(o) \/ Answers(o) \/ Cancelled(o)
            PROVE  FALSE
        BY <1>1, <2>t, <3>1 DEF Ask, HoldBack, BackOff, Chunk, Answers, Cancelled, Goes
      <3>2. ASSUME NEW o \in Callers, NEW e, Fails(o, e) PROVE FALSE
        BY <1>1, <2>t, <3>2 DEF Fails, Goes
      <3>3. ASSUME NEW o \in Callers, Call(o) PROVE o = c
        BY <1>1, <2>t, <3>3 DEF Call, Goes
      <3>4. ~ Passes /\ ~ UNCHANGED retryVars BY <1>1 DEF Passes, retryVars
      <3> QED BY <1>1, <3>1, <3>2, <3>3, <3>4 DEF RetryNext, Resumes, TimesOut, Refused
    <2>2. sleep[c] = 0 /\ cooldown = 0 /\ at[c] = "gate" BY <2>1 DEF Call, Pass
    <2>3. ASSUME NEW o \in Callers PROVE due[o] \in Nat BY <1>1 DEF RetryInductive, RetryTypeOK
    <2>4. DelaysAreCovered BY <1>1 DEF RetryInductive
    <2>5. due[c] <= 0 BY <2>2, <2>4 DEF DelaysAreCovered
    <2>6. ASSUME NEW o \in Callers, error[o] = "rate_limit" PROVE due[o] <= 0
      BY <2>2, <2>4, <2>6 DEF DelaysAreCovered
    <2> QED BY <2>3, <2>5, <2>6
  <1>2. RetryInductive /\ [RetryNext]_retryVars =>
          [\A c \in Callers :
             at[c] # "calling" /\ at'[c] = "calling" =>
                /\ due[c] = 0
                /\ \A o \in Callers : error[o] = "rate_limit" => due[o] = 0]_retryVars
    BY <1>1
  <1> QED BY RetryInvariant, <1>2, PTL DEF RetrySpec, CallsRespectDelays
=============================================================================
