---------------------------- MODULE MCProgress -----------------------------
(* What must come to an end, in JobManager and in RetryPolicy, side by side: *)
(* scope says which of them moves.  The fairness of the one that does not    *)
(* move asks for nothing, since none of its fair actions is enabled at the   *)
(* start.                                                                    *)
EXTENDS MCJobManager, RetryPolicy

VARIABLE scope

ProgressInit == scope \in {"jobs", "calls"} /\ Init /\ RetryInit

ProgressNext ==
    \/ scope = "jobs" /\ Next /\ UNCHANGED <<scope, retryVars>>
    \/ scope = "calls" /\ RetryNext /\ UNCHANGED <<scope, vars>>

ProgressSpec ==
    /\ ProgressInit /\ [][ProgressNext]_<<scope, vars, retryVars>>
    /\ TasksRun /\ WF_vars(HandlerHeedsStop)
    /\ RetryFairness
=============================================================================
