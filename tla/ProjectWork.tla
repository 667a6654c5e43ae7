---------------------------- MODULE ProjectWork ----------------------------
(***************************************************************************)
(* What the job queue promises whoever submits work for a project and      *)
(* stops it (backend/app/api/projects.py, api/adapters.py): of rows,       *)
(* leases, attempts and the server process only the work on each project   *)
(* is left.                                                                *)
(*                                                                         *)
(* There is one piece of work per project at a time.  Between submission   *)
(* and end it waits or runs, and goes back to waiting when a run has       *)
(* failed.  Once it was asked to stop it does not run again, except that a *)
(* server that comes back may have forgotten the request.                  *)
(***************************************************************************)
EXTENDS Naturals

CONSTANT Projects

VARIABLES
    work,    \* the work on each project
    starts   \* how often the server has been started

workVars == <<work, starts>>

WorkTypeOK ==
    /\ work \in [Projects -> {"idle", "queued", "running", "stopping"}]
    /\ starts \in Nat

WorkInit == work = [p \in Projects |-> "idle"] /\ starts = 0

Moves(p, from, to) ==
    work[p] \in from /\ work' = [work EXCEPT ![p] = to] /\ UNCHANGED starts

Submitted(p)   == Moves(p, {"idle"}, "queued")
Begins(p)      == Moves(p, {"queued"}, "running")
Retried(p)     == Moves(p, {"running"}, "queued")
AskedToStop(p) == Moves(p, {"running"}, "stopping")

\* Done, failed, stopped before it ran, given up, or its project is deleted.
Ends(p) == Moves(p, {"queued", "running", "stopping"}, "idle")

Held == {p \in Projects : work[p] \in {"running", "stopping"}}

\* A server that shuts down ends what it runs.
Interrupted ==
    /\ \E S \in SUBSET Held : work' = [p \in Projects |-> IF p \in S THEN "idle" ELSE work[p]]
    /\ UNCHANGED starts

\* A server that starts ends what an earlier one has left, or takes it up again.
Restarted ==
    /\ \E S \in SUBSET Held, again \in SUBSET Held :
          work' = [p \in Projects |-> IF p \notin S THEN work[p]
                                      ELSE IF p \in again THEN "queued" ELSE "idle"]
    /\ starts' = starts + 1

WorkNext ==
    \/ \E p \in Projects :
          Submitted(p) \/ Begins(p) \/ Retried(p) \/ AskedToStop(p) \/ Ends(p)
    \/ Interrupted \/ Restarted

WorkSpec == WorkInit /\ [][WorkNext]_workVars
=============================================================================
