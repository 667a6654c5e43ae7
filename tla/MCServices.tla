----------------------------- MODULE MCServices -----------------------------
(* What else the server keeps and tells, side by side: the event stream of a *)
(* page, and the administrator's settings.  They are independent here; scope *)
(* says which of them moves.                                                 *)
EXTENDS EventStream, ModelSettings, TLC

VARIABLE scope

\* One administrator is like another, and so is one profile: at most one is the
\* default, so no choice depends on their order.
AnyAdmin == Permutations(Admins) \cup Permutations(Profiles)

ServicesInit == scope \in {"stream", "settings"} /\ StreamInit /\ SettingsInit

ServicesNext ==
    \/ scope = "stream" /\ StreamNext /\ UNCHANGED <<scope, settingsVars>>
    \/ scope = "settings" /\ SettingsNext /\ UNCHANGED <<scope, streamVars>>

ServicesSpec == ServicesInit /\ [][ServicesNext]_<<scope, streamVars, settingsVars>>

\* The inductive invariants of the proofs.
ServicesInductive == StreamInductive /\ SettingsInductive
=============================================================================
