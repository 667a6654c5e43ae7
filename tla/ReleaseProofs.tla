---------------------------- MODULE ReleaseProofs ----------------------------
(***************************************************************************)
(* Theorems about Release, for every set of versions, every numbering of   *)
(* their schema revisions, and every bound; and about Migrations, for      *)
(* every number of migrations and kills.                                   *)
(*                                                                         *)
(* ReleaseInductive follows a command from step to step.  Its last part,   *)
(* RepairIsPossible, is what FailureIsRepaired needs: as long as nothing   *)
(* has happened that the tool does not repair, the schema is at every step *)
(* one from which the version in service before can be restored.           *)
(*                                                                         *)
(* MigrationInductive compares the schema with the one that the commits    *)
(* made so far lead to: the lemmas on each revision say where they lead,   *)
(* and that every one of them finds what it needs.                         *)
(***************************************************************************)
EXTENDS Release, Migrations, SequenceTheorems, TLAPS

-----------------------------------------------------------------------------
(* The releases of the manifest *)

\* One release taken out of the manifest leaves the others, each of them once.
LEMMA WithoutOne ==
  ASSUME NEW S, NEW s \in Seq(S), NEW e \in S, IsInjective(s)
  PROVE  /\ Without(s, e) \in Seq(S)
         /\ IsInjective(Without(s, e))
         /\ \A k \in 1..Len(Without(s, e)) : Without(s, e)[k] # e
  <1>1. CASE e \notin ToSet(s) BY <1>1 DEF Without, ToSet
  <1>2. CASE e \in ToSet(s)
    <2> DEFINE i == CHOOSE i \in DOMAIN s : s[i] = e
               r == RemoveAt(s, i)
    <2>0. \A k, l \in 1..Len(s) : s[k] = s[l] => k = l BY DEF IsInjective
    <2>1. i \in 1..Len(s) /\ s[i] = e BY <1>2 DEF ToSet
    <2>2. Without(s, e) = r BY <1>2 DEF Without
    <2> HIDE DEF i
    <2> DEFINE a == SubSeq(s, 1, i - 1)
               b == SubSeq(s, i + 1, Len(s))
    <2>3. /\ a \in Seq(S) /\ b \in Seq(S) /\ Len(a) = i - 1 /\ Len(b) = Len(s) - i
          /\ \A k \in 1..(i - 1) : a[k] = s[k]
          /\ \A k \in 1..(Len(s) - i) : b[k] = s[i + k]
      BY <2>1
    <2>4. r = a \o b BY DEF RemoveAt
    <2> HIDE DEF r, a, b
    <2>5. /\ r \in Seq(S) /\ Len(r) = Len(s) - 1
          /\ \A k \in 1..Len(r) : r[k] = IF k < i THEN s[k] ELSE s[k + 1]
      <3>1. /\ r \in Seq(S) /\ Len(r) = Len(a) + Len(b)
            /\ \A k \in 1..(Len(a) + Len(b)) : r[k] = IF k <= Len(a) THEN a[k] ELSE b[k - Len(a)]
        BY <2>3, <2>4, ConcatProperties
      <3>2. ASSUME NEW k \in 1..Len(r), k < i PROVE r[k] = s[k] BY <2>1, <2>3, <3>1, <3>2
      <3>3. ASSUME NEW k \in 1..Len(r), ~ (k < i) PROVE r[k] = s[k + 1]
        <4>1. k - Len(a) \in 1..(Len(s) - i) /\ i + (k - Len(a)) = k + 1
          BY <2>1, <2>3, <3>1, <3>3
        <4>2. Len(a) \in Nat /\ Len(b) \in Nat BY <2>1, <2>3
        <4>3. k \in 1..(Len(a) + Len(b)) /\ ~ (k <= Len(a)) BY <2>1, <2>3, <3>1, <3>3, <4>2
        <4>4. r[k] = b[k - Len(a)] BY <3>1, <4>3
        <4>5. b[k - Len(a)] = s[i + (k - Len(a))] BY <2>3, <4>1
        <4> QED BY <4>1, <4>4, <4>5
      <3> QED BY <2>1, <2>3, <3>1, <3>2, <3>3
    <2>6. \A k \in 1..Len(r) : k \in 1..Len(s) /\ (k >= i => k + 1 \in 1..Len(s)) BY <2>1, <2>5
    <2>7. ASSUME NEW k \in 1..Len(r) PROVE r[k] # e BY <2>0, <2>1, <2>5, <2>6
    <2>8. ASSUME NEW k \in 1..Len(r), NEW l \in 1..Len(r), r[k] = r[l] PROVE k = l
      <3>1. k \in Nat /\ l \in Nat /\ i \in Nat BY <2>1, <2>5
      <3>2. CASE k < i /\ l < i BY <2>0, <2>5, <2>6, <2>8, <3>2
      <3>3. CASE k < i /\ ~ (l < i)
        <4>1. s[k] = s[l + 1] BY <2>5, <2>8, <3>3
        <4>2. k = l + 1 BY <2>0, <2>6, <3>1, <3>3, <4>1
        <4> QED BY <3>1, <3>3, <4>2
      <3>4. CASE ~ (k < i) /\ l < i
        <4>1. s[l] = s[k + 1] BY <2>5, <2>8, <3>4
        <4>2. l = k + 1 BY <2>0, <2>6, <3>1, <3>4, <4>1
        <4> QED BY <3>1, <3>4, <4>2
      <3>5. CASE ~ (k < i) /\ ~ (l < i)
        <4>1. s[l + 1] = s[k + 1] BY <2>5, <2>8, <3>5
        <4>2. l + 1 = k + 1 BY <2>0, <2>6, <3>1, <3>5, <4>1
        <4> QED BY <3>1, <4>2
      <3> QED BY <3>2, <3>3, <3>4, <3>5
    <2>9. IsInjective(r) BY <2>5, <2>8 DEF IsInjective
    <2> QED BY <2>2, <2>5, <2>7, <2>9
  <1> QED BY <1>1, <1>2

\* A release appended to those it is not one of.
LEMMA AppendNew ==
  ASSUME NEW S, NEW s \in Seq(S), NEW e \in S, IsInjective(s), \A k \in 1..Len(s) : s[k] # e
  PROVE  Append(s, e) \in Seq(S) /\ IsInjective(Append(s, e))
  <1> DEFINE r == Append(s, e)
  <1>1. /\ r \in Seq(S) /\ Len(r) = Len(s) + 1 /\ r[Len(s) + 1] = e
        /\ \A k \in 1..Len(s) : r[k] = s[k]
    BY AppendProperties
  <1> HIDE DEF r
  <1>2. ASSUME NEW k \in 1..Len(r), NEW l \in 1..Len(r), r[k] = r[l] PROVE k = l
    <2>1. Len(s) \in Nat OBVIOUS
    <2>2. k \in 1..Len(s) \/ k = Len(s) + 1 BY <1>1, <2>1
    <2>3. l \in 1..Len(s) \/ l = Len(s) + 1 BY <1>1, <2>1
    <2>4. \A m, n \in 1..Len(s) : s[m] = s[n] => m = n BY DEF IsInjective
    <2> QED BY <1>1, <1>2, <2>2, <2>3, <2>4
  <1> QED BY <1>1, <1>2 DEF IsInjective, r

-----------------------------------------------------------------------------
(* The type *)

\* A fresh server, not yet adopted.
LEMMA ReleaseTypeInit == ReleaseInit => ReleaseTypeOK
  <1> SUFFICES ASSUME ReleaseInit PROVE ReleaseTypeOK OBVIOUS
  <1>1. PICK v \in Versions : app = [image |-> v, state |-> "serving"] /\ envTag = v /\ db = Rev[v]
    BY DEF ReleaseInit
  <1>2. envTag \in Versions /\ db \in Nat BY <1>1, RevAssumption
  <1>3. app \in [image : Versions, state : {"down", "starting", "serving", "broken"}] BY <1>1
  <1>4. /\ manifest \in [made : BOOLEAN, current : Versions \cup {NoVersion}, installed : Seq(Versions)]
        /\ IsInjective(manifest.installed)
    BY DEF ReleaseInit, IsInjective
  <1>5. /\ lock \in BOOLEAN /\ calm \in BOOLEAN
        /\ count \in [commands : Nat, failures : Nat, kills : Nat]
    BY DEF ReleaseInit
  <1>6. cmd \in [op : {"none", "install", "rollback"}, target : Versions \cup {NoVersion},
                 migrate : BOOLEAN, at : At, backup : BOOLEAN, changed : BOOLEAN,
                 failed : At \cup {"nothing"}, failures : Nat]
    BY DEF ReleaseInit, Idle, At
  <1> QED BY <1>2, <1>3, <1>4, <1>5, <1>6 DEF ReleaseTypeOK

CmdType == [op : {"none", "install", "rollback"}, target : Versions \cup {NoVersion},
            migrate : BOOLEAN, at : At, backup : BOOLEAN, changed : BOOLEAN,
            failed : At \cup {"nothing"}, failures : Nat]

\* The command stays a command whatever step it goes to.
LEMMA CmdSteps ==
  ASSUME ReleaseTypeOK
  PROVE  /\ Idle \in CmdType
         /\ \A s \in At : [cmd EXCEPT !.at = s] \in CmdType
         /\ Tries(Forward) \in CmdType
         /\ Interrupted \subseteq Nat
         /\ Started \in [image : Versions, state : {"down", "starting", "serving", "broken"}]
         /\ Down \in [image : Versions, state : {"down", "starting", "serving", "broken"}]
  <1> USE DEF ReleaseTypeOK
  <1>1. cmd \in CmdType BY DEF CmdType
  <1>2. Idle \in CmdType BY DEF Idle, CmdType, At
  <1>3. \A s \in At : [cmd EXCEPT !.at = s] \in CmdType BY <1>1 DEF CmdType
  <1>4. Tries(Forward) \in CmdType BY <1>1 DEF Tries, CmdType
  <1>5. \A v \in Versions : Rev[v] \in Nat BY RevAssumption
  <1>6. Interrupted \subseteq Nat BY <1>5 DEF Interrupted
  <1>7. /\ Started \in [image : Versions, state : {"down", "starting", "serving", "broken"}]
        /\ Down \in [image : Versions, state : {"down", "starting", "serving", "broken"}]
    BY DEF Started, Down
  <1> QED BY <1>2, <1>3, <1>4, <1>6, <1>7

AppType == [image : Versions, state : {"down", "starting", "serving", "broken"}]

ManifestType == [made : BOOLEAN, current : Versions \cup {NoVersion}, installed : Seq(Versions)]

CountType == [commands : Nat, failures : Nat, kills : Nat]

LEMMA TypeParts ==
  ReleaseTypeOK <=>
    /\ manifest \in ManifestType /\ IsInjective(manifest.installed)
    /\ envTag \in Versions /\ db \in Nat /\ app \in AppType /\ lock \in BOOLEAN
    /\ cmd \in CmdType /\ count \in CountType /\ calm \in BOOLEAN
  BY DEF ReleaseTypeOK, ManifestType, AppType, CmdType, CountType

LEMMA TypePartsNext ==
  ReleaseTypeOK' <=>
    /\ manifest' \in ManifestType /\ IsInjective(manifest'.installed)
    /\ envTag' \in Versions /\ db' \in Nat /\ app' \in AppType /\ lock' \in BOOLEAN
    /\ cmd' \in CmdType /\ count' \in CountType /\ calm' \in BOOLEAN
  BY DEF ReleaseTypeOK, ManifestType, AppType, CmdType, CountType

\* Every step of the tool and of the container keeps the types.
LEMMA ReleaseTypeStep ==
  ASSUME ReleaseTypeOK, CommandShape, [ReleaseNext]_releaseVars
  PROVE  ReleaseTypeOK'
  <1>t. /\ manifest \in ManifestType /\ IsInjective(manifest.installed)
        /\ envTag \in Versions /\ db \in Nat /\ app \in AppType /\ lock \in BOOLEAN
        /\ cmd \in CmdType /\ count \in CountType /\ calm \in BOOLEAN
    BY TypeParts
  <1>r. \A v \in Versions : Rev[v] \in Nat BY RevAssumption
  <1>i. /\ Idle \in CmdType /\ \A s \in At : [cmd EXCEPT !.at = s] \in CmdType
        /\ Tries(Forward) \in CmdType /\ Interrupted \subseteq Nat
        /\ Started \in AppType /\ Down \in AppType
    BY CmdSteps DEF AppType
  <1>a. /\ {"prepare", "stop", "backup", "schema", "switch", "up", "health", "record", "journal"} \subseteq At
        /\ {"undo_stop", "undo_schema", "undo_switch", "undo_up", "undo_health", "plain_up"} \subseteq At
    BY DEF At, Steps, Repair
  <1>1. ASSUME NEW identified \in BOOLEAN, AdoptRunning(identified) PROVE ReleaseTypeOK'
    <2>1. app.image \in Versions BY <1>t DEF AppType
    <2>2. manifest' \in ManifestType /\ IsInjective(manifest'.installed)
      BY <1>1, <2>1 DEF AdoptRunning, ManifestType, IsInjective
    <2> QED BY <1>1, <1>t, <2>2, TypePartsNext DEF AdoptRunning
  <1>2. ASSUME NEW op \in {"install", "rollback"}, NEW v \in Versions, NEW migrate \in BOOLEAN,
               Starts(op, v, migrate)
        PROVE  ReleaseTypeOK'
    <2>1. cmd' \in CmdType BY <1>2, <1>i, <1>a DEF Starts, CmdType
    <2>2. count' \in CountType BY <1>2, <1>t DEF Starts, CountType
    <2> QED BY <1>2, <1>t, <2>1, <2>2, TypePartsNext DEF Starts
  <1>3. ASSUME NEW migrate \in BOOLEAN, RollbackToPrevious(migrate) PROVE ReleaseTypeOK'
    <2>1. PreviousInstalled \in ToSet(manifest.installed) BY <1>3 DEF RollbackToPrevious, Rollback
    <2>2. ToSet(manifest.installed) \subseteq Versions BY <1>t DEF ToSet, ManifestType
    <2> QED BY <1>2, <1>3, <2>1, <2>2 DEF RollbackToPrevious, Rollback
  <1>4. ASSUME Prepare \/ Healthy \/ Switch \/ UndoSwitch \/ Stop \/ UndoStop PROVE ReleaseTypeOK'
    <2>1. cmd' \in CmdType
      BY <1>4, <1>i, <1>a DEF Prepare, Healthy, Switch, UndoSwitch, SwitchesTag, Stop, UndoStop,
                              StopsApp, GoTo
    <2>2. envTag' \in Versions
      <3>1. Switch => cmd.target \in Versions BY DEF Switch, SwitchesTag, CommandShape
      <3>2. UndoSwitch => manifest.current \in Versions
        BY <1>t DEF UndoSwitch, SwitchesTag, CommandShape, Repair, ManifestType
      <3> QED BY <1>4, <1>t, <3>1, <3>2
              DEF Prepare, Healthy, Switch, UndoSwitch, SwitchesTag, Stop, UndoStop, StopsApp
    <2> QED BY <1>4, <1>t, <1>i, <2>1, <2>2, TypePartsNext
            DEF Prepare, Healthy, Switch, UndoSwitch, SwitchesTag, Stop, UndoStop, StopsApp
  <1>5. CASE Backup
    <2>1. cmd' \in CmdType BY <1>5, <1>t, <1>a DEF Backup, CmdType
    <2> QED BY <1>5, <1>t, <2>1, TypePartsNext DEF Backup
  <1>6. CASE Schema \/ UndoSchema
    <2>1. cmd' \in CmdType BY <1>6, <1>i, <1>a DEF Schema, UndoSchema, GoTo, CmdType
    <2>2. db' \in Nat
      <3>1. cmd.target \in Versions /\ (cmd.at = "undo_schema" => manifest.current \in Versions)
        BY <1>6, <1>t DEF Schema, UndoSchema, CommandShape, Repair, ManifestType
      <3> QED BY <1>6, <1>t, <1>r, <3>1 DEF Schema, UndoSchema, Forward, Backward
    <2> QED BY <1>6, <1>t, <2>1, <2>2, TypePartsNext DEF Schema, UndoSchema
  <1>7. CASE SchemaRefused \/ Unhealthy
    <2>1. \A c \in CmdType : /\ [c EXCEPT !.at = "journal", !.failed = "schema"] \in CmdType
                             /\ [c EXCEPT !.at = "journal", !.failed = "health"] \in CmdType
      BY <1>a DEF CmdType
    <2>2. cmd' \in CmdType BY <1>7, <1>t, <1>i, <2>1 DEF SchemaRefused, Unhealthy
    <2> QED BY <1>7, <1>t, <2>2, TypePartsNext DEF SchemaRefused, Unhealthy
  <1>8. CASE Up \/ PlainUp \/ UndoSchemaRefused \/ UndoHealth \/ Journal
    <2>1. AfterFailure \in At BY <1>a DEF AfterFailure, At
    <2>2. cmd' \in CmdType
      BY <1>8, <1>i, <1>a, <2>1 DEF Up, PlainUp, UndoSchemaRefused, UndoHealth, Journal, Ends, GoTo
    <2> QED BY <1>8, <1>t, <1>i, <2>2, TypePartsNext
            DEF Up, PlainUp, UndoSchemaRefused, UndoHealth, Journal, Ends
  <1>9. CASE Record
    <2>1. cmd.target \in Versions BY <1>9 DEF Record, CommandShape
    <2>2. manifest.installed \in Seq(Versions) BY <1>t DEF ManifestType
    <2>3. Installed \in Seq(Versions) /\ IsInjective(Installed)
      <3> DEFINE w == Without(manifest.installed, cmd.target)
      <3>1. w \in Seq(Versions) /\ IsInjective(w) /\ \A k \in 1..Len(w) : w[k] # cmd.target
        BY <1>t, <2>1, <2>2, WithoutOne
      <3>2. Installed = Append(w, cmd.target) BY DEF Installed
      <3> HIDE DEF w
      <3> QED BY <2>1, <3>1, <3>2, AppendNew
    <2>4. manifest' \in ManifestType /\ IsInjective(manifest'.installed)
      BY <1>9, <1>t, <2>1, <2>3 DEF Record, ManifestType
    <2> QED BY <1>9, <1>t, <1>i, <2>4, TypePartsNext DEF Record, Ends
  <1>10. CASE StepFails
    <2>1. cmd' \in CmdType
      <3>1. cmd.at \in At BY <1>t DEF CmdType
      <3>2. ASSUME NEW c \in CmdType, NEW s \in At
            PROVE  [c EXCEPT !.at = "journal", !.failed = s, !.failures = @ + 1] \in CmdType
        <4>1. c.failures + 1 \in Nat BY DEF CmdType
        <4> QED BY <1>a, <4>1 DEF CmdType
      <3>3. CASE Caught BY <1>10, <1>t, <1>i, <3>1, <3>2, <3>3 DEF StepFails
      <3>4. CASE ~ Caught BY <1>10, <1>i, <3>4 DEF StepFails, Ends
      <3> QED BY <3>3, <3>4
    <2>2. count' \in CountType BY <1>10, <1>t DEF StepFails, CountType
    <2>3. db' \in Nat
      <3>1. cmd.target \in Versions /\ (cmd.at = "undo_schema" => manifest.current \in Versions)
        BY <1>10, <1>t DEF StepFails, CommandShape, Repair, ManifestType
      <3>2. cmd.at = "schema" => Forward.goal \in Nat BY <1>r, <3>1 DEF Forward
      <3>3. cmd.at = "undo_schema" => Backward.goal \in Nat BY <1>r, <3>1 DEF Backward
      <3>4. \A m, n \in Nat : Between(m, n) \subseteq Nat BY DEF Between
      <3> QED BY <1>10, <1>t, <1>i, <3>2, <3>3, <3>4 DEF StepFails, HalfDone
    <2>4. app' \in AppType /\ envTag' \in Versions BY <1>10, <1>t, <1>i DEF StepFails, HalfDone
    <2> QED BY <1>10, <1>t, <2>1, <2>2, <2>3, <2>4, TypePartsNext DEF StepFails, Ends, Repaired
  <1>11. CASE Killed
    <2>1. count' \in CountType BY <1>11, <1>t DEF Killed, CountType
    <2> QED BY <1>11, <1>t, <1>i, <2>1, TypePartsNext DEF Killed
  <1>12. CASE Unlock BY <1>12, <1>t, TypePartsNext DEF Unlock
  <1>13. CASE EntrypointRuns
    <2>1. app' \in AppType /\ db' \in Nat
      BY <1>13, <1>t, <1>r DEF EntrypointRuns, EntrypointUpgrade, AppType
    <2> QED BY <1>13, <1>t, <2>1, TypePartsNext DEF EntrypointRuns
  <1>14. CASE EntrypointFails
    <2>1. app' \in AppType /\ db' \in Nat BY <1>14, <1>t, <1>i DEF EntrypointFails, AppType
    <2>2. count' \in CountType /\ cmd' \in CmdType
      BY <1>14, <1>t DEF EntrypointFails, CountType, CmdType
    <2> QED BY <1>14, <1>t, <2>1, <2>2, TypePartsNext DEF EntrypointFails, Repaired
  <1>15. CASE UNCHANGED releaseVars BY <1>15, <1>t, TypePartsNext DEF releaseVars
  <1> QED BY <1>1, <1>2, <1>3, <1>4, <1>5, <1>6, <1>7, <1>8, <1>9, <1>10, <1>11, <1>12, <1>13,
             <1>14, <1>15
          DEF ReleaseNext, Command, Step, RepairStep, Install, Rollback

-----------------------------------------------------------------------------
(* The steps of a command *)

\* A step of a command keeps what the command is about.
SameCommand ==
    /\ cmd'.op = cmd.op /\ cmd'.target = cmd.target /\ cmd'.migrate = cmd.migrate
    /\ cmd'.backup = cmd.backup /\ cmd'.changed = cmd.changed /\ cmd'.failed = cmd.failed

LEMMA GoesTo ==
  ASSUME ReleaseTypeOK, NEW s, cmd' = [cmd EXCEPT !.at = s]
  PROVE  cmd'.at = s /\ SameCommand
  BY DEF ReleaseTypeOK, SameCommand

LEMMA IdleFields ==
  /\ Idle.at = "idle" /\ Idle.op = "none" /\ ~ Idle.changed /\ ~ Idle.backup
  BY DEF Idle

LEMMA RefusedFields ==
  ASSUME ReleaseTypeOK, NEW s, cmd' = [Tries(Forward) EXCEPT !.at = s, !.failed = "schema"]
  PROVE  /\ cmd'.at = s /\ cmd'.op = cmd.op /\ cmd'.target = cmd.target
         /\ cmd'.migrate = cmd.migrate /\ cmd'.backup = cmd.backup /\ cmd'.failed = "schema"
         /\ cmd.changed => cmd'.changed
  BY DEF ReleaseTypeOK, Tries

LEMMA SchemaFields ==
  ASSUME ReleaseTypeOK, cmd' = [Tries(Forward) EXCEPT !.at = "switch"]
  PROVE  /\ cmd'.at = "switch" /\ cmd'.op = cmd.op /\ cmd'.target = cmd.target
         /\ cmd'.migrate = cmd.migrate /\ cmd'.backup = cmd.backup
         /\ cmd.changed => cmd'.changed
  BY DEF ReleaseTypeOK, Tries

\* The command after a failed step.
LEMMA FailedFields ==
  ASSUME ReleaseTypeOK, StepFails, Caught
  PROVE  /\ cmd'.at = "journal" /\ cmd'.op = cmd.op /\ cmd'.target = cmd.target
         /\ cmd'.migrate = cmd.migrate /\ cmd'.backup = cmd.backup /\ cmd'.failed = cmd.at
         /\ cmd.changed => cmd'.changed
         /\ cmd'.changed => cmd.changed \/ cmd.at = "schema"
  BY DEF StepFails, ReleaseTypeOK, Tries

ShapeParts == /\ CommandShape /\ DownWhileChanging /\ SavedBeforeChange /\ TargetInService
              /\ SchemaFitsServing

LEMMA ShapeStep ==
  ASSUME ReleaseTypeOK, ReleaseTypeOK', ShapeParts, [ReleaseNext]_releaseVars
  PROVE  ShapeParts'
  <1>t. /\ app \in AppType /\ app' \in AppType /\ manifest \in ManifestType
        /\ cmd \in CmdType /\ cmd' \in CmdType
    BY TypeParts, TypePartsNext
  <1>v. NoVersion \notin Versions BY VersionsAssumption
  <1> USE DEF ShapeParts, CommandShape, DownWhileChanging, SavedBeforeChange, TargetInService,
              SchemaFitsServing, Repair
  <1>1. ASSUME NEW identified \in BOOLEAN, AdoptRunning(identified) PROVE ShapeParts'
    BY <1>1, <1>t DEF AdoptRunning, ManifestType
  <1>2. ASSUME NEW op \in {"install", "rollback"}, NEW v \in Versions, NEW migrate \in BOOLEAN,
               Starts(op, v, migrate), op = "rollback" => manifest.current # NoVersion
        PROVE  ShapeParts'
    <2>1. /\ cmd'.op = op /\ cmd'.target = v /\ cmd'.at \in {"prepare", "stop"} /\ ~ cmd'.changed
      BY <1>2 DEF Starts, Idle
    <2> QED BY <1>2, <1>t, <2>1 DEF Starts
  <1>3. ASSUME NEW migrate \in BOOLEAN, RollbackToPrevious(migrate) PROVE ShapeParts'
    <2>1. PreviousInstalled \in ToSet(manifest.installed) BY <1>3 DEF RollbackToPrevious, Rollback
    <2>2. ToSet(manifest.installed) \subseteq Versions BY <1>t DEF ToSet, ManifestType
    <2> QED BY <1>2, <1>3, <2>1, <2>2 DEF RollbackToPrevious, Rollback
  <1>4. CASE Prepare \/ Healthy
    <2>1. cmd'.at \in {"stop", "record"} /\ SameCommand /\ (cmd'.at = "record" => cmd.at = "health")
      BY <1>4, GoesTo DEF Prepare, Healthy, GoTo
    <2> QED BY <1>4, <1>t, <2>1 DEF Prepare, Healthy, SameCommand
  <1>5. CASE Switch \/ UndoSwitch
    <2>1. /\ SameCommand
          /\ \/ Switch /\ cmd'.at = "up" /\ cmd.at = "switch"
             \/ UndoSwitch /\ cmd'.at = "undo_up" /\ cmd.at = "undo_switch"
      BY <1>5, GoesTo DEF Switch, UndoSwitch, SwitchesTag, GoTo
    <2> QED BY <1>5, <1>t, <2>1 DEF Switch, UndoSwitch, SwitchesTag, SameCommand
  <1>6. CASE Stop \/ UndoStop
    <2>1. /\ SameCommand /\ app' = Down
          /\ \/ cmd'.at = "backup" /\ cmd.at = "stop"
             \/ cmd'.at = "undo_schema" /\ cmd.at = "undo_stop"
      BY <1>6, GoesTo DEF Stop, UndoStop, StopsApp, GoTo
    <2>2. app'.state = "down" BY <1>t, <2>1 DEF Down, AppType
    <2> QED BY <1>6, <1>t, <2>1, <2>2 DEF Stop, UndoStop, StopsApp, SameCommand
  <1>7. CASE Backup
    <2>1. /\ cmd'.at = "schema" /\ cmd'.backup /\ cmd'.op = cmd.op /\ cmd'.target = cmd.target
      BY <1>7, <1>t DEF Backup, CmdType
    <2> QED BY <1>7, <1>t, <2>1 DEF Backup
  <1>8. CASE Schema
    <2>1. cmd'.at = "switch" /\ cmd'.op = cmd.op /\ cmd'.target = cmd.target /\ cmd'.backup = cmd.backup
      BY <1>8, SchemaFields DEF Schema
    <2> QED BY <1>8, <1>t, <2>1 DEF Schema
  <1>9. CASE SchemaRefused
    <2>1. cmd'.at = "journal" /\ cmd'.op = cmd.op /\ cmd'.target = cmd.target /\ cmd'.backup = cmd.backup
      BY <1>9, RefusedFields DEF SchemaRefused
    <2> QED BY <1>9, <1>t, <2>1 DEF SchemaRefused
  <1>10. CASE Unhealthy
    <2>1. /\ cmd'.at = "journal" /\ cmd'.op = cmd.op /\ cmd'.target = cmd.target
          /\ cmd'.backup = cmd.backup /\ cmd'.changed = cmd.changed
      BY <1>10, <1>t DEF Unhealthy, CmdType
    <2> QED BY <1>10, <1>t, <2>1 DEF Unhealthy
  <1>11. CASE UndoSchema
    <2>1. cmd'.at = "undo_switch" /\ SameCommand BY <1>11, GoesTo DEF UndoSchema, GoTo
    <2> QED BY <1>11, <1>t, <2>1 DEF UndoSchema, SameCommand
  <1>12. CASE Up
    <2>1. SameCommand /\ cmd'.at = IF cmd.at = "up" THEN "health" ELSE "undo_health"
      BY <1>12, GoesTo DEF Up, GoTo
    <2>2. app'.image = envTag /\ app'.state # "serving" BY <1>12, <1>t DEF Up, Started
    <2> QED BY <1>12, <1>t, <2>1, <2>2 DEF Up, SameCommand
  <1>13. CASE UndoSchemaRefused \/ UndoHealth \/ Killed
    <2>1. cmd' = Idle BY <1>13 DEF UndoSchemaRefused, UndoHealth, Killed, Ends
    <2> QED BY <1>13, <1>t, <2>1, IdleFields DEF UndoSchemaRefused, UndoHealth, Killed
  <1>14. CASE PlainUp
    <2>1. cmd' = Idle BY <1>14 DEF PlainUp, Ends
    <2>2. app' = app \/ app'.state = "starting" BY <1>14 DEF PlainUp, Started
    <2> QED BY <1>14, <1>t, <2>1, <2>2, IdleFields DEF PlainUp
  <1>15. CASE Journal
    <2>1. CASE AfterFailure = "idle"
      BY <1>15, <1>t, <2>1, IdleFields DEF Journal, Ends
    <2>2. CASE AfterFailure # "idle"
      <3>1. cmd'.at = AfterFailure /\ SameCommand BY <1>15, <2>2, GoesTo DEF Journal, GoTo
      <3>2. \/ AfterFailure = "undo_stop" /\ manifest.current # NoVersion
            \/ AfterFailure = "plain_up" /\ manifest.current = NoVersion
        BY <1>15, <2>2 DEF AfterFailure
      <3> QED BY <1>15, <1>t, <3>1, <3>2 DEF Journal, SameCommand
    <2> QED BY <2>1, <2>2
  <1>16. CASE Record
    <2>1. cmd' = Idle /\ manifest'.made = manifest.made /\ manifest'.current = cmd.target
      BY <1>16, <1>t DEF Record, Ends, ManifestType
    <2> QED BY <1>16, <1>t, <1>v, <2>1, IdleFields DEF Record
  <1>17. CASE StepFails
    <2>1. CASE Caught
      <3>1. /\ cmd'.at = "journal" /\ cmd'.op = cmd.op /\ cmd'.target = cmd.target
            /\ cmd'.backup = cmd.backup
            /\ cmd'.changed => cmd.changed \/ cmd.at = "schema"
        BY <1>17, <2>1, FailedFields
      <3>2. cmd.at \notin Repair \cup {"plain_up", "idle"} BY <2>1 DEF Caught, Steps
      <3>3. app'.state = "serving" => app' = app /\ db' = db
        BY <1>17, <1>t, <2>1, <3>2 DEF StepFails, HalfDone, Down, Started, AppType
      <3>4. UNCHANGED <<manifest, envTag>> BY <1>17 DEF StepFails, HalfDone
      <3> QED BY <1>17, <1>t, <3>1, <3>2, <3>3, <3>4
    <2>2. CASE ~ Caught
      <3>1. cmd' = Idle BY <1>17, <2>2 DEF StepFails, Ends
      <3>2. app'.state = "serving" => app' = app /\ db' = db
        BY <1>17, <1>t DEF StepFails, HalfDone, Down, Started, AppType
      <3>3. UNCHANGED <<manifest, envTag>> /\ cmd.at # "idle" BY <1>17 DEF StepFails, HalfDone
      <3> QED BY <1>17, <1>t, <3>1, <3>2, <3>3, IdleFields
    <2> QED BY <2>1, <2>2
  <1>18. CASE Unlock \/ UNCHANGED releaseVars BY <1>18 DEF Unlock, releaseVars
  <1>19. CASE EntrypointRuns
    <2>1. /\ app'.image = app.image /\ UNCHANGED <<manifest, envTag, cmd>>
          /\ app'.state = "serving" => db' = Rev[app.image]
          /\ app.state = "starting"
      BY <1>19, <1>t DEF EntrypointRuns, EntrypointUpgrade, AppType
    <2> QED BY <1>19, <1>t, <2>1
  <1>20. CASE EntrypointFails
    <2>1. /\ app'.image = app.image /\ app'.state = "broken" /\ UNCHANGED <<manifest, envTag>>
          /\ app.state = "starting" /\ cmd'.at = cmd.at /\ SameCommand
      BY <1>20, <1>t DEF EntrypointFails, AppType, CmdType, SameCommand
    <2> QED BY <1>20, <1>t, <2>1 DEF SameCommand
  <1> QED BY <1>1, <1>2, <1>3, <1>4, <1>5, <1>6, <1>7, <1>8, <1>9, <1>10, <1>11, <1>12, <1>13,
             <1>14, <1>15, <1>16, <1>17, <1>18, <1>19, <1>20
          DEF ReleaseNext, Command, Step, RepairStep, Install, Rollback

-----------------------------------------------------------------------------
(* The repair *)

\* What RepairIsPossible says of a command under way in an installation that
\* has a version.
Repairable ==
    /\ cmd.at \in {"idle", "prepare", "stop"} => CurrentInService
    /\ cmd.at \in {"backup", "schema"} => db = Rev[manifest.current]
    /\ cmd.at = "schema" /\ cmd.op = "install" => cmd.changed
    /\ cmd.at \in {"switch", "up", "health"} => TargetSchema
    /\ cmd.at = "journal" /\ cmd.op = "install" => cmd.failed # "stop"
    /\ cmd.at \in {"journal", "undo_stop", "undo_schema"} => SchemaCanBeUndone
    /\ cmd.at \in {"undo_switch", "undo_up", "undo_health"} => db <= Rev[manifest.current]
    /\ cmd.at \in {"undo_up", "undo_health"} => envTag = manifest.current
    /\ cmd.at = "undo_health" =>
          app.image = manifest.current /\ app.state \in {"starting", "serving"}

\* Nothing but a repair that fails, a command interrupted or one told to leave
\* the schema alone closes the way back.
LEMMA RepairKept ==
  ASSUME ReleaseTypeOK, ReleaseTypeOK', ShapeParts, ShapeParts', RepairIsPossible,
         [ReleaseNext]_releaseVars
  PROVE  RepairIsPossible'
  <1> SUFFICES ASSUME calm', manifest'.current # NoVersion PROVE Repairable'
    BY DEF RepairIsPossible, Repairable
  <1>t. /\ app \in AppType /\ app' \in AppType /\ manifest \in ManifestType
        /\ cmd \in CmdType /\ cmd' \in CmdType /\ db \in Nat /\ db' \in Nat
    BY TypeParts, TypePartsNext
  <1>b. calm /\ manifest.current # NoVersion =>
          /\ Repairable
          /\ manifest.current \in Versions
          /\ Rev[manifest.current] \in Nat
          /\ cmd.at # "idle" => Rev[cmd.target] \in Nat
          /\ app.state = "serving" => db = Rev[app.image]
    BY <1>t, RevAssumption
       DEF RepairIsPossible, Repairable, ShapeParts, CommandShape, ManifestType, SchemaFitsServing
  <1> USE DEF Repairable, Repair
  <1>1. ASSUME NEW identified \in BOOLEAN, AdoptRunning(identified) PROVE Repairable'
    <2>1. cmd' = cmd /\ app' = app /\ envTag' = envTag /\ manifest'.current = app.image
      BY <1>1 DEF AdoptRunning
    <2>2. cmd.at = "idle" /\ app.state = "serving" /\ app.image = envTag
      BY <1>1 DEF AdoptRunning, ShapeParts, CommandShape
    <2> QED BY <2>1, <2>2 DEF CurrentInService
  <1>2. ASSUME NEW op \in {"install", "rollback"}, NEW v \in Versions, NEW migrate \in BOOLEAN,
               Starts(op, v, migrate)
        PROVE  Repairable'
    <2>1. cmd'.at \in {"prepare", "stop"} BY <1>2 DEF Starts, Idle
    <2>2. UNCHANGED <<manifest, envTag, db, app, calm>> /\ cmd.at = "idle" BY <1>2 DEF Starts
    <2> QED BY <1>b, <2>1, <2>2 DEF CurrentInService
  <1>3. ASSUME NEW migrate \in BOOLEAN, RollbackToPrevious(migrate) PROVE Repairable'
    <2>1. PreviousInstalled \in ToSet(manifest.installed) BY <1>3 DEF RollbackToPrevious, Rollback
    <2>2. ToSet(manifest.installed) \subseteq Versions BY <1>t DEF ToSet, ManifestType
    <2> QED BY <1>2, <1>3, <2>1, <2>2 DEF RollbackToPrevious, Rollback
  <1>4. CASE Prepare \/ Healthy \/ Switch \/ UndoSwitch
    <2>1. /\ SameCommand /\ UNCHANGED <<manifest, db, app, calm>>
          /\ \/ cmd.at = "prepare" /\ cmd'.at = "stop" /\ envTag' = envTag
             \/ cmd.at = "health" /\ cmd'.at = "record"
             \/ cmd.at = "switch" /\ cmd'.at = "up"
             \/ cmd.at = "undo_switch" /\ cmd'.at = "undo_up" /\ envTag' = manifest.current
      BY <1>4, GoesTo DEF Prepare, Healthy, Switch, UndoSwitch, SwitchesTag, GoTo
    <2> QED BY <1>b, <2>1 DEF SameCommand, CurrentInService, TargetSchema
  <1>5. CASE Stop
    <2>1. /\ cmd.at = "stop" /\ cmd'.at = "backup" /\ UNCHANGED <<manifest, calm>>
          /\ db' \in Interrupted
      BY <1>5, GoesTo DEF Stop, StopsApp, GoTo
    <2>2. app.state = "serving" /\ app.image = manifest.current
      BY <1>b, <2>1 DEF CurrentInService
    <2> QED BY <1>b, <2>1, <2>2 DEF Interrupted
  <1>6. CASE UndoStop
    <2>1. /\ cmd.at = "undo_stop" /\ cmd'.at = "undo_schema" /\ UNCHANGED <<manifest, calm>>
          /\ SameCommand /\ app' = Down /\ db' \in Interrupted
      BY <1>6, GoesTo DEF UndoStop, StopsApp, GoTo
    <2>2. app'.state = "down" BY <1>t, <2>1 DEF Down, AppType
    <2>3. db' = db BY <1>b, <1>t, <2>1 DEF Interrupted, SchemaCanBeUndone
    <2> QED BY <1>b, <2>1, <2>2, <2>3 DEF SchemaCanBeUndone, SameCommand
  <1>7. CASE Backup
    <2>1. /\ cmd.at = "backup" /\ cmd'.at = "schema" /\ cmd'.op = cmd.op
          /\ cmd'.changed = (cmd.op = "install") /\ UNCHANGED <<manifest, db, calm>>
      BY <1>7, <1>t DEF Backup, CmdType
    <2> QED BY <1>b, <2>1
  <1>8. CASE Schema
    <2>1. /\ cmd'.at = "switch" /\ cmd'.op = cmd.op /\ cmd'.target = cmd.target
          /\ cmd'.migrate = cmd.migrate
          /\ cmd.changed => cmd'.changed
      BY <1>8, SchemaFields DEF Schema
    <2>2. /\ cmd.at = "schema" /\ UNCHANGED <<manifest, app, calm>>
          /\ Forward.needed => Possible(Forward)
          /\ db' = IF Forward.needed THEN Forward.goal ELSE db
      BY <1>8 DEF Schema
    <2>3. db = Rev[manifest.current] /\ (cmd.op = "install" => cmd.changed) BY <1>b, <2>2
    <2>4. cmd.op \in {"install", "rollback"} BY <1>t, <2>2 DEF ShapeParts, CommandShape, CmdType
    <2>5. TargetSchema'
      <3>1. CASE ~ cmd.migrate
        <4>1. ~ Forward.needed BY <3>1 DEF Forward
        <4> QED BY <2>1, <2>2, <2>3, <3>1, <4>1 DEF TargetSchema
      <3>2. CASE cmd.migrate /\ cmd.op = "install"
        <4>1. Forward.needed /\ Forward.goal = Rev[cmd.target] /\ Forward.image = cmd.target
          BY <3>2 DEF Forward
        <4>2. db <= Rev[cmd.target] BY <2>2, <4>1 DEF Possible, Known
        <4> QED BY <2>1, <2>2, <2>3, <3>2, <4>1, <4>2 DEF TargetSchema
      <3>3. CASE cmd.migrate /\ cmd.op = "rollback"
        <4>1. /\ Forward.needed <=> db # Rev[cmd.target]
              /\ Forward.goal = Rev[cmd.target] /\ Forward.down
          BY <3>3 DEF Forward
        <4>2. db' = Rev[cmd.target] /\ Rev[cmd.target] <= db
          BY <1>b, <1>t, <2>2, <4>1 DEF Possible
        <4> QED BY <2>1, <2>2, <2>3, <3>3, <4>2 DEF TargetSchema
      <3> QED BY <2>4, <1>t, <3>1, <3>2, <3>3 DEF CmdType
    <2> QED BY <2>1, <2>5
  <1>9. CASE SchemaRefused
    <2>1. cmd'.at = "journal" /\ cmd'.op = cmd.op /\ cmd'.failed = "schema"
      BY <1>9, RefusedFields DEF SchemaRefused
    <2>2. cmd.at = "schema" /\ UNCHANGED <<manifest, db, app, calm>> BY <1>9 DEF SchemaRefused
    <2>3. app.state = "down" BY <2>2 DEF ShapeParts, DownWhileChanging
    <2> QED BY <1>b, <1>t, <2>1, <2>2, <2>3 DEF SchemaCanBeUndone
  <1>10. CASE Unhealthy
    <2>1. /\ cmd'.at = "journal" /\ cmd'.op = cmd.op /\ cmd'.target = cmd.target
          /\ cmd'.migrate = cmd.migrate /\ cmd'.changed = cmd.changed /\ cmd'.failed = "health"
      BY <1>10, <1>t DEF Unhealthy, CmdType
    <2>2. cmd.at = "health" /\ app.state = "broken" /\ UNCHANGED <<manifest, db, app, calm>>
      BY <1>10 DEF Unhealthy
    <2> QED BY <1>b, <1>t, <2>1, <2>2 DEF SchemaCanBeUndone, TargetSchema
  <1>11. CASE Up
    <2>1. /\ SameCommand /\ UNCHANGED <<manifest, envTag, db, calm>>
          /\ \/ cmd.at = "up" /\ cmd'.at = "health"
             \/ cmd.at = "undo_up" /\ cmd'.at = "undo_health"
      BY <1>11, GoesTo DEF Up, GoTo
    <2>2. app'.image = envTag /\ app'.state = "starting"
      BY <1>11 DEF Up, Started, ShapeParts, DownWhileChanging
    <2>3. app.state = "down" BY <2>1 DEF ShapeParts, DownWhileChanging
    <2> QED BY <1>b, <2>1, <2>2, <2>3 DEF SameCommand, TargetSchema
  <1>12. CASE Record
    <2>1. /\ cmd.at = "record" /\ cmd' = Idle /\ manifest'.current = cmd.target
          /\ UNCHANGED <<envTag, app>>
      BY <1>12, <1>t DEF Record, Ends, ManifestType
    <2> QED BY <2>1, IdleFields DEF ShapeParts, TargetInService, CurrentInService
  <1>13. CASE Journal
    <2>1. cmd.at = "journal" /\ UNCHANGED <<manifest, db, app, calm>> BY <1>13 DEF Journal
    <2>2. AfterFailure = "undo_stop" 
      BY <1>b, <1>t, <2>1 DEF AfterFailure, ShapeParts, CommandShape, CmdType
    <2>3. cmd'.at = "undo_stop" /\ SameCommand BY <1>13, <2>2, GoesTo DEF Journal, GoTo
    <2> QED BY <1>b, <2>1, <2>3 DEF SchemaCanBeUndone, SameCommand
  <1>14. CASE UndoSchema
    <2>1. /\ cmd.at = "undo_schema" /\ cmd'.at = "undo_switch" /\ UNCHANGED <<manifest, calm>>
          /\ db' = IF Backward.needed THEN Backward.goal ELSE db
      BY <1>14, GoesTo DEF UndoSchema, GoTo
    <2>2. Backward.goal = Rev[manifest.current] BY DEF Backward
    <2>3. ASSUME ~ Backward.needed PROVE db <= Rev[manifest.current]
      <3>1. SchemaCanBeUndone BY <1>b, <2>1
      <3>2. CASE cmd.op = "install"
        <4>1. ~ (cmd.changed /\ cmd.migrate /\ db # Rev[manifest.current])
          BY <2>3, <3>2 DEF Backward
        <4> QED BY <1>b, <1>t, <2>1, <3>1, <3>2, <4>1 DEF SchemaCanBeUndone
      <3>3. CASE cmd.op # "install" BY <3>1, <3>3 DEF SchemaCanBeUndone
      <3> QED BY <3>2, <3>3
    <2> QED BY <1>b, <2>1, <2>2, <2>3
  <1>15. CASE UndoSchemaRefused
    <2>1. cmd.at = "undo_schema" /\ UNCHANGED <<manifest, calm>> /\ Backward.needed
      BY <1>15 DEF UndoSchemaRefused
    <2>2. Possible(Backward)
      <3>1. CASE cmd.op = "install"
        <4>1. cmd.changed /\ cmd.migrate /\ db # Rev[manifest.current]
          BY <2>1, <3>1 DEF Backward
        <4>2. Rev[manifest.current] <= db /\ db <= Rev[cmd.target]
          BY <1>b, <2>1, <3>1, <4>1 DEF SchemaCanBeUndone
        <4>3. Rev[manifest.current] <= Rev[cmd.target] BY <1>b, <1>t, <2>1, <4>2
        <4> QED BY <3>1, <4>2, <4>3 DEF Backward, Possible, Known
      <3>2. CASE cmd.op # "install"
        BY <1>b, <1>t, <2>1, <3>2 DEF Backward, Possible, Known, SchemaCanBeUndone
      <3> QED BY <3>1, <3>2
    <2> QED BY <1>15, <2>2 DEF UndoSchemaRefused
  <1>16. CASE UndoHealth
    <2>1. /\ cmd.at = "undo_health" /\ cmd' = Idle /\ app.state \in {"serving", "broken"}
          /\ UNCHANGED <<manifest, envTag, app, calm>>
      BY <1>16 DEF UndoHealth, Ends
    <2> QED BY <1>b, <2>1, IdleFields DEF CurrentInService
  <1>17. CASE PlainUp
    BY <1>17 DEF PlainUp, ShapeParts, CommandShape
  <1>18. CASE StepFails
    <2>1. calm /\ Repaired /\ cmd.at # "idle" /\ UNCHANGED manifest BY <1>18 DEF StepFails
    <2>2. CASE cmd.at = "prepare"
      <3>1. cmd' = Idle /\ UNCHANGED <<db, app, envTag>>
        BY <1>18, <2>2 DEF StepFails, Caught, Ends, HalfDone
      <3> QED BY <1>b, <2>1, <2>2, <3>1, IdleFields DEF CurrentInService
    <2>3. CASE cmd.at # "prepare"
      <3>1. cmd.migrate /\ cmd.at \in {"stop", "backup", "schema", "switch", "up", "health"}
        BY <1>t, <2>1, <2>3 DEF Repaired, CmdType, At, Steps
      <3>2. /\ cmd'.at = "journal" /\ cmd'.op = cmd.op /\ cmd'.target = cmd.target
            /\ cmd'.migrate = cmd.migrate /\ cmd'.failed = cmd.at
            /\ cmd.changed => cmd'.changed
        BY <1>18, <3>1, FailedFields DEF Caught, Steps
      <3>3. cmd.at = "stop" => cmd.op = "rollback"
        BY <1>t, <2>1 DEF Repaired, CmdType, ShapeParts, CommandShape
      <3>4. SchemaCanBeUndone'
        <4>1. CASE cmd.at = "stop"
          <5>1. app.state = "serving" /\ app.image = manifest.current
            BY <1>b, <2>1, <4>1 DEF CurrentInService
          <5>2. db' = db /\ app'.state # "starting"
            BY <1>18, <1>t, <4>1, <5>1 DEF StepFails, HalfDone, Interrupted, Down, AppType
          <5> QED BY <1>b, <1>t, <2>1, <3>2, <3>3, <4>1, <5>1, <5>2 DEF SchemaCanBeUndone
        <4>2. CASE cmd.at = "backup"
          <5>1. UNCHANGED <<db, app>> BY <1>18, <4>2 DEF StepFails, HalfDone
          <5> QED BY <1>b, <1>t, <2>1, <4>2, <5>1
                  DEF SchemaCanBeUndone, ShapeParts, DownWhileChanging
        <4>3. CASE cmd.at = "schema"
          <5>1. /\ app' = app /\ app.state = "down" /\ Forward.needed /\ Possible(Forward)
                /\ db' \in Between(db, Forward.goal)
            BY <1>18, <4>3 DEF StepFails, HalfDone, ShapeParts, DownWhileChanging
          <5>2. Forward.goal = Rev[cmd.target] BY DEF Forward
          <5>3. CASE cmd.op = "install"
            <6>1. db <= Rev[cmd.target] BY <5>1, <5>3 DEF Forward, Possible, Known
            <6>2. db <= db' /\ db' <= Rev[cmd.target]
              BY <1>b, <1>t, <2>1, <5>1, <5>2, <6>1 DEF Between
            <6> QED BY <1>b, <1>t, <2>1, <3>1, <3>2, <4>3, <5>1, <5>3, <6>2 DEF SchemaCanBeUndone
          <5>4. CASE cmd.op # "install"
            <6>1. Rev[cmd.target] <= db BY <5>1, <5>2, <5>4 DEF Forward, Possible
            <6>2. db' <= db BY <1>b, <1>t, <2>1, <5>1, <5>2, <6>1 DEF Between
            <6> QED BY <1>b, <1>t, <2>1, <3>2, <4>3, <5>1, <5>4, <6>2 DEF SchemaCanBeUndone
          <5> QED BY <5>3, <5>4
        <4>4. CASE cmd.at \in {"switch", "up", "health"}
          <5>1. db' = db BY <1>18, <4>4 DEF StepFails, HalfDone
          <5>2. db = Rev[cmd.target] BY <1>b, <2>1, <3>1, <4>4 DEF TargetSchema
          <5>3. app'.state = "starting" => app'.image = cmd.target
            BY <1>18, <4>4
               DEF StepFails, HalfDone, Started, ShapeParts, DownWhileChanging, TargetInService
          <5> QED BY <1>b, <1>t, <2>1, <3>1, <3>2, <4>4, <5>1, <5>2, <5>3
                  DEF SchemaCanBeUndone, TargetSchema
        <4> QED BY <3>1, <4>1, <4>2, <4>3, <4>4
      <3> QED BY <3>2, <3>3, <3>4
    <2> QED BY <2>2, <2>3
  <1>19. CASE Killed BY <1>19 DEF Killed
  <1>20. CASE Unlock \/ UNCHANGED releaseVars
    BY <1>20, <1>b
       DEF Unlock, releaseVars, CurrentInService, TargetSchema, SchemaCanBeUndone
  <1>21. CASE EntrypointRuns
    <2>1. /\ app.state = "starting" /\ UNCHANGED <<manifest, envTag, cmd, calm>>
          /\ app'.image = app.image
          /\ \/ app'.state = "serving" /\ db' = Rev[app.image] /\ db <= Rev[app.image]
             \/ app'.state = "broken" /\ db' = db /\ ~ (db <= Rev[app.image])
      BY <1>21, <1>t DEF EntrypointRuns, EntrypointUpgrade, Known, AppType
    <2>2. cmd.at \in {"health", "journal", "undo_stop", "undo_health", "record", "plain_up"}
      BY <1>b, <1>t, <2>1
         DEF CmdType, At, Steps, ShapeParts, DownWhileChanging, CurrentInService
    <2>3. CASE cmd.at = "health"
      <3>1. app.image = cmd.target BY <2>3 DEF ShapeParts, TargetInService
      <3> QED BY <1>b, <2>1, <2>3, <3>1 DEF TargetSchema
    <2>4. CASE cmd.at \in {"journal", "undo_stop"}
      BY <1>b, <1>t, <2>1, <2>4 DEF SchemaCanBeUndone
    <2>5. CASE cmd.at = "undo_health" BY <1>b, <1>t, <2>1, <2>5
    <2> QED BY <2>1, <2>2, <2>3, <2>4, <2>5
  <1>22. CASE EntrypointFails
    <2>1. /\ app.state = "starting" /\ calm /\ cmd.at # "idle" /\ Repaired
          /\ UNCHANGED <<manifest, envTag>> /\ cmd'.at = cmd.at /\ SameCommand
          /\ app'.image = app.image /\ app'.state = "broken" /\ db' \in Interrupted
      BY <1>22, <1>t DEF EntrypointFails, AppType, CmdType, SameCommand
    <2>2. cmd.at = "health"
      BY <1>b, <1>t, <2>1
         DEF CmdType, At, Steps, Repaired, ShapeParts, DownWhileChanging, CurrentInService
    <2>3. cmd.migrate /\ app.image = cmd.target
      BY <2>1, <2>2 DEF Repaired, ShapeParts, TargetInService
    <2>4. db = Rev[cmd.target] BY <1>b, <2>1, <2>2, <2>3 DEF TargetSchema
    <2>5. db' = db BY <1>t, <2>1, <2>3, <2>4 DEF Interrupted
    <2> QED BY <1>b, <2>1, <2>2, <2>3, <2>5 DEF TargetSchema, SameCommand
  <1> QED BY <1>1, <1>2, <1>3, <1>4, <1>5, <1>6, <1>7, <1>8, <1>9, <1>10, <1>11, <1>12, <1>13,
             <1>14, <1>15, <1>16, <1>17, <1>18, <1>19, <1>20, <1>21, <1>22
          DEF ReleaseNext, Command, Step, RepairStep, Install, Rollback
-----------------------------------------------------------------------------
(* The theorems *)

LEMMA ReleaseInductiveInit == ReleaseInit => ReleaseInductive
  <1> SUFFICES ASSUME ReleaseInit PROVE ReleaseInductive OBVIOUS
  <1>1. ReleaseTypeOK BY ReleaseTypeInit
  <1>2. /\ app.state = "serving" /\ app.image = envTag /\ db = Rev[app.image]
        /\ ~ manifest.made /\ manifest.current = NoVersion
    BY DEF ReleaseInit
  <1>3. cmd.at = "idle" /\ cmd.op = "none" /\ ~ cmd.changed BY IdleFields DEF ReleaseInit
  <1> QED BY <1>1, <1>2, <1>3
          DEF ReleaseInductive, CommandShape, DownWhileChanging, SavedBeforeChange,
              TargetInService, SchemaFitsServing, RepairIsPossible, Repair

LEMMA ReleaseInductiveStep ==
  ASSUME ReleaseInductive, [ReleaseNext]_releaseVars
  PROVE  ReleaseInductive'
  <1>1. ReleaseTypeOK /\ CommandShape /\ ShapeParts /\ RepairIsPossible
    BY DEF ReleaseInductive, ShapeParts
  <1>2. ReleaseTypeOK' BY <1>1, ReleaseTypeStep
  <1>3. ShapeParts' BY <1>1, <1>2, ShapeStep
  <1>4. RepairIsPossible' BY <1>1, <1>2, <1>3, RepairKept
  <1> QED BY <1>2, <1>3, <1>4 DEF ReleaseInductive, ShapeParts

\* The steps of a command, its target, the schema and the way back fit together
\* in every reachable state of the release tool (cmd_install, cmd_rollback).
THEOREM ReleaseInvariant == ReleaseSpec => []ReleaseInductive
  <1>1. ReleaseInit => ReleaseInductive BY ReleaseInductiveInit
  <1>2. ReleaseInductive /\ [ReleaseNext]_releaseVars => ReleaseInductive'
    BY ReleaseInductiveStep
  <1> QED BY <1>1, <1>2, PTL DEF ReleaseSpec

\* A server that answers requests runs on the schema its code was written for,
\* whatever fails or is killed (release.py against deploy/entrypoint.sh).
THEOREM ServingFitsSchema == ReleaseSpec => []SchemaFitsServing
  <1>1. ReleaseInductive => SchemaFitsServing BY DEF ReleaseInductive
  <1> QED BY <1>1, ReleaseInvariant, PTL

\* The state volume is saved and migrated only while the app is stopped, and
\* migrated only once it has been saved (_backup() before _alembic()).
THEOREM ChangesAreSafe == ReleaseSpec => []SchemaChangesAreSafe
  <1>1. ASSUME ReleaseInductive PROVE SchemaChangesAreSafe
    <2>1. Backward.needed => cmd.changed
      <3>1. CASE cmd.op = "install" BY <3>1 DEF Backward
      <3>2. CASE cmd.op # "install" BY <3>2 DEF Backward
      <3> QED BY <3>1, <3>2
    <2> QED BY <1>1, <2>1
            DEF ReleaseInductive, DownWhileChanging, SavedBeforeChange, SchemaChangesAreSafe
  <1> QED BY <1>1, ReleaseInvariant, PTL

\* After a command whose failures the tool repairs, the app serves the version
\* the manifest names, under its tag and on a schema its image knows.
THEOREM FailuresAreRepaired == ReleaseSpec => []FailureIsRepaired
  <1>1. ASSUME ReleaseInductive PROVE FailureIsRepaired
    <2> SUFFICES ASSUME cmd.at = "idle", calm, manifest.current # NoVersion
                 PROVE  /\ CurrentInService
                        /\ db = Rev[app.image]
                        /\ db <= Rev[app.image]
      BY DEF FailureIsRepaired, CurrentInService, Known
    <2>1. CurrentInService BY <1>1 DEF ReleaseInductive, RepairIsPossible
    <2>2. db = Rev[app.image] BY <1>1, <2>1 DEF ReleaseInductive, SchemaFitsServing, CurrentInService
    <2>3. db \in Nat BY <1>1, TypeParts DEF ReleaseInductive
    <2> QED BY <2>1, <2>2, <2>3
  <1> QED BY <1>1, ReleaseInvariant, PTL

-----------------------------------------------------------------------------
(* Migrations: where the commits of each revision lead *)

LEMMA Schemas ==
  /\ SchemaAt[0] = {}
  /\ SchemaAt[1] = {"books", "memory"}
  /\ SchemaAt[2] = {"books", "memory", "accounts", "links", "ledgers"}
  /\ SchemaAt[3] = {"books", "memory", "accounts", "links", "ledgers", "templates", "templateLink"}
  /\ SchemaAt[4] = {"books", "memory", "accounts", "links", "ledgers", "templates",
                    "templateLink", "logs"}
  /\ SchemaAt[5] = {"books", "memory", "accounts", "links", "ledgers", "templates",
                    "templateLink", "logs", "releases"}
  <1> DEFINE A(v) == UNION {Adds(u) : u \in 1 .. v}
  <1>1. \A v \in 0 .. 5 : SchemaAt[v] = A(v) \ {"copy"} BY DEF SchemaAt, Newest
  <1>2. A(0) = {} OBVIOUS
  <1>3. \A v \in 0 .. 4 : A(v + 1) = A(v) \cup Adds(v + 1)
    <2>1. ASSUME NEW v \in 0 .. 4 PROVE A(v + 1) = A(v) \cup Adds(v + 1)
      <3>1. 1 .. (v + 1) = (1 .. v) \cup {v + 1} OBVIOUS
      <3> QED BY <3>1
    <2> QED BY <2>1
  <1> HIDE DEF A
  <1>4. /\ Upgrades[1] = Initial /\ Upgrades[2] = ServerFoundation
        /\ Upgrades[3] = PromptTemplates /\ Upgrades[4] = RuntimeLogs
        /\ Upgrades[5] = ReleaseRecord
    BY DEF Upgrades
  <1>5. Adds(1) = {"books", "memory"}
    BY <1>4 DEF Adds, Initial, Commit, Stamp
  <1>6. Adds(2) = {"accounts", "copy", "links", "ledgers"}
    BY <1>4 DEF Adds, ServerFoundation, Accounts, Ledgers, Commit, Recreate
  <1>7. Adds(3) = {"templates", "copy", "templateLink"}
    BY <1>4 DEF Adds, PromptTemplates, Commit, Recreate
  <1>8. Adds(4) = {"logs"}
    BY <1>4 DEF Adds, RuntimeLogs, Commit, Stamp
  <1>9. Adds(5) = {"releases"}
    BY <1>4 DEF Adds, ReleaseRecord, Commit, Stamp
  <1>10. A(1) = Adds(1) BY <1>2, <1>3
  <1>11. A(2) = Adds(1) \cup Adds(2) BY <1>10, <1>3
  <1>12. A(3) = Adds(1) \cup Adds(2) \cup Adds(3) BY <1>11, <1>3
  <1>13. A(4) = Adds(1) \cup Adds(2) \cup Adds(3) \cup Adds(4) BY <1>12, <1>3
  <1>14. A(5) = Adds(1) \cup Adds(2) \cup Adds(3) \cup Adds(4) \cup Adds(5) BY <1>13, <1>3
  <1> QED BY <1>1, <1>2, <1>5, <1>6, <1>7, <1>8, <1>9, <1>10, <1>11, <1>12, <1>13, <1>14

\* The n-th commit on the way from one revision to another finds what it needs.
LeadsBy(n, v, commits, w) ==
    LET commit == commits[n]
        before == Before(n, v, commits)
    IN  /\ commit.adds \subseteq Parts
        /\ commit.adds \cap before = {} /\ commit.drops \subseteq before
        /\ commit.last <=> n = Len(commits)
        /\ Effect(before, commit) =
              IF n = Len(commits) THEN SchemaAt[w] ELSE Before(n + 1, v, commits)

Leads(v, commits, w) ==
    /\ Len(commits) \in 2 .. 3 /\ DOMAIN commits = 1 .. Len(commits)
    /\ \A n \in DOMAIN commits : LeadsBy(n, v, commits, w)

LEMMA InitialLeads == Leads(0, Initial, 1)
  <1>1. DOMAIN Initial = 1 .. 3 /\ Len(Initial) = 3 BY DEF Initial
  <1>2. LeadsBy(1, 0, Initial, 1)
    BY Schemas, <1>1 DEF LeadsBy, Before, Effect, Initial, Commit, Stamp, Recreate, Parts
  <1>3. LeadsBy(2, 0, Initial, 1)
    BY Schemas, <1>1 DEF LeadsBy, Before, Effect, Initial, Commit, Stamp, Recreate, Parts
  <1>4. LeadsBy(3, 0, Initial, 1)
    BY Schemas, <1>1 DEF LeadsBy, Before, Effect, Initial, Commit, Stamp, Recreate, Parts
  <1> QED BY <1>1, <1>2, <1>3, <1>4 DEF Leads

LEMMA ServerFoundationLeads == Leads(1, ServerFoundation, 2)
  <1>1. DOMAIN ServerFoundation = 1 .. 3 /\ Len(ServerFoundation) = 3 BY DEF ServerFoundation
  <1>2. LeadsBy(1, 1, ServerFoundation, 2)
    BY Schemas, <1>1 DEF LeadsBy, Before, Effect, ServerFoundation, Accounts, Ledgers, Commit, Stamp, Recreate, Parts
  <1>3. LeadsBy(2, 1, ServerFoundation, 2)
    BY Schemas, <1>1 DEF LeadsBy, Before, Effect, ServerFoundation, Accounts, Ledgers, Commit, Stamp, Recreate, Parts
  <1>4. LeadsBy(3, 1, ServerFoundation, 2)
    BY Schemas, <1>1 DEF LeadsBy, Before, Effect, ServerFoundation, Accounts, Ledgers, Commit, Stamp, Recreate, Parts
  <1> QED BY <1>1, <1>2, <1>3, <1>4 DEF Leads

LEMMA PromptTemplatesLeads == Leads(2, PromptTemplates, 3)
  <1>1. DOMAIN PromptTemplates = 1 .. 3 /\ Len(PromptTemplates) = 3 BY DEF PromptTemplates
  <1>2. LeadsBy(1, 2, PromptTemplates, 3)
    BY Schemas, <1>1 DEF LeadsBy, Before, Effect, PromptTemplates, Commit, Stamp, Recreate, Parts
  <1>3. LeadsBy(2, 2, PromptTemplates, 3)
    BY Schemas, <1>1 DEF LeadsBy, Before, Effect, PromptTemplates, Commit, Stamp, Recreate, Parts
  <1>4. LeadsBy(3, 2, PromptTemplates, 3)
    BY Schemas, <1>1 DEF LeadsBy, Before, Effect, PromptTemplates, Commit, Stamp, Recreate, Parts
  <1> QED BY <1>1, <1>2, <1>3, <1>4 DEF Leads

LEMMA RuntimeLogsLeads == Leads(3, RuntimeLogs, 4)
  <1>1. DOMAIN RuntimeLogs = 1 .. 2 /\ Len(RuntimeLogs) = 2 BY DEF RuntimeLogs
  <1>2. LeadsBy(1, 3, RuntimeLogs, 4)
    BY Schemas, <1>1 DEF LeadsBy, Before, Effect, RuntimeLogs, Commit, Stamp, Recreate, Parts
  <1>3. LeadsBy(2, 3, RuntimeLogs, 4)
    BY Schemas, <1>1 DEF LeadsBy, Before, Effect, RuntimeLogs, Commit, Stamp, Recreate, Parts
  <1> QED BY <1>1, <1>2, <1>3 DEF Leads

LEMMA ReleaseRecordLeads == Leads(4, ReleaseRecord, 5)
  <1>1. DOMAIN ReleaseRecord = 1 .. 2 /\ Len(ReleaseRecord) = 2 BY DEF ReleaseRecord
  <1>2. LeadsBy(1, 4, ReleaseRecord, 5)
    BY Schemas, <1>1 DEF LeadsBy, Before, Effect, ReleaseRecord, Commit, Stamp, Recreate, Parts
  <1>3. LeadsBy(2, 4, ReleaseRecord, 5)
    BY Schemas, <1>1 DEF LeadsBy, Before, Effect, ReleaseRecord, Commit, Stamp, Recreate, Parts
  <1> QED BY <1>1, <1>2, <1>3 DEF Leads

LEMMA UndoInitialLeads == Leads(1, UndoInitial, 0)
  <1>1. DOMAIN UndoInitial = 1 .. 3 /\ Len(UndoInitial) = 3 BY DEF UndoInitial
  <1>2. LeadsBy(1, 1, UndoInitial, 0)
    BY Schemas, <1>1 DEF LeadsBy, Before, Effect, UndoInitial, Commit, Stamp, Recreate, Parts
  <1>3. LeadsBy(2, 1, UndoInitial, 0)
    BY Schemas, <1>1 DEF LeadsBy, Before, Effect, UndoInitial, Commit, Stamp, Recreate, Parts
  <1>4. LeadsBy(3, 1, UndoInitial, 0)
    BY Schemas, <1>1 DEF LeadsBy, Before, Effect, UndoInitial, Commit, Stamp, Recreate, Parts
  <1> QED BY <1>1, <1>2, <1>3, <1>4 DEF Leads

LEMMA UndoServerFoundationLeads == Leads(2, UndoServerFoundation, 1)
  <1>1. DOMAIN UndoServerFoundation = 1 .. 3 /\ Len(UndoServerFoundation) = 3 BY DEF UndoServerFoundation
  <1>2. LeadsBy(1, 2, UndoServerFoundation, 1)
    BY Schemas, <1>1 DEF LeadsBy, Before, Effect, UndoServerFoundation, Commit, Stamp, Recreate, Parts
  <1>3. LeadsBy(2, 2, UndoServerFoundation, 1)
    BY Schemas, <1>1 DEF LeadsBy, Before, Effect, UndoServerFoundation, Commit, Stamp, Recreate, Parts
  <1>4. LeadsBy(3, 2, UndoServerFoundation, 1)
    BY Schemas, <1>1 DEF LeadsBy, Before, Effect, UndoServerFoundation, Commit, Stamp, Recreate, Parts
  <1> QED BY <1>1, <1>2, <1>3, <1>4 DEF Leads

LEMMA UndoPromptTemplatesLeads == Leads(3, UndoPromptTemplates, 2)
  <1>1. DOMAIN UndoPromptTemplates = 1 .. 2 /\ Len(UndoPromptTemplates) = 2 BY DEF UndoPromptTemplates
  <1>2. LeadsBy(1, 3, UndoPromptTemplates, 2)
    BY Schemas, <1>1 DEF LeadsBy, Before, Effect, UndoPromptTemplates, Commit, Stamp, Recreate, Parts
  <1>3. LeadsBy(2, 3, UndoPromptTemplates, 2)
    BY Schemas, <1>1 DEF LeadsBy, Before, Effect, UndoPromptTemplates, Commit, Stamp, Recreate, Parts
  <1> QED BY <1>1, <1>2, <1>3 DEF Leads

LEMMA UndoRuntimeLogsLeads == Leads(4, UndoRuntimeLogs, 3)
  <1>1. DOMAIN UndoRuntimeLogs = 1 .. 2 /\ Len(UndoRuntimeLogs) = 2 BY DEF UndoRuntimeLogs
  <1>2. LeadsBy(1, 4, UndoRuntimeLogs, 3)
    BY Schemas, <1>1 DEF LeadsBy, Before, Effect, UndoRuntimeLogs, Commit, Stamp, Recreate, Parts
  <1>3. LeadsBy(2, 4, UndoRuntimeLogs, 3)
    BY Schemas, <1>1 DEF LeadsBy, Before, Effect, UndoRuntimeLogs, Commit, Stamp, Recreate, Parts
  <1> QED BY <1>1, <1>2, <1>3 DEF Leads

LEMMA UndoReleaseRecordLeads == Leads(5, UndoReleaseRecord, 4)
  <1>1. DOMAIN UndoReleaseRecord = 1 .. 2 /\ Len(UndoReleaseRecord) = 2 BY DEF UndoReleaseRecord
  <1>2. LeadsBy(1, 5, UndoReleaseRecord, 4)
    BY Schemas, <1>1 DEF LeadsBy, Before, Effect, UndoReleaseRecord, Commit, Stamp, Recreate, Parts
  <1>3. LeadsBy(2, 5, UndoReleaseRecord, 4)
    BY Schemas, <1>1 DEF LeadsBy, Before, Effect, UndoReleaseRecord, Commit, Stamp, Recreate, Parts
  <1> QED BY <1>1, <1>2, <1>3 DEF Leads

-----------------------------------------------------------------------------
(* Migrations: the record of the revision tells the truth *)

LEMMA LeadsFar ==
  ASSUME NEW v, NEW commits, NEW w, Leads(v, commits, w)
  PROVE  1 \in DOMAIN commits /\ DOMAIN commits \subseteq 1 .. 3
  <1>1. PICK far : far = Len(commits) OBVIOUS
  <1>2. far \in 2 .. 3 /\ DOMAIN commits = 1 .. far BY <1>1 DEF Leads
  <1> QED BY <1>2

LEMMA RevisionsLead ==
  /\ \A v \in 0 .. 4 : Leads(v, Upgrades[v + 1], v + 1)
  /\ \A v \in 1 .. 5 : Leads(v, Downgrades[v], v - 1)
  <1>1. ASSUME NEW v \in 0 .. 4 PROVE Leads(v, Upgrades[v + 1], v + 1)
    BY InitialLeads, ServerFoundationLeads, PromptTemplatesLeads, RuntimeLogsLeads,
       ReleaseRecordLeads DEF Upgrades
  <1>2. ASSUME NEW v \in 1 .. 5 PROVE Leads(v, Downgrades[v], v - 1)
    BY UndoInitialLeads, UndoServerFoundationLeads, UndoPromptTemplatesLeads,
       UndoRuntimeLogsLeads, UndoReleaseRecordLeads DEF Downgrades
  <1> QED BY <1>1, <1>2

LEMMA CommitsLead ==
  ASSUME MigrationTypeOK, UnderWay, ~NotMigrating
  PROVE  /\ revision \in 0 .. 5 /\ migration.next \in DOMAIN Commits
         /\ migration.direction = "up" =>
               revision < 5 /\ Leads(revision, Commits, revision + 1)
         /\ migration.direction # "up" =>
               /\ migration.direction = "down" /\ 0 < revision
               /\ Leads(revision, Commits, revision - 1)
  <1>1. /\ revision \in 0 .. 5 /\ migration.next \in DOMAIN Commits
        /\ migration.goal \in 0 .. 5 /\ migration.direction \in {"up", "down"}
        /\ migration.direction = "up" => revision < migration.goal
        /\ migration.direction = "down" => migration.goal < revision
    BY DEF MigrationTypeOK, UnderWay, Newest
  <1>2. CASE migration.direction = "up"
    <2>1. revision \in 0 .. 4 BY <1>1, <1>2
    <2>2. Commits = Upgrades[revision + 1] BY <1>2 DEF Commits
    <2>3. Leads(revision, Upgrades[revision + 1], revision + 1) BY <2>1, RevisionsLead
    <2> QED BY <1>1, <1>2, <2>1, <2>2, <2>3
  <1>3. CASE migration.direction = "down"
    <2>1. revision \in 1 .. 5 BY <1>1, <1>3
    <2>2. Commits = Downgrades[revision] BY <1>3 DEF Commits
    <2>3. Leads(revision, Downgrades[revision], revision - 1) BY <2>1, RevisionsLead
    <2> QED BY <1>1, <1>3, <2>1, <2>2, <2>3
  <1> QED BY <1>1, <1>2, <1>3

\* None of the tables of a revision is dropped on the way to the next one.
LEMMA UpgradesOnlyAdd ==
  ASSUME NEW v \in 0 .. 4, NEW n \in DOMAIN Upgrades[v + 1]
  PROVE  SchemaAt[v] \subseteq Before(n, v, Upgrades[v + 1])
  <1>1. PICK commits : commits = Upgrades[v + 1] OBVIOUS
  <1>2. n \in 1 .. 3 /\ commits[1].drops = {} /\ commits[2].drops = {}
    <2>1. commits \in {Initial, ServerFoundation, PromptTemplates, RuntimeLogs, ReleaseRecord}
      BY <1>1 DEF Upgrades
    <2>2. n \in 1 .. 3
      <3>1. DOMAIN commits \subseteq 1 .. 3 BY <1>1, RevisionsLead, LeadsFar
      <3> QED BY <1>1, <3>1
    <2>3. commits[1].drops = {} /\ commits[2].drops = {}
      BY <2>1 DEF Initial, ServerFoundation, PromptTemplates, RuntimeLogs, ReleaseRecord, Accounts,
                  Commit, Stamp
    <2> QED BY <2>2, <2>3
  <1> QED BY <1>1, <1>2 DEF Before, Effect

\* A migration that begins has not done anything.
LEMMA TowardsAGoal ==
  ASSUME NEW from \in 0 .. 5, NEW goal \in 0 .. 5,
         revision' = from, migration' = Towards(from, goal)
  PROVE  /\ UnderWay' /\ Reached' = SchemaAt[from] /\ migration'.next = 1
         /\ migration' \in [direction : {"none", "up", "down"}, goal : 0 .. 5, next : 1 .. 3]
  <1>1. CASE from = goal
    BY <1>1 DEF Towards, NoMigration, UnderWay, NotMigrating, Reached
  <1>2. CASE from # goal
    <2>1. PICK direction : direction = IF from < goal THEN "up" ELSE "down" OBVIOUS
    <2>2. migration' = [direction |-> direction, goal |-> goal, next |-> 1]
      BY <1>2, <2>1 DEF Towards
    <2>3. Reached' = SchemaAt[from]
      BY <2>1, <2>2 DEF Reached, NotMigrating, NoMigration, Before
    <2>4. 1 \in DOMAIN Commits'
      <3>1. CASE from < goal
        <4>1. Commits' = Upgrades[from + 1] /\ from + 1 \in 1 .. 5
          BY <2>1, <2>2, <3>1 DEF Commits
        <4>2. 1 \in DOMAIN Upgrades[from + 1] BY <3>1, RevisionsLead, LeadsFar
        <4> QED BY <4>1, <4>2
      <3>2. CASE goal < from
        <4>1. Commits' = Downgrades[from] /\ from \in 1 .. 5
          BY <2>1, <2>2, <3>2 DEF Commits
        <4>2. 1 \in DOMAIN Downgrades[from] BY <4>1, RevisionsLead, LeadsFar
        <4> QED BY <4>1, <4>2
      <3> QED BY <1>2, <3>1, <3>2
    <2>5. UnderWay' BY <1>2, <2>1, <2>2, <2>4 DEF UnderWay
    <2> QED BY <2>1, <2>2, <2>3, <2>5
  <1> QED BY <1>1, <1>2

LEMMA AdoptionIsTrue ==
  ASSUME MigrationInductive, MigrateDb
  PROVE  MigrationInductive'
  <1>1. /\ schema' = schema /\ rows' = rows /\ origin' = origin /\ torn' = torn
        /\ NotMigrating /\ revision \in 0 .. 5
    BY DEF MigrateDb, MigrationStarts, MigrationInductive, MigrationTypeOK, Newest
  <1>2. Reached = SchemaAt[revision] BY <1>1 DEF Reached
  <1>3. CASE Unversioned /\ schema = SchemaAt[5] /\ AdoptAtHead
    <2>1. revision' = 5 /\ migration' = Towards(5, 5) BY <1>3 DEF AdoptAtHead, Newest
    <2>2. Reached' = schema' BY <1>1, <1>3, <2>1, TowardsAGoal
    <2> QED BY <1>1, <2>1, <2>2, TowardsAGoal DEF MigrationInductive, MigrationTypeOK, Newest
  <1>4. CASE Unversioned /\ schema = SchemaAt[1] /\ AdoptLegacy
    <2>1. revision' = 1 /\ migration' = Towards(1, 5) BY <1>4 DEF AdoptLegacy, Newest
    <2>2. Reached' = schema' BY <1>1, <1>4, <2>1, TowardsAGoal
    <2> QED BY <1>1, <2>1, <2>2, TowardsAGoal DEF MigrationInductive, MigrationTypeOK, Newest
  <1>5. CASE revision' = revision /\ migration' = migration
    BY <1>1, <1>5
    DEF MigrationInductive, MigrationTypeOK, UnderWay, Reached, Foreign, Commits, NotMigrating
  <1>6. CASE revision' = revision /\ migration' = Towards(revision, 5)
    <2>1. /\ UnderWay' /\ Reached' = Reached /\ migration'.next = 1
          /\ migration' \in [direction : {"none", "up", "down"}, goal : 0 .. 5, next : 1 .. 3]
      BY <1>1, <1>2, <1>6, TowardsAGoal
    <2> QED BY <1>1, <1>6, <2>1 DEF MigrationInductive, MigrationTypeOK, Foreign, Newest
  <1> QED BY <1>3, <1>4, <1>5, <1>6 DEF MigrateDb, Adopts, Newest

LEMMA CommandIsTrue ==
  ASSUME MigrationInductive, NEW goal \in 0 .. Newest, AlembicCommand(goal)
  PROVE  MigrationInductive'
  <1>1. /\ schema' = schema /\ rows' = rows /\ origin' = origin /\ torn' = torn
        /\ NotMigrating /\ revision \in 0 .. 5 /\ goal \in 0 .. 5
        /\ revision' = revision /\ migration' = Towards(revision, goal)
    BY DEF AlembicCommand, MigrationStarts, MigrationInductive, MigrationTypeOK, Newest
  <1>2. Reached = SchemaAt[revision] BY <1>1 DEF Reached
  <1>3. /\ UnderWay' /\ Reached' = Reached /\ migration'.next = 1
        /\ migration' \in [direction : {"none", "up", "down"}, goal : 0 .. 5, next : 1 .. 3]
    BY <1>1, <1>2, TowardsAGoal
  <1> QED BY <1>1, <1>3 DEF MigrationInductive, MigrationTypeOK, Foreign, Newest

LEMMA CommitIsTrue ==
  ASSUME MigrationInductive, MigrationStep
  PROVE  MigrationInductive'
  <1>1. PICK v, n, commits, commit : /\ v = revision /\ n = migration.next
                                     /\ commits = Commits /\ commit = NextCommit
    OBVIOUS
  <1>2. PICK w : w = IF migration.direction = "up" THEN v + 1 ELSE v - 1 OBVIOUS
  <1>3. /\ ~NotMigrating /\ CanCommit(commit) /\ origin' = origin /\ torn' = torn
        /\ schema' = Effect(schema, commit) /\ rows' = Kept(commit)
        /\ IF commit.last THEN revision' = w /\ migration' = Towards(w, migration.goal)
           ELSE migration' = [migration EXCEPT !.next = @ + 1] /\ revision' = v
    BY <1>1, <1>2 DEF MigrationStep, CommitNext
  <1>4. /\ v \in 0 .. 5 /\ w \in 0 .. 5 /\ n \in DOMAIN commits /\ Leads(v, commits, w)
        /\ commit = commits[n]
    BY <1>1, <1>2, <1>3, CommitsLead DEF MigrationInductive, NextCommit
  <1>5. LeadsBy(n, v, commits, w) /\ n \in 1 .. Len(commits) /\ Len(commits) \in 2 .. 3
    BY <1>4 DEF Leads
  <1>6. Reached = Before(n, v, commits) BY <1>1, <1>3 DEF Reached
  <1>7. PICK direction, goal : direction = migration.direction /\ goal = migration.goal OBVIOUS
  <1>8. goal \in 0 .. 5 /\ direction \in {"up", "down"}
    BY <1>3, <1>7 DEF MigrationInductive, MigrationTypeOK, UnderWay, Newest
  <1>9. /\ UnderWay' /\ Reached' = Effect(Reached, commit)
        /\ migration' \in [direction : {"none", "up", "down"}, goal : 0 .. 5, next : 1 .. 3]
        /\ revision' \in 0 .. 5
    <2>1. CASE commit.last
      <3>1. n = Len(commits) /\ Effect(Before(n, v, commits), commit) = SchemaAt[w]
        BY <1>4, <1>5, <2>1 DEF LeadsBy
      <3>2. revision' = w /\ migration' = Towards(w, goal) BY <1>3, <1>7, <2>1
      <3> QED BY <1>4, <1>6, <1>8, <3>1, <3>2, TowardsAGoal
    <2>2. CASE ~commit.last
      <3>1. n # Len(commits)
            /\ Effect(Before(n, v, commits), commit) = Before(n + 1, v, commits)
        BY <1>4, <1>5, <2>2 DEF LeadsBy
      <3>2. revision' = v /\ migration' = [migration EXCEPT !.next = n + 1]
        BY <1>1, <1>3, <2>2
      <3>3. migration \in [direction : {"none", "up", "down"}, goal : 0 .. 5, next : 1 .. 3]
        BY DEF MigrationInductive, MigrationTypeOK, Newest
      <3>4. n + 1 \in DOMAIN commits /\ n + 1 \in 1 .. 3
        <4>1. n + 1 \in 1 .. Len(commits) BY <1>5, <3>1
        <4>2. DOMAIN commits = 1 .. Len(commits) BY <1>4 DEF Leads
        <4> QED BY <1>5, <4>1, <4>2
      <3>5. /\ migration'.direction = direction /\ migration'.goal = goal
            /\ migration'.next = n + 1
            /\ migration' \in [direction : {"none", "up", "down"}, goal : 0 .. 5, next : 1 .. 3]
        BY <1>7, <3>2, <3>3, <3>4
      <3>6. Commits' = commits BY <1>1, <1>7, <3>2, <3>5 DEF Commits
      <3>7. ~NotMigrating' BY <1>8, <3>5 DEF NotMigrating, NoMigration
      <3>8. Reached' = Before(n + 1, v, commits)
        BY <3>2, <3>5, <3>6, <3>7 DEF Reached
      <3>9. UnderWay'
        <4>1. IF direction = "up" THEN v < goal ELSE goal < v
          BY <1>1, <1>7, <1>8 DEF MigrationInductive, UnderWay
        <4> QED BY <1>8, <3>2, <3>4, <3>5, <3>6, <4>1 DEF UnderWay
      <3> QED BY <1>4, <1>6, <3>1, <3>2, <3>5, <3>8, <3>9
    <2> QED BY <2>1, <2>2
  <1>10. schema' \subseteq Parts
    BY <1>3, <1>4, <1>5 DEF LeadsBy, Effect, MigrationInductive, MigrationTypeOK
  <1>11. rows' \subseteq UNION {RowsOf[p] : p \in schema'}
    <2>1. ASSUME NEW kind \in rows' PROVE \E p \in schema' : kind \in RowsOf[p]
      <3>1. kind \in rows /\ kind \notin UNION {RowsOf[p] : p \in commit.drops}
        BY <1>3, <2>1 DEF Kept
      <3>2. PICK p \in schema : kind \in RowsOf[p]
        BY <3>1 DEF MigrationInductive, MigrationTypeOK
      <3>3. p \notin commit.drops BY <3>1, <3>2
      <3> QED BY <1>3, <3>2, <3>3 DEF Effect
    <2> QED BY <2>1
  <1>12. "down" \notin torn' => Reached' \subseteq schema'
    BY <1>3, <1>9 DEF MigrationInductive, Effect
  <1>13. torn' = {} => schema' = Reached'
    <2>1. ASSUME Foreign PROVE FALSE
      <3>1. v = 0 /\ n = 1 /\ "books" \in schema BY <1>1, <2>1 DEF Foreign
      <3>2. direction = "up"
        BY <1>1, <1>2, <1>4, <1>7, <3>1, CommitsLead, <1>3 DEF MigrationInductive
      <3>3. commit = Initial[1] BY <1>1, <1>4, <1>7, <3>1, <3>2 DEF Commits, Upgrades
      <3>4. "books" \in commit.adds BY <3>3 DEF Initial, Commit
      <3> QED BY <1>3, <3>1, <3>4 DEF CanCommit
    <2> QED BY <1>3, <1>9, <2>1 DEF MigrationInductive
  <1>14. origin' \subseteq Parts /\ torn' \subseteq {"up", "down"}
    BY <1>3 DEF MigrationInductive, MigrationTypeOK
  <1> QED BY <1>9, <1>10, <1>11, <1>12, <1>13, <1>14
    DEF MigrationInductive, MigrationTypeOK, Newest

\* A migration that stops halfway leaves the older revision, and what it has reached
\* holds the schema of it unless it was a downgrade.
LEMMA StopIsTrue ==
  ASSUME MigrationInductive, ~NotMigrating, StopsHalfway,
         UNCHANGED <<revision, schema, rows, origin>>
  PROVE  MigrationInductive'
  <1>1. /\ torn' = torn \cup {migration.direction} /\ migration' = NoMigration
        /\ migration.direction \in {"up", "down"}
    BY DEF StopsHalfway, MigrationInductive, MigrationTypeOK, UnderWay
  <1>2. NotMigrating' /\ UnderWay' /\ Reached' = SchemaAt[revision]
    BY <1>1 DEF NotMigrating, NoMigration, UnderWay, Reached
  <1>3. MigrationTypeOK'
    <2>1. migration' \in [direction : {"none", "up", "down"}, goal : 0 .. 5, next : 1 .. 3]
      BY <1>1 DEF NoMigration
    <2>2. torn' \subseteq {"up", "down"} BY <1>1 DEF MigrationInductive, MigrationTypeOK
    <2> QED BY <2>1, <2>2 DEF MigrationInductive, MigrationTypeOK, Newest
  <1>4. ASSUME "down" \notin torn' PROVE SchemaAt[revision] \subseteq schema
    <2>1. migration.direction = "up" /\ "down" \notin torn BY <1>1, <1>4
    <2>2. Reached \subseteq schema BY <2>1 DEF MigrationInductive
    <2>3. /\ revision \in 0 .. 4 /\ Leads(revision, Commits, revision + 1)
          /\ migration.next \in DOMAIN Commits /\ Commits = Upgrades[revision + 1]
      BY <2>1, CommitsLead DEF MigrationInductive, Commits
    <2>4. Reached = Before(migration.next, revision, Commits) BY DEF Reached
    <2>5. SchemaAt[revision] \subseteq Before(migration.next, revision, Commits)
      BY <2>3, UpgradesOnlyAdd
    <2> QED BY <2>2, <2>4, <2>5
  <1>5. torn' # {} BY <1>1
  <1> QED BY <1>2, <1>3, <1>4, <1>5 DEF MigrationInductive

LEMMA MigrationInductiveStep ==
  ASSUME MigrationInductive, [MigrationNext]_migrationVars
  PROVE  MigrationInductive'
  <1>1. ASSUME NEW kind \in AllRows, Used(kind) PROVE MigrationInductive'
    BY <1>1
    DEF Used, MigrationInductive, MigrationTypeOK, UnderWay, Reached, Foreign, Commits, NotMigrating
  <1>2. CASE UNCHANGED migrationVars
    BY <1>2
    DEF migrationVars, MigrationInductive, MigrationTypeOK, UnderWay, Reached, Foreign, Commits,
        NotMigrating
  <1>3. ASSUME MigrationFails \/ MigrationKilled PROVE MigrationInductive'
    BY <1>3, StopIsTrue DEF MigrationFails, MigrationKilled
  <1> QED BY <1>1, <1>2, <1>3, AdoptionIsTrue, CommandIsTrue, CommitIsTrue DEF MigrationNext

LEMMA MigrationInductiveInit == MigrationInit => MigrationInductive
  <1> SUFFICES ASSUME MigrationInit PROVE MigrationInductive OBVIOUS
  <1>1. NotMigrating /\ UnderWay /\ Reached = {} /\ migration.next = 1
    BY Schemas DEF MigrationInit, NotMigrating, NoMigration, UnderWay, Reached
  <1>2. schema = {} \/ (schema = origin /\ "books" \in schema)
    BY Schemas DEF MigrationInit, Newest
  <1>3. MigrationTypeOK
    <2>1. schema \subseteq Parts BY Schemas DEF MigrationInit, Newest, Parts
    <2> QED BY <2>1 DEF MigrationInit, MigrationTypeOK, NoMigration, Newest
  <1> QED BY <1>1, <1>2, <1>3 DEF MigrationInductive, MigrationInit, Foreign

\* Whatever is adopted, upgraded, downgraded and killed, in any order: what is
\* durable of an interrupted migration is told apart by direction (db.py 203-259).
THEOREM MigrationInvariant == MigrationSpec => []MigrationInductive
  <1> QED BY MigrationInductiveInit, MigrationInductiveStep, PTL DEF MigrationSpec

\* A database that says it is at a revision has the tables of that revision, unless
\* a downgrade stopped halfway. A migration never meets tables that exist, or misses
\* some, in a database whose revision is recorded or that began empty, as long as no
\* migration has been cut short: after a kill between two commits the code does
\* replay one, and of that nothing is said here (db.py 13-16).
THEOREM RevisionsAreTrue == MigrationSpec => []RevisionIsTrue
  <1>1. MigrationInductive => RevisionIsTrue
    <2> SUFFICES ASSUME MigrationInductive PROVE RevisionIsTrue OBVIOUS
    <2>1. CASE NotMigrating
      BY <2>1 DEF MigrationInductive, RevisionIsTrue, Reached
    <2>2. ASSUME ~NotMigrating, torn = {}, revision > 0 \/ origin = {}
          PROVE  CanCommit(NextCommit)
      <3>1. ~Foreign BY <2>2 DEF Foreign
      <3>2. schema = Before(migration.next, revision, Commits)
        BY <2>2, <3>1 DEF MigrationInductive, Reached
      <3>3. PICK w : Leads(revision, Commits, w) /\ migration.next \in DOMAIN Commits
        BY <2>2, CommitsLead DEF MigrationInductive
      <3>4. LeadsBy(migration.next, revision, Commits, w) BY <3>3 DEF Leads
      <3> QED BY <3>2, <3>4 DEF LeadsBy, CanCommit, NextCommit
    <2> QED BY <2>1, <2>2 DEF RevisionIsTrue
  <1> QED BY <1>1, MigrationInvariant, PTL
=============================================================================
