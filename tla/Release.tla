------------------------------ MODULE Release ------------------------------
(***************************************************************************)
(* The release tool (deploy/release.py): it installs a version of the      *)
(* server beside the compose file, or rolls back to an earlier one, and    *)
(* repairs what it has done when a step fails.                             *)
(*                                                                         *)
(* What it works on: the tag in the environment file, the schema revision  *)
(* of the database in the state volume, the app container, the manifest    *)
(* and the lock file.  A command is a process that goes through its steps  *)
(* one by one; every step may fail, half done where the step allows it,    *)
(* and the process may be killed between any two of them.  A container     *)
(* that starts upgrades the schema itself (deploy/entrypoint.sh).          *)
(*                                                                         *)
(* A version stands for its archive, its image and its image tag.          *)
(***************************************************************************)
EXTENDS Naturals, FiniteSets, SequencesExt

CONSTANTS
    Versions,     \* the versions there are archives of
    Rev,          \* the schema revision at the head of each version's image
    NoVersion,    \* a manifest or a container without one
    MaxCommands,  \* bound: commands started
    MaxFailures,  \* bound: steps that fail
    MaxKills      \* bound: commands killed or interrupted

ASSUME VersionsAssumption == NoVersion \notin Versions
\* Alembic's history is a line (PY_SCHEMA_HEAD asserts one head): revisions are
\* numbered along it, and an image knows those up to its own head.
ASSUME RevAssumption == Rev \in [Versions -> Nat]
ASSUME BoundsAssumption == MaxCommands \in Nat /\ MaxFailures \in Nat /\ MaxKills \in Nat

VARIABLES
    manifest,  \* .releases/manifest.json: current version, releases by installed_at
    envTag,    \* TRANS_IMAGE_TAG of the environment file
    db,        \* the revision in the database's alembic_version
    app,       \* the app container: its image, and what it is doing
    lock,      \* .releases/lock exists
    cmd,       \* the command that runs
    count,     \* how many commands, failed steps and kills there have been
    calm       \* (history) nothing has happened that the tool does not repair

releaseVars == <<manifest, envTag, db, app, lock, cmd, count, calm>>

-----------------------------------------------------------------------------
Idle == [op |-> "none", target |-> NoVersion, migrate |-> TRUE, at |-> "idle",
         backup |-> FALSE, changed |-> FALSE, failed |-> "nothing", failures |-> 0]

\* The steps of a command, in order, and those of the repair after a failure.
Steps == {"prepare", "stop", "backup", "schema", "switch", "up", "health", "record"}
Repair == {"undo_stop", "undo_schema", "undo_switch", "undo_up", "undo_health"}
At == {"idle", "journal", "plain_up"} \cup Steps \cup Repair

Down == [app EXCEPT !.state = "down"]
Known(image, revision) == revision <= Rev[image]

Between(a, b) == (a .. b) \cup (b .. a)

GoTo(step) == cmd' = [cmd EXCEPT !.at = step]

\* The process ends and _release_lock() removes the lock file.
Ends ==
    /\ cmd' = Idle
    /\ lock' = FALSE

-----------------------------------------------------------------------------
(* The commands *)

\* init: adopt what runs. An image without a version.json has no version.
AdoptRunning(identified) ==
    /\ ~manifest.made
    /\ manifest' = [made |-> TRUE,
                    current |-> IF identified THEN app.image ELSE NoVersion,
                    installed |-> IF identified THEN <<app.image>> ELSE << >>]
    /\ UNCHANGED <<envTag, db, app, lock, cmd, count, calm>>

\* The lock, the manifest and the checks before the first effect.
Starts(op, target, migrate) ==
    /\ cmd.at = "idle" /\ ~lock
    /\ count.commands < MaxCommands
    /\ manifest.made
    /\ target # manifest.current
    /\ lock' = TRUE
    /\ cmd' = [Idle EXCEPT !.op = op, !.target = target, !.migrate = migrate,
                           !.at = IF op = "install" THEN "prepare" ELSE "stop"]
    /\ count' = [count EXCEPT !.commands = @ + 1]
    /\ UNCHANGED <<manifest, envTag, db, app, calm>>

Install(v, migrate) == Starts("install", v, migrate)

\* Releases in the order of their installed_at, but for one.
Without(releases, v) ==
    IF v \in ToSet(releases)
    THEN RemoveAt(releases, CHOOSE i \in DOMAIN releases : releases[i] = v) ELSE releases

\* _previous_installed(): of the other releases, the one installed last.
Others == Without(manifest.installed, manifest.current)
PreviousInstalled == IF Others = << >> THEN NoVersion ELSE Last(Others)

Rollback(v, migrate) ==
    /\ manifest.current # NoVersion
    /\ v \in ToSet(manifest.installed)
    /\ Starts("rollback", v, migrate)

RollbackToPrevious(migrate) ==
    /\ PreviousInstalled # NoVersion
    /\ Rollback(PreviousInstalled, migrate)

-----------------------------------------------------------------------------
(* Steps that succeed *)

\* The archive is extracted and the image built; nothing in service changes.
Prepare ==
    /\ cmd.at = "prepare"
    /\ GoTo("stop")
    /\ UNCHANGED <<manifest, envTag, db, app, lock, count, calm>>

\* A container stopped while its entrypoint migrates leaves any revision on the way.
Interrupted == IF app.state = "starting" /\ Known(app.image, db)
               THEN db .. Rev[app.image] ELSE {db}

StopsApp(from, to) ==
    /\ cmd.at = from
    /\ app' = Down
    /\ db' \in Interrupted
    /\ GoTo(to)
    /\ UNCHANGED <<manifest, envTag, lock, count, calm>>

\* A fault: the first install has nothing to save.
StopUnlessFirst == StopsApp("stop", IF manifest.current = NoVersion THEN "schema" ELSE "backup")

Stop == StopsApp("stop", "backup")

\* A fault: the repair changes the schema under the container that failed.
UndoWithoutStop ==
    /\ cmd.at = "undo_stop"
    /\ GoTo("undo_schema")
    /\ UNCHANGED <<manifest, envTag, db, app, lock, count, calm>>

UndoStop == StopsApp("undo_stop", "undo_schema")

\* _backup() checks that the archive is there and not empty.
Backup ==
    /\ cmd.at = "backup"
    /\ cmd' = [cmd EXCEPT !.at = "schema", !.backup = TRUE,
                          !.changed = (cmd.op = "install")]
    /\ UNCHANGED <<manifest, envTag, db, app, lock, count, calm>>

\* What a command asks alembic for: with the image of which version, to which
\* revision, and whether it needs to ask at all.
Forward ==
    IF cmd.op = "install"
    THEN [image |-> cmd.target, goal |-> Rev[cmd.target], needed |-> cmd.migrate, down |-> FALSE]
    ELSE [image |-> manifest.current, goal |-> Rev[cmd.target],
          needed |-> cmd.migrate /\ db # Rev[cmd.target], down |-> TRUE]

\* A fault: the repair migrates with the image it goes back to.
BackwardWithOld ==
    [image |-> manifest.current, goal |-> Rev[manifest.current], down |-> cmd.op = "install",
     needed |-> cmd.changed /\ cmd.migrate /\ db # Rev[manifest.current]]

Backward ==
    IF cmd.op = "install"
    THEN [image |-> cmd.target, goal |-> Rev[manifest.current], down |-> TRUE,
          needed |-> cmd.changed /\ cmd.migrate /\ db # Rev[manifest.current]]
    ELSE [image |-> manifest.current, goal |-> Rev[manifest.current], down |-> FALSE,
          needed |-> cmd.changed]

\* Alembic refuses a revision the image does not know and a step in the other direction.
Possible(m) ==
    /\ Known(m.image, db)
    /\ Known(m.image, m.goal)
    /\ IF m.down THEN m.goal <= db ELSE db <= m.goal

\* schema_changed of cmd_rollback() is set before the downgrade is tried.
Tries(m) == [cmd EXCEPT !.changed = @ \/ (cmd.op = "rollback" /\ m.needed)]

Schema ==
    /\ cmd.at = "schema"
    /\ Forward.needed => Possible(Forward)
    /\ db' = IF Forward.needed THEN Forward.goal ELSE db
    /\ cmd' = [Tries(Forward) EXCEPT !.at = "switch"]
    /\ UNCHANGED <<manifest, envTag, app, lock, count, calm>>

SchemaRefused ==
    /\ cmd.at = "schema"
    /\ Forward.needed /\ ~Possible(Forward)
    /\ cmd' = [Tries(Forward) EXCEPT !.at = "journal", !.failed = "schema"]
    /\ UNCHANGED <<manifest, envTag, db, app, lock, count, calm>>

UndoSchema ==
    /\ cmd.at = "undo_schema"
    /\ Backward.needed => Possible(Backward)
    /\ db' = IF Backward.needed THEN Backward.goal ELSE db
    /\ GoTo("undo_switch")
    /\ UNCHANGED <<manifest, envTag, app, lock, count, calm>>

UndoSchemaRefused ==
    /\ cmd.at = "undo_schema"
    /\ Backward.needed /\ ~Possible(Backward)
    /\ Ends
    /\ UNCHANGED <<manifest, envTag, db, app, count, calm>>

SwitchesTag(from, to, v) ==
    /\ cmd.at = from
    /\ envTag' = v
    /\ GoTo(to)
    /\ UNCHANGED <<manifest, db, app, lock, count, calm>>

Switch == SwitchesTag("switch", "up", cmd.target)
UndoSwitch == SwitchesTag("undo_switch", "undo_up", manifest.current)

\* compose up -d: recreates the container unless it runs under this tag already.
Started == IF app.state # "down" /\ app.image = envTag
           THEN app ELSE [image |-> envTag, state |-> "starting"]

Up ==
    /\ cmd.at \in {"up", "undo_up"}
    /\ app' = Started
    /\ GoTo(IF cmd.at = "up" THEN "health" ELSE "undo_health")
    /\ UNCHANGED <<manifest, envTag, db, lock, count, calm>>

\* An installation that had no version before is only started again.
PlainUp ==
    /\ cmd.at = "plain_up"
    /\ app' = Started
    /\ Ends
    /\ UNCHANGED <<manifest, envTag, db, count, calm>>

\* _health_check() polls until the container is healthy or unhealthy.
Healthy ==
    /\ cmd.at = "health" /\ app.state = "serving"
    /\ GoTo("record")
    /\ UNCHANGED <<manifest, envTag, db, app, lock, count, calm>>

Unhealthy ==
    /\ cmd.at = "health" /\ app.state = "broken"
    /\ cmd' = [cmd EXCEPT !.at = "journal", !.failed = "health"]
    /\ UNCHANGED <<manifest, envTag, db, app, lock, count, calm>>

UndoHealth ==
    /\ cmd.at = "undo_health" /\ app.state \in {"serving", "broken"}
    /\ Ends
    /\ UNCHANGED <<manifest, envTag, db, app, count, calm>>

\* The manifest is written once the container is healthy.
Installed == Append(Without(manifest.installed, cmd.target), cmd.target)

Record ==
    /\ cmd.at = "record"
    /\ manifest' = [manifest EXCEPT !.current = cmd.target,
                                    !.installed = IF cmd.op = "install" THEN Installed ELSE @]
    /\ Ends
    /\ UNCHANGED <<envTag, db, app, count, calm>>

\* The failure goes into the manifest's journal, then the repair begins. An
\* install that could not stop the app has nothing to repair.
AfterFailure ==
    IF cmd.op = "rollback" THEN "undo_stop"
    ELSE IF cmd.failed = "stop" THEN "idle"
    ELSE IF manifest.current = NoVersion THEN "plain_up" ELSE "undo_stop"

Journal ==
    /\ cmd.at = "journal"
    /\ IF AfterFailure = "idle" THEN Ends ELSE GoTo(AfterFailure) /\ UNCHANGED lock
    /\ UNCHANGED <<manifest, envTag, db, app, count, calm>>

-----------------------------------------------------------------------------
(* Failures *)

\* What a failing step may leave behind.
HalfDone ==
    CASE cmd.at \in {"stop", "undo_stop"} ->
            /\ \/ UNCHANGED <<app, db>>
               \/ app' = Down /\ db' \in Interrupted
            /\ UNCHANGED envTag
      [] cmd.at = "schema" ->
            /\ Forward.needed /\ Possible(Forward)
            /\ db' \in Between(db, Forward.goal)
            /\ UNCHANGED <<app, envTag>>
      [] cmd.at = "undo_schema" ->
            /\ Backward.needed /\ Possible(Backward)
            /\ db' \in Between(db, Backward.goal)
            /\ UNCHANGED <<app, envTag>>
      [] cmd.at \in {"up", "undo_up", "plain_up"} ->
            /\ app' \in {app, Started}
            /\ UNCHANGED <<db, envTag>>
      [] OTHER -> UNCHANGED <<db, app, envTag>>

\* Errors from "stop" to "health" are caught and journalled; those of the
\* preparation, the repair and the manifest itself end the command.
Caught == cmd.at \in Steps \ {"prepare", "record"}

\* A failed step is repaired, except when it is one of the repair itself, the
\* manifest cannot be written, an install cannot tell whether it stopped the app,
\* or the command was told to leave the schema alone.
Repaired ==
    /\ cmd.at \notin Repair \cup {"plain_up", "record", "journal"}
    /\ ~(cmd.op = "install" /\ cmd.at = "stop")
    /\ cmd.at # "prepare" => cmd.migrate

StepFails ==
    /\ cmd.at # "idle"
    /\ count.failures < MaxFailures
    /\ count' = [count EXCEPT !.failures = @ + 1]
    /\ calm' = (calm /\ Repaired)
    /\ HalfDone
    /\ IF Caught
       THEN /\ cmd' = [IF cmd.at = "schema" THEN Tries(Forward) ELSE cmd
                       EXCEPT !.at = "journal", !.failed = cmd.at, !.failures = @ + 1]
            /\ UNCHANGED lock
       ELSE Ends
    /\ UNCHANGED manifest

\* SIGKILL leaves the lock file; Ctrl-C removes it, and is not an Exception the
\* repair would catch.
Killed ==
    /\ cmd.at # "idle"
    /\ count.kills < MaxKills
    /\ count' = [count EXCEPT !.kills = @ + 1]
    /\ cmd' = Idle
    /\ lock' \in BOOLEAN
    /\ calm' = FALSE
    /\ UNCHANGED <<manifest, envTag, db, app>>

\* The operator removes a lock file left behind.
Unlock ==
    /\ lock /\ cmd.at = "idle"
    /\ lock' = FALSE
    /\ UNCHANGED <<manifest, envTag, db, app, cmd, count, calm>>

-----------------------------------------------------------------------------
(* The container: its entrypoint upgrades the schema, then starts the server *)

EntrypointUpgrade(image) == IF Known(image, db) THEN Rev[image] ELSE db

EntrypointRuns ==
    /\ app.state = "starting"
    /\ db' = EntrypointUpgrade(app.image)
    /\ app' = [app EXCEPT !.state = IF Known(app.image, db) THEN "serving" ELSE "broken"]
    /\ UNCHANGED <<manifest, envTag, lock, cmd, count, calm>>

\* The new image does not come up, before or after it has migrated.
EntrypointFails ==
    /\ app.state = "starting"
    /\ count.failures < MaxFailures
    /\ count' = [count EXCEPT !.failures = @ + 1]
    /\ db' \in Interrupted
    /\ app' = [app EXCEPT !.state = "broken"]
    /\ calm' = (calm /\ cmd.at # "idle" /\ Repaired)
    /\ cmd' = IF cmd.at = "idle" THEN cmd ELSE [cmd EXCEPT !.failures = @ + 1]
    /\ UNCHANGED <<manifest, envTag, lock>>

-----------------------------------------------------------------------------
ReleaseInit ==
    /\ \E v \in Versions :
          /\ app = [image |-> v, state |-> "serving"]
          /\ envTag = v
          /\ db = Rev[v]
    /\ manifest = [made |-> FALSE, current |-> NoVersion, installed |-> << >>]
    /\ lock = FALSE
    /\ cmd = Idle
    /\ count = [commands |-> 0, failures |-> 0, kills |-> 0]
    /\ calm = TRUE

Command ==
    \/ \E identified \in BOOLEAN : AdoptRunning(identified)
    \/ \E v \in Versions, migrate \in BOOLEAN : Install(v, migrate) \/ Rollback(v, migrate)
    \/ \E migrate \in BOOLEAN : RollbackToPrevious(migrate)

Step ==
    \/ Prepare \/ Stop \/ Backup \/ Schema \/ SchemaRefused \/ Switch \/ Up \/ Healthy
    \/ Unhealthy \/ Record \/ Journal

RepairStep ==
    \/ UndoStop \/ UndoSchema \/ UndoSchemaRefused \/ UndoSwitch \/ UndoHealth \/ PlainUp

ReleaseNext ==
    \/ Command \/ Step \/ RepairStep
    \/ StepFails \/ Killed \/ Unlock
    \/ EntrypointRuns \/ EntrypointFails

ReleaseSpec == ReleaseInit /\ [][ReleaseNext]_releaseVars

-----------------------------------------------------------------------------
(* Properties *)

ReleaseTypeOK ==
    /\ manifest \in [made : BOOLEAN, current : Versions \cup {NoVersion}, installed : Seq(Versions)]
    /\ IsInjective(manifest.installed)
    /\ envTag \in Versions
    /\ db \in Nat
    /\ app \in [image : Versions, state : {"down", "starting", "serving", "broken"}]
    /\ lock \in BOOLEAN
    /\ cmd \in [op : {"none", "install", "rollback"}, target : Versions \cup {NoVersion},
                migrate : BOOLEAN, at : At, backup : BOOLEAN, changed : BOOLEAN,
                failed : At \cup {"nothing"}, failures : Nat]
    /\ count \in [commands : Nat, failures : Nat, kills : Nat]
    /\ calm \in BOOLEAN

\* A server that answers requests runs on exactly the schema its code was
\* written for, whatever failed or was killed on the way (the steps of
\* cmd_install and cmd_rollback against deploy/entrypoint.sh).
SchemaFitsServing ==
    app.state = "serving" => db = Rev[app.image]

\* The state volume is copied and migrated only while the app is stopped, and
\* it is migrated, forward or in repair, only after this command has saved it
\* ("any schema change needs a backup first", release.py 12-16; _backup() 335-364,
\* _stop() 403-406).
SchemaChangesAreSafe ==
    /\ cmd.at \in {"backup", "schema", "undo_schema"} => app.state = "down"
    /\ cmd.at = "schema" => cmd.backup
    /\ cmd.at = "undo_schema" /\ Backward.needed => cmd.backup

\* A step that fails once does no lasting harm: when the command has ended, the
\* app comes up under the tag and the version the manifest names, on a schema
\* its image knows (the automatic rollback of cmd_install and cmd_rollback). An
\* installation without a version is only started again, and is not promised this.
FailureIsRepaired ==
    cmd.at = "idle" /\ calm /\ manifest.current # NoVersion =>
        /\ app.state \in {"serving", "starting"}
        /\ app.image = envTag
        /\ Known(app.image, db)
        /\ manifest.current = envTag

-----------------------------------------------------------------------------
(* What the safety properties rest on *)

\* Until it is adopted the app serves undisturbed. A command has a target that is
\* not the current version; only a version that is known to have been current is
\* gone back to.
CommandShape ==
    /\ ~manifest.made =>
          /\ cmd.at = "idle" /\ manifest.current = NoVersion
          /\ app.state = "serving" /\ app.image = envTag
    /\ cmd.at # "idle" => cmd.op # "none" /\ cmd.target \in Versions \ {manifest.current}
    /\ cmd.op = "rollback" \/ cmd.at \in Repair => manifest.current # NoVersion
    /\ cmd.at = "plain_up" => manifest.current = NoVersion

DownWhileChanging ==
    cmd.at \in {"backup", "schema", "switch", "up", "undo_schema", "undo_switch", "undo_up"} =>
        app.state = "down"

SavedBeforeChange == cmd.at = "schema" \/ cmd.changed => cmd.backup

\* From "switch" on it is the target that is started, and recorded.
TargetInService ==
    /\ cmd.at \in {"up", "health", "record"} => envTag = cmd.target
    /\ cmd.at \in {"health", "record"} => app.image = cmd.target
    /\ cmd.at = "record" => app.state = "serving"

CurrentInService ==
    app.state = "serving" /\ app.image = envTag /\ envTag = manifest.current

\* The schema is the target's, and the way back is open; a command that was told
\* to leave the schema alone leaves that to the container.
TargetSchema ==
    LET from == Rev[manifest.current]
        to == Rev[cmd.target]
    IN IF cmd.migrate
       THEN /\ db = to
            /\ IF cmd.op = "install" THEN cmd.changed /\ from <= to ELSE to <= from
       ELSE app.state # "serving" => db = from

\* The repair can undo what has become of the schema.
SchemaCanBeUndone ==
    LET from == Rev[manifest.current]
    IN /\ IF cmd.op = "install"
          THEN \/ db = from
               \/ cmd.changed /\ cmd.migrate /\ from <= db /\ db <= Rev[cmd.target]
          ELSE db <= from
       /\ app.state = "starting" => db = Rev[app.image]

\* What a command that is still to be repaired finds, step by step.
RepairIsPossible ==
    calm /\ manifest.current # NoVersion =>
        /\ cmd.at \in {"idle", "prepare", "stop"} => CurrentInService
        /\ cmd.at \in {"backup", "schema"} => db = Rev[manifest.current]
        /\ cmd.at = "schema" /\ cmd.op = "install" => cmd.changed
        /\ cmd.at \in {"switch", "up", "health"} => TargetSchema
        /\ cmd.at = "journal" /\ cmd.op = "install" => cmd.failed # "stop"
        /\ cmd.at \in {"journal", "undo_stop", "undo_schema"} => SchemaCanBeUndone
        /\ cmd.at \in {"undo_switch", "undo_up", "undo_health"} => db <= Rev[manifest.current]
        /\ cmd.at \in {"undo_up", "undo_health"} => envTag = manifest.current
        /\ cmd.at = "undo_health" =>
              app.image = manifest.current /\ app.state \in {"starting", "serving"}

ReleaseInductive ==
    /\ ReleaseTypeOK
    /\ CommandShape
    /\ DownWhileChanging
    /\ SavedBeforeChange
    /\ TargetInService
    /\ SchemaFitsServing
    /\ RepairIsPossible
=============================================================================
