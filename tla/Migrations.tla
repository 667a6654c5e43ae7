----------------------------- MODULE Migrations -----------------------------
(***************************************************************************)
(* The schema of the SQLite database: the five Alembic revisions, upgraded *)
(* and downgraded one by one, and the adoption of a database that carries  *)
(* no revision yet (backend/app/db.py, backend/alembic).                   *)
(*                                                                         *)
(* SQLite DDL is not transactional here: a CREATE or DROP outside a        *)
(* transaction is committed by itself.  A transaction begins with the      *)
(* first INSERT, UPDATE or DELETE of a revision, and ends with the         *)
(* statement that writes the new revision.  A step below is what one       *)
(* commit makes durable; the process may be killed between two of them.    *)
(*                                                                         *)
(* A foreign key cannot be added to an SQLite table: Alembic copies        *)
(* "project" to a new table, drops it, and renames the copy.  With         *)
(* PRAGMA foreign_keys=ON dropping a table deletes its rows first, and the *)
(* ON DELETE actions of the tables that refer to it fire.                  *)
(*                                                                         *)
(* Indexes and constraints are left out; a part of the schema stands for   *)
(* the tables or columns a revision adds together.                         *)
(***************************************************************************)
EXTENDS Integers, Sequences

CONSTANTS
    MaxMigrations, \* bound: migrations started
    MaxMigrationKills       \* bound: processes killed while they migrate

VARIABLES
    revision,  \* alembic_version; 0: no row
    schema,    \* the parts that exist
    rows,      \* what the tables hold
    migration, \* the alembic command that runs
    started, kills,
    origin,    \* (history) the schema the database had when this code first saw it
    torn       \* (history) the direction of the migrations that stopped halfway

migrationVars == <<revision, schema, rows, migration, started, kills, origin, torn>>

Newest == 5
Parts == {"books", "memory", "accounts", "links", "ledgers", "templates", "templateLink",
          "logs", "releases", "copy"}

\* The rows of each part. "contents": chapters, segments, glossary terms.
RowsOf ==
    [p \in Parts |->
        CASE p = "books" -> {"projects", "contents"}
          [] p = "memory" -> {"memory"}
          [] p = "accounts" -> {"artifacts", "credentials"}
          [] p = "ledgers" -> {"jobs"}
          [] p = "templates" -> {"templates"}
          [] p = "logs" -> {"logs"}
          [] OTHER -> {}]

AllRows == UNION {RowsOf[p] : p \in Parts}

-----------------------------------------------------------------------------
(* The revisions *)

Commit(adds, drops) == [adds |-> adds, drops |-> drops, copies |-> FALSE, last |-> FALSE]
Stamp == [Commit({}, {}) EXCEPT !.last = TRUE]
\* The copy of "project" takes its place.
Recreate(adds, drops) ==
    [adds |-> adds, drops |-> drops \cup {"copy"}, copies |-> TRUE, last |-> TRUE]

Initial == <<Commit({"books"}, {}), Commit({"memory"}, {}), Stamp>>

\* Administrators, credentials, profiles and artifacts; jobs, usage, audit and the lease.
Accounts == Commit({"accounts"}, {})
Ledgers == Recreate({"links", "ledgers"}, {})

ServerFoundation == <<Accounts, Commit({"copy"}, {}), Ledgers>>

PromptTemplates ==
    <<Commit({"templates"}, {}), Commit({"copy"}, {}), Recreate({"templateLink"}, {})>>

RuntimeLogs == <<Commit({"logs"}, {}), Stamp>>
ReleaseRecord == <<Commit({"releases"}, {}), Stamp>>

UndoInitial == <<Commit({}, {"memory"}), Commit({}, {"books"}), Stamp>>

UndoServerFoundation ==
    <<Commit({}, {"ledgers"}), Commit({"copy"}, {}), Recreate({}, {"links", "accounts"})>>

UndoPromptTemplates ==
    <<Commit({"copy"}, {}), Recreate({}, {"templateLink", "templates"})>>

UndoRuntimeLogs == <<Commit({}, {"logs"}), Stamp>>
UndoReleaseRecord == <<Commit({}, {"releases"}), Stamp>>

Upgrades == <<Initial, ServerFoundation, PromptTemplates, RuntimeLogs, ReleaseRecord>>
Downgrades ==
    <<UndoInitial, UndoServerFoundation, UndoPromptTemplates, UndoRuntimeLogs, UndoReleaseRecord>>

Effect(parts, commit) == (parts \cup commit.adds) \ commit.drops

Adds(v) == UNION {Upgrades[v][i].adds : i \in DOMAIN Upgrades[v]}
SchemaAt == [v \in 0 .. Newest |-> (UNION {Adds(u) : u \in 1 .. v}) \ {"copy"}]

-----------------------------------------------------------------------------
NoMigration == [direction |-> "none", goal |-> 0, next |-> 1]
NotMigrating == migration = NoMigration

Commits == IF migration.direction = "up" THEN Upgrades[revision + 1] ELSE Downgrades[revision]
NextCommit == Commits[migration.next]

Towards(from, goal) ==
    IF from = goal THEN NoMigration
    ELSE [direction |-> IF from < goal THEN "up" ELSE "down", goal |-> goal, next |-> 1]

MigrationStarts ==
    /\ NotMigrating /\ started < MaxMigrations
    /\ started' = started + 1

\* stamp(SCHEMA_HEAD_REVISION), then upgrade to it: nothing is left to do.
AdoptAtHead ==
    /\ revision' = Newest
    /\ migration' = Towards(Newest, Newest)

AdoptLegacy ==
    /\ revision' = 1
    /\ migration' = Towards(1, Newest)

Unversioned == revision = 0 /\ schema # {}

\* A fault: any unversioned database is taken for a legacy one.
StampsBlindly == IF schema = SchemaAt[Newest] THEN AdoptAtHead ELSE AdoptLegacy

\* Only an exact, complete schema is adopted; any other raises RuntimeError.
Adopts ==
    \/ schema = SchemaAt[Newest] /\ AdoptAtHead
    \/ schema = SchemaAt[1] /\ AdoptLegacy
    \/ schema \notin {SchemaAt[1], SchemaAt[Newest]} /\ UNCHANGED <<revision, migration>>

MigrateDb ==
    /\ MigrationStarts
    /\ IF Unversioned THEN Adopts
       ELSE migration' = Towards(revision, Newest) /\ UNCHANGED revision
    /\ UNCHANGED <<schema, rows, kills, origin, torn>>

\* "alembic upgrade head" and "alembic downgrade <revision>", as the release tool
\* and the container's entry point call them: nothing is adopted.
AlembicCommand(goal) ==
    /\ MigrationStarts
    /\ goal = Newest \/ goal < revision
    /\ migration' = Towards(revision, goal)
    /\ UNCHANGED <<revision, schema, rows, kills, origin, torn>>

CanCommit(commit) == commit.adds \cap schema = {} /\ commit.drops \subseteq schema

\* ON DELETE CASCADE: chapter, segment, glossary_term and stored_artifact.
Cascaded == IF "projects" \in rows THEN {"contents", "artifacts"} ELSE {}

Kept(commit) ==
    (rows \ UNION {RowsOf[p] : p \in commit.drops}) \ (IF commit.copies THEN Cascaded ELSE {})

CommitNext ==
    LET commit == NextCommit
        stamped == IF migration.direction = "up" THEN revision + 1 ELSE revision - 1
    IN
    /\ CanCommit(commit)
    /\ schema' = Effect(schema, commit)
    /\ rows' = Kept(commit)
    /\ IF commit.last
       THEN revision' = stamped /\ migration' = Towards(stamped, migration.goal)
       ELSE migration' = [migration EXCEPT !.next = @ + 1] /\ UNCHANGED revision

MigrationStep ==
    /\ ~NotMigrating
    /\ CommitNext
    /\ UNCHANGED <<started, kills, origin, torn>>

StopsHalfway ==
    /\ torn' = torn \cup {migration.direction}
    /\ migration' = NoMigration

\* "table ... already exists" or "no such table": the command ends there.
MigrationFails ==
    /\ ~NotMigrating /\ ~CanCommit(NextCommit)
    /\ StopsHalfway
    /\ UNCHANGED <<revision, schema, rows, started, kills, origin>>

MigrationKilled ==
    /\ ~NotMigrating /\ kills < MaxMigrationKills
    /\ kills' = kills + 1
    /\ StopsHalfway
    /\ UNCHANGED <<revision, schema, rows, started, origin>>

\* The application fills the tables it finds; everything of a book needs its project.
Used(kind) ==
    /\ NotMigrating
    /\ \E p \in schema : kind \in RowsOf[p]
    /\ kind \in {"contents", "artifacts", "logs"} => "projects" \in rows
    /\ rows' = rows \cup {kind}
    /\ UNCHANGED <<revision, schema, migration, started, kills, origin, torn>>

\* A database is new, was made by a build that did not use migrations (the first
\* one, a later one, this one), or is something else.
MigrationInit ==
    /\ schema \in {{}, SchemaAt[1], SchemaAt[Newest - 1], SchemaAt[Newest], {"books"}}
    /\ origin = schema
    /\ revision = 0
    /\ rows = {}
    /\ migration = NoMigration
    /\ started = 0 /\ kills = 0
    /\ torn = {}

MigrationNext ==
    \/ MigrateDb
    \/ \E goal \in 0 .. Newest : AlembicCommand(goal)
    \/ MigrationStep \/ MigrationFails \/ MigrationKilled
    \/ \E kind \in AllRows : Used(kind)

MigrationSpec == MigrationInit /\ [][MigrationNext]_migrationVars

-----------------------------------------------------------------------------
(* Properties *)

MigrationTypeOK ==
    /\ revision \in 0 .. Newest
    /\ schema \subseteq Parts /\ origin \subseteq Parts
    /\ rows \subseteq UNION {RowsOf[p] : p \in schema}
    /\ migration \in [direction : {"none", "up", "down"}, goal : 0 .. Newest, next : 1 .. 3]
    /\ torn \subseteq {"up", "down"}

\* A database that says it is at a revision has the tables of that revision: the
\* adoption stamps only what it has seen, and an upgrade that is killed or fails
\* leaves the older revision behind. Only a downgrade that stops halfway breaks this:
\* its first drops are durable before the revision is rewritten, and it fails after
\* them when a killed upgrade has left its tables (db.py 223-248, 0002 664-725).
\* Nor does the record say too little: unless a migration was killed or the database
\* was never adopted, none is replayed against tables that exist or undone without
\* them ("otherwise adoption stamps a stale version and the next upgrade replays
\* migrations against existing tables", db.py 13-16).
RevisionIsTrue ==
    IF NotMigrating
    THEN revision > 0 /\ "down" \notin torn => SchemaAt[revision] \subseteq schema
    ELSE torn = {} /\ (revision > 0 \/ origin = {}) => CanCommit(NextCommit)

\* "Safely adopt only an exact, complete schema" (db.py 203-205): an upgrade keeps
\* what the database holds.
UpgradeKeepsRows ==
    [][migration.direction = "up" => rows \subseteq rows']_migrationVars

-----------------------------------------------------------------------------
(* What RevisionIsTrue rests on *)

\* The schema of a revision after all commits before the n-th.
Before(n, v, commits) ==
    CASE n = 1 -> SchemaAt[v]
      [] n = 2 -> Effect(SchemaAt[v], commits[1])
      [] OTHER -> Effect(Effect(SchemaAt[v], commits[1]), commits[2])

Reached == IF NotMigrating THEN SchemaAt[revision] ELSE Before(migration.next, revision, Commits)

UnderWay ==
    IF migration.direction = "none" THEN NotMigrating
    ELSE /\ migration.next \in DOMAIN Commits
         /\ IF migration.direction = "up" THEN revision < migration.goal
            ELSE migration.goal < revision

\* A database of another kind, in which no migration of this code can do anything.
Foreign ==
    /\ revision = 0 /\ migration.next = 1
    /\ schema = origin /\ "books" \in schema

MigrationInductive ==
    /\ MigrationTypeOK
    /\ UnderWay
    /\ "down" \notin torn => Reached \subseteq schema
    /\ torn = {} => schema = Reached \/ Foreign
=============================================================================
