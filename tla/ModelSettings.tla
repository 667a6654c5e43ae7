--------------------------- MODULE ModelSettings ---------------------------
(***************************************************************************)
(* The administrator's settings: credentials of providers, model profiles  *)
(* and prompt templates (backend/app/api/settings.py, services/providers   *)
(* and services/prompts), and the project that refers to them              *)
(* (api/projects.py, resolved when a run starts).                          *)
(*                                                                         *)
(* Each request runs in a thread of its own.  It reads without a           *)
(* transaction, so each query sees what is committed then, and writes      *)
(* everything in one transaction, which SQLite serializes.  The ORM writes *)
(* only the columns that differ from what the request has read.  The       *)
(* database has the last word: one default per table, which is enabled; a  *)
(* credential that is in use cannot go; what refers to a deleted profile   *)
(* or template refers to nothing afterwards.                               *)
(*                                                                         *)
(* Names, texts and parameters are left out, and with them the rejection   *)
(* of duplicate names; a row stands for its name.                          *)
(***************************************************************************)
EXTENDS Integers, FiniteSets

CONSTANTS
    Profiles,      \* model profiles
    Templates,     \* prompt templates
    Builtins,      \* the templates that are seeded ...
    FirstBuiltin,  \* ... and the one that becomes the default
    Keys,          \* provider credentials
    Admins,        \* requests in flight at a time
    Nothing,       \* NULL
    MaxSecrets,    \* bound: secrets entered
    MaxRequests,   \* bound: requests
    MaxBoots       \* bound: starts of the server

ASSUME BuiltinsAssumption == Builtins \subseteq Templates /\ FirstBuiltin \in Builtins
\* The rows of different tables are different, and NULL is none of them.
ASSUME TablesAssumption ==
    /\ Profiles \cap Templates = {}
    /\ (Profiles \cup Templates) \cap Keys = {}
    /\ Nothing \notin Profiles \cup Templates \cup Keys
ASSUME MaxSecretsAssumption == MaxSecrets \in Nat

VARIABLES
    db,        \* the tables
    request,   \* what each request has read and is about to write
    requests, secrets, boots,
    chosen,    \* (history) what was last chosen for the project; a deleted template is forgotten
    unset,     \* (history) the last request took the mark off a default
    stale      \* (history) a request has written though another one wrote after it had read

settingsVars == <<db, request, requests, secrets, boots, chosen, unset, stale>>

-----------------------------------------------------------------------------
Rows == Profiles \cup Templates
Table(r) == IF r \in Profiles THEN Profiles ELSE Templates

NoRow == [exists |-> FALSE, enabled |-> FALSE, default |-> FALSE, key |-> Nothing]
RowWith(enabled, default, key) ==
    [exists |-> TRUE, enabled |-> enabled, default |-> default, key |-> key]
\* secret 0: no row; about: (history) the secret the verdict is about
NoKey == [secret |-> 0, verdict |-> "untested", about |-> 0]

NoProject == [exists |-> FALSE, profile |-> Nothing, template |-> Nothing]

Default(table) == {r \in table : db.row[r].default}

NoRequest == [op |-> "none", on |-> Nothing, seen |-> NoRow, want |-> NoRow, others |-> {},
              column |-> "profile", seenKey |-> NoKey, seenProject |-> NoProject,
              at |-> "none", overtaken |-> FALSE]

Asks(a, op, on, at) ==
    [NoRequest EXCEPT !.op = op, !.on = on, !.at = at, !.seenProject = db.project]

Enters(a, r) ==
    /\ request[a] = NoRequest /\ requests < MaxRequests
    /\ requests' = requests + 1
    /\ request' = [request EXCEPT ![a] = r]
    /\ UNCHANGED <<db, secrets, boots, chosen, unset, stale>>

KeyExists(d, k) == k # Nothing => d.key[k].secret > 0

MayUpdate(r, seen, want) ==
    /\ want.default => want.enabled
    /\ r \in Templates /\ seen.default /\ ~want.enabled => want.default

CreateRow(a, r, want) ==
    /\ ~db.row[r].exists
    /\ want.default => want.enabled
    /\ KeyExists(db, want.key)
    /\ Enters(a, [Asks(a, "create", r, IF want.default THEN "collect" ELSE "write")
                  EXCEPT !.want = want])

\* The values a PATCH leaves out are those the row has.
UpdateRow(a, r, want) ==
    LET seen == db.row[r] IN
    /\ seen.exists
    /\ MayUpdate(r, seen, want)
    /\ KeyExists(db, want.key)
    /\ Enters(a, [Asks(a, "update", r,
                       IF want.default /\ ~seen.default THEN "collect" ELSE "write")
                  EXCEPT !.seen = seen, !.want = want])

SetDefault(a, r) ==
    LET seen == db.row[r] IN
    /\ seen.exists /\ seen.enabled
    /\ Enters(a, [Asks(a, "update", r, "collect")
                  EXCEPT !.seen = seen, !.want = [seen EXCEPT !.default = TRUE]])

\* A fault: the default can be deleted.
MayDeleteAny(r) == db.row[r].exists

MayDelete(r) == db.row[r].exists /\ ~db.row[r].default

DeleteRow(a, r) ==
    /\ MayDelete(r)
    /\ Enters(a, Asks(a, "delete", r, "write"))

\* _clear_default: the rows to unmark are read now and written later.
Collect(a) ==
    LET q == request[a] IN
    /\ q.at = "collect"
    /\ request' = [request EXCEPT ![a].others = Default(Table(q.on)) \ {q.on}, ![a].at = "write"]
    /\ UNCHANGED <<db, requests, secrets, boots, chosen, unset, stale>>

CreateKey(k) ==
    /\ db.key[k].secret = 0 /\ secrets < MaxSecrets /\ requests < MaxRequests
    /\ secrets' = secrets + 1 /\ requests' = requests + 1
    /\ db' = [db EXCEPT !.key[k] = [NoKey EXCEPT !.secret = secrets + 1]]
    /\ UNCHANGED <<request, boots, chosen, unset, stale>>

ReplaceKey(a, k) ==
    /\ db.key[k].secret > 0
    /\ Enters(a, [Asks(a, "replaceKey", k, "write") EXCEPT !.seenKey = db.key[k]])

DeleteKey(a, k) ==
    /\ db.key[k].secret > 0
    /\ \A p \in Profiles : db.row[p].exists => db.row[p].key # k
    /\ Enters(a, Asks(a, "deleteKey", k, "write"))

\* The secret is decrypted, then the provider is called for up to 20 seconds.
TestProfile(a, p) ==
    LET seen == db.row[p] IN
    /\ seen.exists /\ seen.enabled /\ seen.key # Nothing
    /\ Enters(a, [Asks(a, "test", p, "write")
                  EXCEPT !.seen = seen, !.seenKey = db.key[seen.key]])

Assign(a, table, r) ==
    /\ db.project.exists
    /\ r # Nothing => db.row[r].exists /\ db.row[r].enabled
    /\ Enters(a, [Asks(a, "assign", r, "write")
                  EXCEPT !.column = IF table = Profiles THEN "profile" ELSE "template"])

-----------------------------------------------------------------------------
(* Commit *)

\* The columns a request has changed, as it has read them.
Changed(old, seen, want) ==
    [c \in DOMAIN old |-> IF want[c] # seen[c] THEN want[c] ELSE old[c]]

\* ON DELETE SET NULL; deleting a template also clears what its request saw.
Forget(d, q) ==
    [d.project EXCEPT
        !.profile = IF @ = q.on THEN Nothing ELSE @,
        !.template = IF q.on \in Templates /\ q.on \in {@, q.seenProject.template}
                     THEN Nothing ELSE @]

\* A fault: the verdict on the old secret stays.
RenewedKeepingVerdict(old, seen, secret) == [old EXCEPT !.secret = secret]

Renewed(old, seen, secret) ==
    [secret |-> secret,
     verdict |-> IF seen.verdict # "untested" THEN "untested" ELSE old.verdict,
     about |-> IF seen.verdict # "untested" THEN 0 ELSE old.about]

Tested(old, seen, ok) ==
    [old EXCEPT !.verdict = IF ok THEN "valid" ELSE "invalid", !.about = seen.secret]

\* What the tables hold after the request; ok: what the provider said.
RowAfter(q, r) ==
    IF r = q.on
    THEN CASE q.op = "create" -> q.want
           [] q.op = "update" -> Changed(db.row[r], q.seen, q.want)
           [] q.op = "delete" -> NoRow
           [] OTHER -> db.row[r]
    ELSE IF r \in q.others THEN [db.row[r] EXCEPT !.default = FALSE] ELSE db.row[r]

KeyAfter(q, k, ok) ==
    CASE q.op = "replaceKey" /\ k = q.on -> Renewed(db.key[k], q.seenKey, secrets + 1)
      [] q.op = "deleteKey" /\ k = q.on -> NoKey
      [] q.op = "test" /\ k = q.seen.key -> Tested(db.key[k], q.seenKey, ok)
      [] OTHER -> db.key[k]

ProjectAfter(q) ==
    CASE q.op = "delete" -> Forget(db, q)
      [] q.op = "assign" -> [db.project EXCEPT ![q.column] = q.on]
      [] OTHER -> db.project

After(q, ok) ==
    [row |-> [r \in Rows |-> RowAfter(q, r)],
     key |-> [k \in Keys |-> KeyAfter(q, k, ok)],
     project |-> ProjectAfter(q)]

\* The rows the request updates are still there; a DELETE may find nothing.
Found(q) ==
    CASE q.op = "create" -> ~db.row[q.on].exists /\ \A r \in q.others : db.row[r].exists
      [] q.op = "update" -> \A r \in q.others \cup {q.on} : db.row[r].exists
      [] q.op = "replaceKey" -> db.key[q.on].secret > 0
      [] q.op = "test" -> db.key[q.seen.key].secret > 0
      [] OTHER -> TRUE

\* CHECK, UNIQUE and FOREIGN KEY constraints.
Constraints(d) ==
    /\ \A r \in Rows : d.row[r].default => d.row[r].enabled
    /\ \A table \in {Profiles, Templates} : Cardinality({r \in table : d.row[r].default}) <= 1
    /\ \A p \in Profiles : d.row[p].exists => KeyExists(d, d.row[p].key)
    /\ \A r \in {d.project.profile, d.project.template} \ {Nothing} : d.row[r].exists

Goes(q, ok) == Found(q) /\ Constraints(After(q, ok))

\* Requests on templates and requests on profiles and credentials do not meet.
OnTemplates(q) == q.on \in Templates
Meets(q, p) == p.at # "none" /\ ("assign" \in {q.op, p.op}
                                \/ (OnTemplates(q) <=> OnTemplates(p)))

Unsets(q) == q.op = "update" /\ q.seen.default /\ ~q.want.default

Write(a, ok) ==
    LET q == request[a] IN
    /\ q.at = "write"
    /\ q.op = "replaceKey" => secrets < MaxSecrets
    /\ IF Goes(q, ok)
       THEN /\ db' = After(q, ok)
            /\ request' = [b \in Admins |->
                 IF b = a THEN NoRequest
                 ELSE [request[b] EXCEPT !.overtaken = @ \/ Meets(q, request[b])]]
            /\ stale' = (stale \/ q.overtaken)
            /\ unset' = Unsets(q)
            /\ chosen' = CASE q.op = "assign" -> [chosen EXCEPT ![q.column] = q.on]
                            [] q.op = "delete" -> [chosen EXCEPT !.template = IF @ = q.on THEN Nothing ELSE @]
                            [] OTHER -> chosen
            /\ secrets' = IF q.op = "replaceKey" THEN secrets + 1 ELSE secrets
       ELSE /\ request' = [request EXCEPT ![a] = NoRequest]
            /\ UNCHANGED <<db, stale, unset, chosen, secrets>>
    /\ UNCHANGED <<requests, boots>>

-----------------------------------------------------------------------------
(* Other actors *)

\* A new project takes the enabled default profile, and no template of its own.
CreateProject ==
    /\ ~db.project.exists /\ requests < MaxRequests
    /\ requests' = requests + 1
    /\ LET p == {r \in Default(Profiles) : db.row[r].enabled}
           new == [NoProject EXCEPT !.exists = TRUE,
                                    !.profile = IF p = {} THEN Nothing ELSE CHOOSE r \in p : TRUE]
       IN db' = [db EXCEPT !.project = new] /\ chosen' = new
    /\ UNCHANGED <<request, secrets, boots, unset, stale>>

SeedsFirstAsDefault == Default(Templates) = {}

\* lifespan() seeds the built-in templates whose name is missing.
Boot ==
    /\ boots < MaxBoots
    /\ boots' = boots + 1
    /\ request' = [a \in Admins |-> NoRequest]
    /\ db' = [db EXCEPT !.row = [r \in Rows |->
                IF r \in Builtins /\ ~@[r].exists
                THEN RowWith(TRUE, r = FirstBuiltin /\ SeedsFirstAsDefault, Nothing) ELSE @[r]]]
    /\ UNCHANGED <<requests, secrets, chosen, unset, stale>>

\* resolve_project_runtime() when a run starts; "ambient": the keys of the environment.
Provider ==
    LET p == db.project.profile IN
    IF p = Nothing THEN "ambient"
    ELSE IF ~db.row[p].exists \/ ~db.row[p].enabled THEN "error" ELSE p

Usable(rows) == {r \in rows : r # Nothing /\ db.row[r].enabled}

\* A fault: the default goes before the project's own template.
DefaultPromptFirst ==
    LET usable == Usable(Default(Templates)) \cup
                  (IF Usable(Default(Templates)) = {} THEN Usable({db.project.template}) ELSE {})
    IN IF usable # {} THEN CHOOSE r \in usable : TRUE ELSE "built-in"

\* resolve_project_prompt(): the project's template, the default, the built-in text.
Prompt ==
    LET own == Usable({db.project.template})
        default == Usable(Default(Templates))
    IN IF own # {} THEN CHOOSE r \in own : TRUE
       ELSE IF default # {} THEN CHOOSE r \in default : TRUE ELSE "built-in"

-----------------------------------------------------------------------------
SettingsInit ==
    /\ db = [row |-> [r \in Rows |-> IF r \in Builtins THEN RowWith(TRUE, r = FirstBuiltin, Nothing)
                                     ELSE NoRow],
             key |-> [k \in Keys |-> NoKey],
             project |-> NoProject]
    /\ request = [a \in Admins |-> NoRequest]
    /\ requests = 0 /\ secrets = 0 /\ boots = 1
    /\ chosen = db.project
    /\ unset = FALSE /\ stale = FALSE

Wanted(r) ==
    {RowWith(enabled, default, key) : enabled \in BOOLEAN, default \in BOOLEAN,
     key \in (IF r \in Profiles THEN Keys ELSE {}) \cup {Nothing}}

SettingsNext ==
    \/ \E a \in Admins :
         \/ \E r \in Rows :
              \/ \E want \in Wanted(r) : CreateRow(a, r, want) \/ UpdateRow(a, r, want)
              \/ SetDefault(a, r) \/ DeleteRow(a, r)
         \/ \E k \in Keys : ReplaceKey(a, k) \/ DeleteKey(a, k)
         \/ \E p \in Profiles : TestProfile(a, p)
         \/ \E table \in {Profiles, Templates} : \E r \in table \cup {Nothing} : Assign(a, table, r)
         \/ Collect(a)
         \/ \E ok \in BOOLEAN : Write(a, ok)
    \/ \E k \in Keys : CreateKey(k)
    \/ CreateProject \/ Boot

SettingsSpec == SettingsInit /\ [][SettingsNext]_settingsVars

-----------------------------------------------------------------------------
(* Properties *)

RowType == [exists : BOOLEAN, enabled : BOOLEAN, default : BOOLEAN, key : Keys \cup {Nothing}]
KeyType == [secret : 0 .. MaxSecrets, verdict : {"untested", "valid", "invalid"},
            about : 0 .. MaxSecrets]
Choice == [exists : BOOLEAN, profile : Profiles \cup {Nothing}, template : Templates \cup {Nothing}]

RequestType ==
    [op : {"none", "create", "update", "delete", "replaceKey", "deleteKey", "test", "assign"},
     on : Rows \cup Keys \cup {Nothing}, seen : RowType, want : RowType, others : SUBSET Rows,
     column : {"profile", "template"}, seenKey : KeyType, seenProject : Choice,
     at : {"none", "collect", "write"}, overtaken : BOOLEAN]

SettingsTypeOK ==
    /\ db \in [row : [Rows -> RowType], key : [Keys -> KeyType], project : Choice]
    /\ \A r \in Rows : ~db.row[r].exists => db.row[r] = NoRow
    /\ request \in [Admins -> RequestType]
    /\ secrets \in 0 .. MaxSecrets
    /\ chosen \in Choice
    /\ {unset, stale} \subseteq BOOLEAN

\* A default, once there is one, is handed on and never lost, unless a request
\* takes its mark off; two requests that overlap may lose it (providers.py
\* 594-632, prompts.py 182-216).
DefaultIsKept ==
    [][\A table \in {Profiles, Templates} :
         Default(table) # {} /\ Default(table)' = {} => unset' \/ stale']_settingsVars

\* The verdict of a connection test is about the secret that is stored: a new
\* secret is untested, whatever tests ran before it (providers.py 405-434). This
\* holds as long as no request has written on what was no longer so: a test whose
\* key is replaced while it waits for the provider misjudges the new key
\* (settings.py 442-457).
VerdictIsAboutStoredKey ==
    ~stale => \A k \in Keys : db.key[k].verdict # "untested" => db.key[k].about = db.key[k].secret

\* A run uses the template chosen for the project while that can be used, as long
\* as no request has written on what was no longer so; otherwise one that can be
\* used (projects.py 292-328, prompts.py 193-205, 312-337).
ChosenPromptIsUsed ==
    /\ ~stale /\ Usable({chosen.template}) # {} => Prompt = chosen.template
    /\ Prompt # "built-in" => Prompt \in Usable(Templates)

\* "a project can never silently translate through a deleted or paused
\* configuration" (projects.py 300-301); "A deleted, disabled or undecryptable
\* profile propagates its error" (providers.py 729).
DeletedProfilePropagates ==
    chosen.profile # Nothing => Provider \in {chosen.profile, "error"}

-----------------------------------------------------------------------------
(* What the safety properties rest on *)

\* What a request is about, and which marks it takes off.
Shaped(q) ==
    /\ q.op # "none"
    /\ q.op \in {"create", "update", "delete"} => q.on \in Rows
    /\ q.op \in {"create", "update"} => q.want.exists
    /\ q.op = "update" => q.seen.exists
    /\ q.op \in {"replaceKey", "deleteKey"} => q.on \in Keys
    /\ q.op = "test" => q.on \in Profiles /\ q.seen.key \in Keys
    /\ q.op = "assign" =>
          q.on \in (IF q.column = "profile" THEN Profiles ELSE Templates) \cup {Nothing}
    /\ q.others \subseteq Table(q.on) \ {q.on}
    /\ q.at = "collect" \/ q.others # {} => q.want.default /\ q.op \in {"create", "update"}

\* What a request has read is still so.
Current(d, q) ==
    /\ q.op = "update" => q.seen = d.row[q.on]
    /\ q.op = "delete" => ~d.row[q.on].default
    /\ q.op = "delete" /\ OnTemplates(q) => q.seenProject.template = d.project.template
    /\ q.op = "replaceKey" => d.key[q.on].secret > 0 /\ q.seenKey = d.key[q.on]
    /\ q.op = "test" => d.key[q.seen.key].secret > 0 /\ q.seenKey = d.key[q.seen.key]

\* A request no other one has overtaken writes on what it has read.
RequestsAreCurrent ==
    \A a \in Admins : request[a].at # "none" =>
        Shaped(request[a]) /\ (~request[a].overtaken => Current(db, request[a]))

\* The foreign key from the profiles to the credentials.
KeysExist == \A p \in Profiles : db.row[p].exists => KeyExists(db, db.row[p].key)

\* Only a project that is there has a template, or is given one.
ChoiceNeedsProject ==
    /\ ~db.project.exists => db.project.template = Nothing
    /\ \A a \in Admins : request[a].op = "assign" => db.project.exists

ChoiceIsRemembered == ~stale => db.project.template = chosen.template

SettingsInductive ==
    /\ SettingsTypeOK
    /\ KeysExist
    /\ RequestsAreCurrent
    /\ ChoiceNeedsProject
    /\ ChoiceIsRemembered
    /\ VerdictIsAboutStoredKey
=============================================================================
