---------------------------- MODULE ServicesProofs ----------------------------
(***************************************************************************)
(* Theorems about ModelSettings, for every number of profiles, templates,  *)
(* credentials and administrators, and about EventStream, for every number *)
(* of segments and every size of the history and the queue; for every      *)
(* bound of both.                                                          *)
(*                                                                         *)
(* What makes those about the settings true is RequestsAreCurrent: the     *)
(* tables may have changed under a request only if the write that changed  *)
(* them has marked it as overtaken, because writes to templates cannot     *)
(* change what a request on profiles or credentials has read, nor the      *)
(* other way round.  What makes those about the stream true is the order   *)
(* of the ids along the way from the broker to the page (StreamInOrder),   *)
(* and what the last event on that way says of each segment (PageIsTold).  *)
(***************************************************************************)
EXTENDS MCServices, SequenceTheorems, TLAPS

DbType == [row : [Rows -> RowType], key : [Keys -> KeyType], project : Choice]

-----------------------------------------------------------------------------
(* What a request enters with *)

LEMMA Constants ==
  /\ 0 \in 0 .. MaxSecrets
  /\ NoRow \in RowType /\ NoKey \in KeyType /\ NoProject \in Choice
  /\ NoRequest \in RequestType /\ NoRequest.at = "none" /\ NoRequest.others = {}
  /\ ~ NoRow.default /\ ~ NoRow.exists
  <1>1. 0 \in 0 .. MaxSecrets BY MaxSecretsAssumption
  <1>2. NoRow \in RowType /\ NoKey \in KeyType /\ NoProject \in Choice
    BY <1>1 DEF NoRow, NoKey, NoProject, RowType, KeyType, Choice
  <1>3. NoRequest \in RequestType /\ NoRequest.at = "none" /\ NoRequest.others = {}
    BY <1>2 DEF NoRequest, RequestType
  <1> QED BY <1>1, <1>2, <1>3 DEF NoRow

LEMMA AsksFields ==
  db \in DbType =>
    \A a, op, on, at :
      /\ op \in {"create", "update", "delete", "replaceKey", "deleteKey", "test", "assign"}
      /\ on \in Rows \cup Keys \cup {Nothing} /\ at \in {"collect", "write"}
      => /\ Asks(a, op, on, at) \in RequestType
         /\ Asks(a, op, on, at).op = op /\ Asks(a, op, on, at).on = on
         /\ Asks(a, op, on, at).at = at /\ Asks(a, op, on, at).others = {}
         /\ Asks(a, op, on, at).seenProject = db.project
  <1> SUFFICES ASSUME db \in DbType, NEW a, NEW op, NEW on, NEW at,
                      op \in {"create", "update", "delete", "replaceKey", "deleteKey", "test",
                              "assign"},
                      on \in Rows \cup Keys \cup {Nothing}, at \in {"collect", "write"}
               PROVE  /\ Asks(a, op, on, at) \in RequestType
                      /\ Asks(a, op, on, at).op = op /\ Asks(a, op, on, at).on = on
                      /\ Asks(a, op, on, at).at = at /\ Asks(a, op, on, at).others = {}
                      /\ Asks(a, op, on, at).seenProject = db.project
    OBVIOUS
  <1>1. db.project \in Choice BY DEF DbType
  <1>2. NoRequest \in RequestType /\ NoRequest.others = {} BY Constants
  <1> QED BY <1>1, <1>2 DEF Asks, RequestType

-----------------------------------------------------------------------------
(* What a write changes *)

LEMMA AfterParts ==
  ASSUME NEW q, NEW ok
  PROVE  /\ After(q, ok).row = [r \in Rows |-> RowAfter(q, r)]
         /\ After(q, ok).key = [k \in Keys |-> KeyAfter(q, k, ok)]
         /\ After(q, ok).project = ProjectAfter(q)
  BY DEF After

LEMMA ChangedColumns ==
  ASSUME NEW old \in RowType, NEW seen \in RowType, NEW want \in RowType
  PROVE  /\ Changed(old, seen, want) \in RowType
         /\ seen = old => Changed(old, seen, want) = want
         /\ old.exists /\ seen.exists /\ want.exists => Changed(old, seen, want).exists
  <1>1. DOMAIN old = {"exists", "enabled", "default", "key"} BY DEF RowType
  <1> DEFINE new == Changed(old, seen, want)
  <1>2. new = [c \in {"exists", "enabled", "default", "key"} |->
                  IF want[c] # seen[c] THEN want[c] ELSE old[c]]
    BY <1>1 DEF Changed
  <1> HIDE DEF new
  <1>3. new = [exists |-> IF want.exists # seen.exists THEN want.exists ELSE old.exists,
               enabled |-> IF want.enabled # seen.enabled THEN want.enabled ELSE old.enabled,
               default |-> IF want.default # seen.default THEN want.default ELSE old.default,
               key |-> IF want.key # seen.key THEN want.key ELSE old.key]
    BY <1>2
  <1>4. new \in RowType BY <1>3 DEF RowType
  <1>5. ASSUME seen = old PROVE new = want
    <2>1. new = [exists |-> want.exists, enabled |-> want.enabled, default |-> want.default,
                 key |-> want.key]
      BY <1>3, <1>5
    <2> QED BY <2>1 DEF RowType
  <1>6. old.exists /\ seen.exists /\ want.exists => new.exists BY <1>3 DEF RowType
  <1> QED BY <1>4, <1>5, <1>6 DEF new

\* The rows of one table say nothing of those of the other, and the template of
\* the project nothing of either.
LEMMA RowsApart ==
  ASSUME db \in DbType, NEW q \in RequestType, Shaped(q)
  PROVE  /\ q.on \in Templates => \A p \in Profiles : RowAfter(q, p) = db.row[p]
         /\ q.on \notin Templates => \A t \in Templates : RowAfter(q, t) = db.row[t]
  BY TablesAssumption DEF Shaped, RowAfter, Table, Rows

LEMMA KeysApart ==
  ASSUME db \in DbType, NEW q \in RequestType, Shaped(q), q.on \in Templates, q.op # "assign",
         NEW ok
  PROVE  \A k \in Keys : KeyAfter(q, k, ok) = db.key[k]
  BY TablesAssumption DEF Shaped, KeyAfter, Rows

LEMMA TemplateApart ==
  ASSUME db \in DbType, NEW q \in RequestType, Shaped(q), q.on \notin Templates, q.op # "assign"
  PROVE  ProjectAfter(q).template = db.project.template
  <1>1. CASE q.op = "delete" BY <1>1 DEF ProjectAfter, Forget, DbType, Choice
  <1>2. CASE q.op # "delete" BY <1>2 DEF ProjectAfter
  <1> QED BY <1>1, <1>2

EmptyRows == \A r \in Rows : ~db.row[r].exists => db.row[r] = NoRow

LEMMA AfterType ==
  ASSUME db \in DbType, EmptyRows, NEW q \in RequestType, NEW ok \in BOOLEAN, Shaped(q), Found(q),
         secrets \in 0 .. MaxSecrets, q.op = "replaceKey" => secrets < MaxSecrets
  PROVE  /\ After(q, ok) \in DbType
         /\ \A r \in Rows : ~After(q, ok).row[r].exists => After(q, ok).row[r] = NoRow
  <1>1. ASSUME NEW r \in Rows
        PROVE  RowAfter(q, r) \in RowType /\ (~RowAfter(q, r).exists => RowAfter(q, r) = NoRow)
    <2>1. db.row[r] \in RowType BY DEF DbType
    <2>2. CASE r = q.on /\ q.op = "create"
      <3>1. RowAfter(q, r) = q.want BY <2>2 DEF RowAfter
      <3> QED BY <2>2, <3>1 DEF Shaped, RequestType
    <2>3. CASE r = q.on /\ q.op = "update"
      <3>1. RowAfter(q, r) = Changed(db.row[r], q.seen, q.want) BY <2>3 DEF RowAfter
      <3>2. q.seen \in RowType /\ q.want \in RowType /\ q.seen.exists /\ q.want.exists
        BY <2>3 DEF Shaped, RequestType
      <3>3. db.row[r].exists BY <2>3 DEF Found
      <3> QED BY <2>1, <3>1, <3>2, <3>3, ChangedColumns
    <2>4. CASE r = q.on /\ q.op = "delete" BY <2>4, Constants DEF RowAfter
    <2>5. CASE r = q.on /\ q.op \notin {"create", "update", "delete"}
      BY <2>1, <2>5 DEF RowAfter, EmptyRows
    <2>6. CASE r # q.on /\ r \in q.others
      <3>1. RowAfter(q, r) = [db.row[r] EXCEPT !.default = FALSE] BY <2>6 DEF RowAfter
      <3>2. q.op \in {"create", "update"} BY <2>6 DEF Shaped
      <3>3. db.row[r].exists BY <2>6, <3>2 DEF Found
      <3> QED BY <2>1, <3>1, <3>3 DEF RowType
    <2>7. CASE r # q.on /\ r \notin q.others BY <2>1, <2>7 DEF RowAfter, EmptyRows
    <2> QED BY <2>2, <2>3, <2>4, <2>5, <2>6, <2>7
  <1>2. ASSUME NEW k \in Keys PROVE KeyAfter(q, k, ok) \in KeyType
    <2>1. db.key[k] \in KeyType /\ q.seenKey \in KeyType BY DEF DbType, RequestType
    <2>2. CASE q.op = "replaceKey" /\ k = q.on
      <3>1. secrets + 1 \in 0 .. MaxSecrets /\ 0 \in 0 .. MaxSecrets
        BY <2>2, MaxSecretsAssumption
      <3>2. KeyAfter(q, k, ok) = Renewed(db.key[k], q.seenKey, secrets + 1)
        BY <2>2 DEF KeyAfter
      <3> QED BY <2>1, <3>1, <3>2 DEF Renewed, KeyType
    <2>3. CASE q.op = "deleteKey" /\ k = q.on BY <2>3, Constants DEF KeyAfter
    <2>4. CASE q.op = "test" /\ k = q.seen.key
      <3>1. KeyAfter(q, k, ok) = Tested(db.key[k], q.seenKey, ok) BY <2>4 DEF KeyAfter
      <3> QED BY <2>1, <3>1 DEF Tested, KeyType
    <2>5. CASE ~ (q.op \in {"replaceKey", "deleteKey"} /\ k = q.on)
               /\ ~ (q.op = "test" /\ k = q.seen.key)
      BY <2>1, <2>5 DEF KeyAfter
    <2> QED BY <2>2, <2>3, <2>4, <2>5
  <1>3. ProjectAfter(q) \in Choice
    <2>1. db.project \in Choice BY DEF DbType
    <2>2. CASE q.op = "delete"
      <3>1. ProjectAfter(q) = Forget(db, q) BY <2>2 DEF ProjectAfter
      <3> QED BY <2>1, <3>1 DEF Forget, Choice
    <2>3. CASE q.op = "assign"
      <3>1. ProjectAfter(q) = [db.project EXCEPT ![q.column] = q.on] BY <2>3 DEF ProjectAfter
      <3>2. \/ q.column = "profile" /\ q.on \in Profiles \cup {Nothing}
            \/ q.column = "template" /\ q.on \in Templates \cup {Nothing}
        BY <2>3 DEF Shaped, RequestType
      <3> QED BY <2>1, <3>1, <3>2 DEF Choice
    <2>4. CASE q.op \notin {"delete", "assign"} BY <2>1, <2>4 DEF ProjectAfter
    <2> QED BY <2>2, <2>3, <2>4
  <1>4. After(q, ok) = [row |-> [r \in Rows |-> RowAfter(q, r)],
                        key |-> [k \in Keys |-> KeyAfter(q, k, ok)],
                        project |-> ProjectAfter(q)]
    BY DEF After
  <1> QED BY <1>1, <1>2, <1>3, <1>4 DEF DbType

-----------------------------------------------------------------------------
(* The invariant *)

LEMMA TypeFields ==
  SettingsTypeOK <=>
    /\ db \in DbType /\ EmptyRows /\ request \in [Admins -> RequestType]
    /\ secrets \in 0 .. MaxSecrets /\ chosen \in Choice /\ unset \in BOOLEAN /\ stale \in BOOLEAN
  BY DEF SettingsTypeOK, DbType, EmptyRows

LEMMA TypeFieldsNext ==
  SettingsTypeOK' <=>
    /\ db' \in DbType /\ EmptyRows' /\ request' \in [Admins -> RequestType]
    /\ secrets' \in 0 .. MaxSecrets /\ chosen' \in Choice
    /\ unset' \in BOOLEAN /\ stale' \in BOOLEAN
  BY DEF SettingsTypeOK, DbType, EmptyRows

\* A request that enters has read what it is about.
LEMMA EntersKeeps ==
  ASSUME SettingsInductive, NEW a \in Admins, NEW q \in RequestType, Shaped(q), Current(db, q),
         q.op = "assign" => db.project.exists, Enters(a, q)
  PROVE  SettingsInductive'
  <1>1. SettingsTypeOK'
    <2>1. request' \in [Admins -> RequestType]
      BY TypeFields DEF SettingsInductive, Enters
    <2> QED BY <2>1, TypeFields, TypeFieldsNext DEF SettingsInductive, Enters, EmptyRows
  <1>2. RequestsAreCurrent'
    <2> SUFFICES ASSUME NEW b \in Admins, request'[b].at # "none"
                 PROVE  Shaped(request'[b]) /\ (~request'[b].overtaken => Current(db', request'[b]))
      BY DEF RequestsAreCurrent
    <2>1. request'[b] = IF b = a THEN q ELSE request[b]
      BY TypeFields DEF SettingsInductive, Enters
    <2>2. db' = db BY DEF Enters
    <2>3. CASE b = a BY <2>1, <2>2, <2>3
    <2>4. CASE b # a
      <3>1. Shaped(request[b]) /\ (~request[b].overtaken => Current(db, request[b]))
        BY <2>1, <2>4 DEF SettingsInductive, RequestsAreCurrent
      <3> QED BY <2>1, <2>2, <2>4, <3>1
    <2> QED BY <2>3, <2>4
  <1>3. ChoiceIsRemembered' /\ VerdictIsAboutStoredKey'
    BY DEF SettingsInductive, Enters, ChoiceIsRemembered, VerdictIsAboutStoredKey
  <1>4. KeysExist' BY DEF SettingsInductive, Enters, KeysExist, KeyExists
  <1>5. ChoiceNeedsProject'
    BY TypeFields DEF SettingsInductive, Enters, ChoiceNeedsProject
  <1> QED BY <1>1, <1>2, <1>3, <1>4, <1>5 DEF SettingsInductive

LEMMA WantedRows ==
  ASSUME NEW r, NEW want \in Wanted(r) PROVE want \in RowType /\ want.exists
  <1>1. PICK enabled \in BOOLEAN, default \in BOOLEAN,
             key \in (IF r \in Profiles THEN Keys ELSE {}) \cup {Nothing} :
                want = RowWith(enabled, default, key)
    BY DEF Wanted
  <1>2. key \in Keys \cup {Nothing} OBVIOUS
  <1> QED BY <1>1, <1>2 DEF RowWith, RowType

LEMMA RequestEnters ==
  ASSUME SettingsInductive, NEW a \in Admins,
         \/ \E r \in Rows :
              \/ \E want \in Wanted(r) : CreateRow(a, r, want) \/ UpdateRow(a, r, want)
              \/ SetDefault(a, r) \/ DeleteRow(a, r)
         \/ \E k \in Keys : ReplaceKey(a, k) \/ DeleteKey(a, k)
         \/ \E p \in Profiles : TestProfile(a, p)
         \/ \E table \in {Profiles, Templates} : \E r \in table \cup {Nothing} : Assign(a, table, r)
  PROVE  SettingsInductive'
  <1>t. db \in DbType BY TypeFields DEF SettingsInductive
  <1>r. /\ \A r \in Rows : db.row[r] \in RowType
        /\ \A k \in Keys : db.key[k] \in KeyType
    BY <1>t DEF DbType
  <1>1. ASSUME NEW r \in Rows, NEW want \in Wanted(r), CreateRow(a, r, want)
        PROVE  SettingsInductive'
    <2> DEFINE at == IF want.default THEN "collect" ELSE "write"
               q == [Asks(a, "create", r, at) EXCEPT !.want = want]
    <2>1. want \in RowType /\ want.exists BY WantedRows
    <2>2. /\ Asks(a, "create", r, at) \in RequestType
          /\ Asks(a, "create", r, at).op = "create" /\ Asks(a, "create", r, at).on = r
          /\ Asks(a, "create", r, at).others = {} /\ Asks(a, "create", r, at).at = at
      BY <1>t, AsksFields
    <2>3. Enters(a, q) BY <1>1 DEF CreateRow
    <2>4. /\ q \in RequestType /\ q.op = "create" /\ q.on = r /\ q.others = {} /\ q.want = want
          /\ q.at = at
      BY <2>1, <2>2 DEF RequestType
    <2>5. at = "collect" => want.default OBVIOUS
    <2> HIDE DEF q, at
    <2>6. Shaped(q) /\ Current(db, q) BY <2>1, <2>4, <2>5 DEF Shaped, Current
    <2> QED BY <2>3, <2>4, <2>6, EntersKeeps
  <1>2. ASSUME NEW r \in Rows, NEW want \in RowType, want.exists,
               NEW at \in {"collect", "write"}, db.row[r].exists,
               at = "collect" => want.default,
               Enters(a, [Asks(a, "update", r, at) EXCEPT !.seen = db.row[r], !.want = want])
        PROVE  SettingsInductive'
    <2> DEFINE q == [Asks(a, "update", r, at) EXCEPT !.seen = db.row[r], !.want = want]
    <2>1. /\ Asks(a, "update", r, at) \in RequestType
          /\ Asks(a, "update", r, at).op = "update" /\ Asks(a, "update", r, at).on = r
          /\ Asks(a, "update", r, at).others = {} /\ Asks(a, "update", r, at).at = at
      BY <1>t, AsksFields
    <2>2. /\ q \in RequestType /\ q.op = "update" /\ q.on = r /\ q.others = {}
          /\ q.want = want /\ q.seen = db.row[r] /\ q.at = at
      BY <1>r, <2>1 DEF RequestType
    <2> HIDE DEF q
    <2>3. Shaped(q) /\ Current(db, q) BY <1>2, <2>2 DEF Shaped, Current
    <2> QED BY <1>2, <2>2, <2>3, EntersKeeps DEF q
  <1>3. ASSUME NEW r \in Rows, NEW want \in Wanted(r), UpdateRow(a, r, want)
        PROVE  SettingsInductive'
    <2>1. want \in RowType /\ want.exists BY WantedRows
    <2> QED BY <1>2, <1>3, <2>1 DEF UpdateRow
  <1>4. ASSUME NEW r \in Rows, SetDefault(a, r) PROVE SettingsInductive'
    <2> DEFINE want == [db.row[r] EXCEPT !.default = TRUE]
    <2>1. db.row[r].exists BY <1>4 DEF SetDefault
    <2>2. want \in RowType /\ want.exists /\ want.default BY <1>r, <2>1 DEF RowType
    <2>3. Enters(a, [Asks(a, "update", r, "collect") EXCEPT !.seen = db.row[r], !.want = want])
      BY <1>4 DEF SetDefault
    <2> HIDE DEF want
    <2> QED BY <1>2, <2>1, <2>2, <2>3
  <1>5. ASSUME NEW r \in Rows, DeleteRow(a, r) PROVE SettingsInductive'
    <2> DEFINE q == Asks(a, "delete", r, "write")
    <2>1. /\ q \in RequestType /\ q.op = "delete" /\ q.on = r /\ q.others = {}
          /\ q.seenProject = db.project /\ q.at = "write"
      BY <1>t, AsksFields
    <2>2. Enters(a, q) /\ ~ db.row[r].default BY <1>5 DEF DeleteRow, MayDelete
    <2> HIDE DEF q
    <2>3. Shaped(q) /\ Current(db, q) BY <2>1, <2>2 DEF Shaped, Current
    <2> QED BY <2>1, <2>2, <2>3, EntersKeeps
  <1>6. ASSUME NEW k \in Keys, ReplaceKey(a, k) PROVE SettingsInductive'
    <2> DEFINE q == [Asks(a, "replaceKey", k, "write") EXCEPT !.seenKey = db.key[k]]
    <2>1. /\ Asks(a, "replaceKey", k, "write") \in RequestType
          /\ Asks(a, "replaceKey", k, "write").op = "replaceKey"
          /\ Asks(a, "replaceKey", k, "write").on = k
          /\ Asks(a, "replaceKey", k, "write").others = {}
          /\ Asks(a, "replaceKey", k, "write").at = "write"
      BY <1>t, AsksFields
    <2>2. /\ q \in RequestType /\ q.op = "replaceKey" /\ q.on = k /\ q.others = {}
          /\ q.seenKey = db.key[k] /\ q.at = "write"
      BY <1>r, <2>1 DEF RequestType
    <2>3. Enters(a, q) /\ db.key[k].secret > 0 BY <1>6 DEF ReplaceKey
    <2> HIDE DEF q
    <2>4. Shaped(q) /\ Current(db, q) BY <2>2, <2>3 DEF Shaped, Current
    <2> QED BY <2>2, <2>3, <2>4, EntersKeeps
  <1>7. ASSUME NEW k \in Keys, DeleteKey(a, k) PROVE SettingsInductive'
    <2> DEFINE q == Asks(a, "deleteKey", k, "write")
    <2>1. q \in RequestType /\ q.op = "deleteKey" /\ q.on = k /\ q.others = {} /\ q.at = "write"
      BY <1>t, AsksFields
    <2>2. Enters(a, q) BY <1>7 DEF DeleteKey
    <2> HIDE DEF q
    <2>3. Shaped(q) /\ Current(db, q) BY <2>1 DEF Shaped, Current
    <2> QED BY <2>1, <2>2, <2>3, EntersKeeps
  <1>8. ASSUME NEW p \in Profiles, TestProfile(a, p) PROVE SettingsInductive'
    <2> DEFINE seen == db.row[p]
               ask == Asks(a, "test", p, "write")
               q == [ask EXCEPT !.seen = seen, !.seenKey = db.key[seen.key]]
    <2>1. /\ ask \in RequestType /\ ask.op = "test" /\ ask.on = p /\ ask.others = {} /\ ask.at = "write"
      BY <1>t, AsksFields DEF Rows
    <2>2. seen.exists /\ seen.enabled /\ seen.key # Nothing /\ Enters(a, q)
      BY <1>8 DEF TestProfile
    <2>3. seen \in RowType BY <1>r DEF Rows
    <2>4. seen.key \in Keys BY <2>2, <2>3 DEF RowType
    <2>5. db.key[seen.key].secret > 0
      <3>1. KeyExists(db, seen.key) BY <2>2 DEF SettingsInductive, KeysExist
      <3> QED BY <2>2, <3>1 DEF KeyExists
    <2> HIDE DEF seen, ask
    <2>6. /\ q \in RequestType /\ q.op = "test" /\ q.on = p /\ q.others = {}
          /\ q.seen = seen /\ q.seenKey = db.key[seen.key] /\ q.at = "write"
      BY <1>r, <2>1, <2>3, <2>4 DEF RequestType
    <2> HIDE DEF q
    <2>7. Shaped(q) /\ Current(db, q) BY <2>4, <2>5, <2>6 DEF Shaped, Current
    <2> QED BY <2>2, <2>6, <2>7, EntersKeeps
  <1>9. ASSUME NEW table \in {Profiles, Templates}, NEW r \in table \cup {Nothing},
               Assign(a, table, r)
        PROVE  SettingsInductive'
    <2> DEFINE ask == Asks(a, "assign", r, "write")
               c == IF table = Profiles THEN "profile" ELSE "template"
               q == [ask EXCEPT !.column = c]
    <2>1. ask \in RequestType /\ ask.op = "assign" /\ ask.on = r /\ ask.others = {} /\ ask.at = "write"
      BY <1>t, AsksFields DEF Rows
    <2>2. Enters(a, q) /\ db.project.exists BY <1>9 DEF Assign
    <2>3. c \in {"profile", "template"} /\ (c = "profile" => table = Profiles)
          /\ (c # "profile" => table = Templates)
      OBVIOUS
    <2> HIDE DEF ask, c
    <2>4. /\ q \in RequestType /\ q.op = "assign" /\ q.on = r /\ q.others = {} /\ q.column = c
          /\ q.at = "write"
      BY <2>1, <2>3 DEF RequestType
    <2> HIDE DEF q
    <2>5. Shaped(q) /\ Current(db, q) BY <2>3, <2>4 DEF Shaped, Current
    <2> QED BY <2>2, <2>4, <2>5, EntersKeeps
  <1> QED BY <1>1, <1>3, <1>4, <1>5, <1>6, <1>7, <1>8, <1>9

LEMMA CollectKeeps ==
  ASSUME SettingsInductive, NEW a \in Admins, Collect(a)
  PROVE  SettingsInductive'
  <1> DEFINE q == request[a]
             others == Default(Table(q.on)) \ {q.on}
             r == [q EXCEPT !.others = others, !.at = "write"]
  <1>1. q \in RequestType /\ q.at = "collect" /\ request' = [request EXCEPT ![a] = r]
    BY TypeFields DEF SettingsInductive, Collect
  <1>2. Shaped(q) /\ (~q.overtaken => Current(db, q))
    BY <1>1 DEF SettingsInductive, RequestsAreCurrent
  <1>3. others \subseteq Table(q.on) \ {q.on} /\ others \subseteq Rows
    BY DEF Default, Table, Rows
  <1> HIDE DEF q, others
  <1>4. /\ r \in RequestType /\ r.op = q.op /\ r.on = q.on /\ r.want = q.want /\ r.seen = q.seen
        /\ r.column = q.column /\ r.seenKey = q.seenKey /\ r.seenProject = q.seenProject
        /\ r.others = others /\ r.overtaken = q.overtaken /\ r.at = "write"
    BY <1>1, <1>3 DEF RequestType
  <1> HIDE DEF r
  <1>5. Shaped(r) BY <1>1, <1>2, <1>3, <1>4 DEF Shaped
  <1>6. ~r.overtaken => Current(db, r) BY <1>2, <1>4 DEF Current, OnTemplates
  <1>7. SettingsTypeOK'
    <2>1. request' \in [Admins -> RequestType]
      BY <1>1, <1>4, TypeFields DEF SettingsInductive
    <2> QED BY <2>1, TypeFields, TypeFieldsNext DEF SettingsInductive, Collect, EmptyRows
  <1>8. RequestsAreCurrent'
    <2>1. db' = db BY DEF Collect
    <2>2. \A b \in Admins : request'[b] = IF b = a THEN r ELSE request[b]
      BY <1>1, TypeFields DEF SettingsInductive
    <2> SUFFICES ASSUME NEW b \in Admins, request'[b].at # "none"
                 PROVE  Shaped(request'[b]) /\ (~request'[b].overtaken => Current(db', request'[b]))
      BY DEF RequestsAreCurrent
    <2>3. CASE b = a BY <1>5, <1>6, <2>1, <2>2, <2>3
    <2>4. CASE b # a
      <3>1. Shaped(request[b]) /\ (~request[b].overtaken => Current(db, request[b]))
        BY <2>2, <2>4 DEF SettingsInductive, RequestsAreCurrent
      <3> QED BY <2>1, <2>2, <2>4, <3>1
    <2> QED BY <2>3, <2>4
  <1>9. ChoiceIsRemembered' /\ VerdictIsAboutStoredKey' /\ KeysExist'
    BY DEF SettingsInductive, Collect, ChoiceIsRemembered, VerdictIsAboutStoredKey, KeysExist,
           KeyExists
  <1>10. ChoiceNeedsProject'
    BY <1>1, <1>4, TypeFields DEF SettingsInductive, Collect, ChoiceNeedsProject, q
  <1> QED BY <1>7, <1>8, <1>9, <1>10 DEF SettingsInductive

\* What a request that meets no write has read is still so after it.
LEMMA Undisturbed ==
  ASSUME db \in DbType, NEW q \in RequestType, NEW p \in RequestType, NEW ok \in BOOLEAN,
         Shaped(q), Shaped(p), p.at # "none", ~Meets(q, p), Current(db, p)
  PROVE  Current(After(q, ok), p)
  <1> DEFINE d == After(q, ok)
  <1>1. /\ d.row = [r \in Rows |-> RowAfter(q, r)]
        /\ d.key = [k \in Keys |-> KeyAfter(q, k, ok)]
        /\ d.project = ProjectAfter(q)
    BY AfterParts
  <1> SUFFICES Current(d, p) OBVIOUS
  <1> HIDE DEF d
  <1>2. /\ q.op # "assign" /\ p.op # "assign"
        /\ q.on \in Templates <=> p.on \notin Templates
    BY DEF Meets, OnTemplates
  <1>3. CASE q.on \in Templates
    <2>1. \A r \in Profiles : d.row[r] = db.row[r] BY <1>1, <1>3, RowsApart DEF Rows
    <2>2. \A k \in Keys : d.key[k] = db.key[k] BY <1>1, <1>2, <1>3, KeysApart
    <2>3. p.op \in {"update", "delete"} => p.on \in Profiles
      BY <1>2, <1>3 DEF Shaped, Rows
    <2>4. p.op = "replaceKey" => p.on \in Keys BY DEF Shaped
    <2>5. p.op = "test" => p.seen.key \in Keys BY DEF Shaped
    <2>6. ~ OnTemplates(p) BY <1>2, <1>3 DEF OnTemplates
    <2> QED BY <2>1, <2>2, <2>3, <2>4, <2>5, <2>6 DEF Current
  <1>4. CASE q.on \notin Templates
    <2>1. \A r \in Templates : d.row[r] = db.row[r] BY <1>1, <1>4, RowsApart DEF Rows
    <2>2. d.project.template = db.project.template BY <1>1, <1>2, <1>4, TemplateApart
    <2>3. p.op \notin {"replaceKey", "test"}
      BY <1>2, <1>4, TablesAssumption DEF Shaped
    <2>4. p.on \in Templates BY <1>2, <1>4
    <2> QED BY <2>1, <2>2, <2>3, <2>4 DEF Current
  <1> QED BY <1>3, <1>4

\* What a write does that goes through.
LEMMA WriteFields ==
  ASSUME SettingsInductive, NEW a \in Admins, NEW ok \in BOOLEAN, Write(a, ok)
  PROVE  /\ request[a] \in RequestType /\ request[a].at = "write" /\ Shaped(request[a])
         /\ ~request[a].overtaken => Current(db, request[a])
         /\ ~Goes(request[a], ok) =>
               /\ request' = [request EXCEPT ![a] = NoRequest]
               /\ UNCHANGED <<db, stale, unset, chosen, secrets>>
         /\ Goes(request[a], ok) =>
               /\ db' = After(request[a], ok)
               /\ stale' = (stale \/ request[a].overtaken)
               /\ unset' = Unsets(request[a])
  BY TypeFields DEF SettingsInductive, RequestsAreCurrent, Write

LEMMA WriteKeepsVerdict ==
  ASSUME SettingsInductive, NEW a \in Admins, NEW ok \in BOOLEAN, Write(a, ok)
  PROVE  VerdictIsAboutStoredKey'
  <1>1. CASE ~Goes(request[a], ok)
    BY <1>1, WriteFields DEF SettingsInductive, VerdictIsAboutStoredKey
  <1>2. CASE Goes(request[a], ok)
    <2>0. PICK q \in RequestType : q = request[a] BY WriteFields
    <2>1. /\ Shaped(q) /\ (~q.overtaken => Current(db, q))
          /\ db' = After(q, ok) /\ stale' = (stale \/ q.overtaken)
      BY <1>2, <2>0, WriteFields
    <2> SUFFICES ASSUME ~stale', NEW k \in Keys, db'.key[k].verdict # "untested"
                 PROVE  db'.key[k].about = db'.key[k].secret
      BY DEF VerdictIsAboutStoredKey
    <2>2. db'.key[k] = KeyAfter(q, k, ok)
      <3>1. After(q, ok).key = [j \in Keys |-> KeyAfter(q, j, ok)] BY AfterParts
      <3>2. db'.key = After(q, ok).key BY <2>1
      <3> QED BY <3>1, <3>2
    <2>3. /\ Current(db, q) /\ db.key[k] \in KeyType
          /\ db.key[k].verdict # "untested" => db.key[k].about = db.key[k].secret
      BY <2>1, TypeFields DEF SettingsInductive, VerdictIsAboutStoredKey, DbType
    <2>4. CASE q.op = "replaceKey" /\ k = q.on
      <3>1. KeyAfter(q, k, ok) = Renewed(db.key[k], q.seenKey, secrets + 1)
        BY <2>4 DEF KeyAfter
      <3>2. q.seenKey = db.key[k] BY <2>3, <2>4 DEF Current
      <3> QED BY <2>2, <3>1, <3>2 DEF Renewed
    <2>5. CASE q.op = "deleteKey" /\ k = q.on
      <3>1. KeyAfter(q, k, ok) = NoKey BY <2>5 DEF KeyAfter
      <3> QED BY <2>2, <3>1 DEF NoKey
    <2>6. CASE q.op = "test" /\ k = q.seen.key
      <3>1. KeyAfter(q, k, ok) = Tested(db.key[k], q.seenKey, ok) BY <2>6 DEF KeyAfter
      <3>2. q.seenKey = db.key[k] BY <2>3, <2>6 DEF Current
      <3> QED BY <2>2, <2>3, <3>1, <3>2 DEF Tested, KeyType
    <2>7. CASE ~ (q.op \in {"replaceKey", "deleteKey"} /\ k = q.on)
               /\ ~ (q.op = "test" /\ k = q.seen.key)
      BY <2>2, <2>3, <2>7 DEF KeyAfter
    <2> QED BY <2>4, <2>5, <2>6, <2>7
  <1> QED BY <1>1, <1>2

LEMMA WriteKeepsChoice ==
  ASSUME SettingsInductive, NEW a \in Admins, NEW ok \in BOOLEAN, Write(a, ok)
  PROVE  ChoiceIsRemembered' /\ chosen' \in Choice
  <1>c. chosen \in Choice /\ db.project \in Choice BY TypeFields DEF SettingsInductive, DbType
  <1>1. CASE ~Goes(request[a], ok)
    BY <1>1, <1>c, WriteFields DEF SettingsInductive, ChoiceIsRemembered
  <1>2. CASE Goes(request[a], ok)
    <2> DEFINE q == request[a]
    <2>1. /\ q \in RequestType /\ Shaped(q) /\ (~q.overtaken => Current(db, q))
          /\ db' = After(q, ok) /\ stale' = (stale \/ q.overtaken)
      BY <1>2, WriteFields
    <2>2. chosen' = CASE q.op = "assign" -> [chosen EXCEPT ![q.column] = q.on]
                      [] q.op = "delete" -> [chosen EXCEPT !.template = IF @ = q.on THEN Nothing ELSE @]
                      [] OTHER -> chosen
      BY <1>2 DEF Write
    <2> HIDE DEF q
    <2>3. db'.project = ProjectAfter(q) BY <2>1, AfterParts
    <2>4. CASE q.op = "assign"
      <3>1. /\ chosen' = [chosen EXCEPT ![q.column] = q.on]
            /\ db'.project = [db.project EXCEPT ![q.column] = q.on]
        BY <2>2, <2>3, <2>4 DEF ProjectAfter
      <3>2. \/ q.column = "profile" /\ q.on \in Profiles \cup {Nothing}
            \/ q.column = "template" /\ q.on \in Templates \cup {Nothing}
        BY <2>1, <2>4 DEF Shaped, RequestType
      <3> QED BY <1>c, <2>1, <3>1, <3>2 DEF ChoiceIsRemembered, Choice, SettingsInductive
    <2>5. CASE q.op = "delete"
      <3>1. /\ chosen' = [chosen EXCEPT !.template = IF @ = q.on THEN Nothing ELSE @]
            /\ db'.project = Forget(db, q)
        BY <2>2, <2>3, <2>5 DEF ProjectAfter
      <3>2. chosen' \in Choice BY <1>c, <3>1 DEF Choice
      <3>3. ASSUME ~stale' PROVE db'.project.template = chosen'.template
        <4>1. /\ ~stale /\ db.project.template = chosen.template /\ Current(db, q)
          BY <2>1, <3>3 DEF SettingsInductive, ChoiceIsRemembered
        <4>2. q.on \in Templates => q.seenProject.template = db.project.template
          BY <2>5, <4>1 DEF Current, OnTemplates
        <4>3. q.on \notin Templates => chosen.template # q.on
          BY <1>c, <2>1, <2>5, TablesAssumption DEF Shaped, Choice, Rows
        <4> QED BY <1>c, <3>1, <4>1, <4>2, <4>3 DEF Forget, Choice
      <3> QED BY <3>2, <3>3 DEF ChoiceIsRemembered
    <2>6. CASE q.op \notin {"assign", "delete"}
      <3>1. chosen' = chosen /\ db'.project = db.project BY <2>2, <2>3, <2>6 DEF ProjectAfter
      <3> QED BY <1>c, <2>1, <3>1 DEF SettingsInductive, ChoiceIsRemembered
    <2> QED BY <2>4, <2>5, <2>6
  <1> QED BY <1>1, <1>2

LEMMA WriteKeeps ==
  ASSUME SettingsInductive, NEW a \in Admins, NEW ok \in BOOLEAN, Write(a, ok)
  PROVE  SettingsInductive'
  <1>t. /\ db \in DbType /\ EmptyRows /\ request \in [Admins -> RequestType]
        /\ secrets \in 0 .. MaxSecrets /\ stale \in BOOLEAN /\ unset \in BOOLEAN
    BY TypeFields DEF SettingsInductive
  <1>0. VerdictIsAboutStoredKey' /\ ChoiceIsRemembered' /\ chosen' \in Choice
    BY WriteKeepsVerdict, WriteKeepsChoice
  <1>1. CASE ~Goes(request[a], ok)
    <2>1. request' = [request EXCEPT ![a] = NoRequest] /\ UNCHANGED <<db, stale, unset, secrets>>
      BY <1>1, WriteFields
    <2>2. SettingsTypeOK'
      <3>1. request' \in [Admins -> RequestType] BY <1>t, <2>1, Constants
      <3> QED BY <1>0, <1>t, <2>1, <3>1, TypeFieldsNext DEF EmptyRows
    <2>3. RequestsAreCurrent'
      <3> SUFFICES ASSUME NEW b \in Admins, request'[b].at # "none"
                   PROVE  Shaped(request'[b]) /\ (~request'[b].overtaken => Current(db', request'[b]))
        BY DEF RequestsAreCurrent
      <3>1. request'[b] = request[b] BY <1>t, <2>1, Constants
      <3> QED BY <2>1, <3>1 DEF SettingsInductive, RequestsAreCurrent
    <2>4. KeysExist' BY <2>1 DEF SettingsInductive, KeysExist, KeyExists
    <2>5. ChoiceNeedsProject'
      <3>1. NoRequest.op = "none" BY DEF NoRequest
      <3> QED BY <1>t, <2>1, <3>1 DEF SettingsInductive, ChoiceNeedsProject
    <2> QED BY <1>0, <2>2, <2>3, <2>4, <2>5 DEF SettingsInductive
  <1>2. CASE Goes(request[a], ok)
    <2> DEFINE q == request[a]
    <2>1. /\ q \in RequestType /\ q.at = "write" /\ Shaped(q)
          /\ db' = After(q, ok) /\ stale' = (stale \/ q.overtaken) /\ unset' = Unsets(q)
      BY <1>2, WriteFields
    <2>2. /\ request' = [b \in Admins |->
                 IF b = a THEN NoRequest
                 ELSE [request[b] EXCEPT !.overtaken = @ \/ Meets(q, request[b])]]
          /\ secrets' = IF q.op = "replaceKey" THEN secrets + 1 ELSE secrets
          /\ q.op = "replaceKey" => secrets < MaxSecrets
      BY <1>2 DEF Write
    <2>3. Found(q) /\ Constraints(After(q, ok)) BY <1>2 DEF Goes
    <2> HIDE DEF q
    <2>4. \A b \in Admins : b # a =>
             /\ request'[b] = [request[b] EXCEPT !.overtaken = @ \/ Meets(q, request[b])]
             /\ request'[b] \in RequestType
      <3>1. \A m \in BOOLEAN, p \in RequestType : [p EXCEPT !.overtaken = @ \/ m] \in RequestType
        BY DEF RequestType
      <3>2. \A p : Meets(q, p) \in BOOLEAN BY DEF Meets
      <3> QED BY <1>t, <2>2, <3>1, <3>2
    <2>5. SettingsTypeOK'
      <3>1. request' \in [Admins -> RequestType] BY <2>2, <2>4, Constants
      <3>2. db' \in DbType /\ EmptyRows'
        BY <1>t, <2>1, <2>2, <2>3, AfterType DEF EmptyRows
      <3>3. secrets' \in 0 .. MaxSecrets BY <1>t, <2>2, MaxSecretsAssumption
      <3>4. stale' \in BOOLEAN /\ unset' \in BOOLEAN
        BY <1>t, <2>1 DEF Unsets, RequestType, RowType
      <3> QED BY <1>0, <3>1, <3>2, <3>3, <3>4, TypeFieldsNext
    <2>6. RequestsAreCurrent'
      <3> SUFFICES ASSUME NEW b \in Admins, request'[b].at # "none"
                   PROVE  Shaped(request'[b]) /\ (~request'[b].overtaken => Current(db', request'[b]))
        BY DEF RequestsAreCurrent
      <3>1. b # a BY <2>2, Constants
      <3>2. PICK p \in RequestType : p = request[b] BY <1>t
      <3>3. PICK p2 \in RequestType : p2 = request'[b] BY <2>4, <3>1
      <3>4. p2 = [p EXCEPT !.overtaken = @ \/ Meets(q, p)] BY <2>4, <3>1, <3>2, <3>3
      <3>5. /\ p2.op = p.op /\ p2.on = p.on /\ p2.want = p.want /\ p2.seen = p.seen
            /\ p2.column = p.column /\ p2.seenKey = p.seenKey /\ p2.seenProject = p.seenProject
            /\ p2.others = p.others /\ p2.at = p.at
            /\ ~p2.overtaken => ~p.overtaken /\ ~Meets(q, p)
        BY <3>4 DEF RequestType
      <3>6. Shaped(p) /\ (~p.overtaken => Current(db, p))
        BY <3>2, <3>3, <3>5 DEF SettingsInductive, RequestsAreCurrent
      <3>7. Shaped(p2) BY <3>5, <3>6 DEF Shaped
      <3>8. ASSUME ~p2.overtaken PROVE Current(db', p2)
        <4>1. Current(After(q, ok), p)
          BY <1>t, <2>1, <3>2, <3>3, <3>5, <3>6, <3>8, Undisturbed
        <4>2. Current(db', p) BY <2>1, <4>1
        <4> QED BY <3>5, <4>2 DEF Current, OnTemplates
      <3> QED BY <3>3, <3>7, <3>8
    <2>7. KeysExist' BY <2>1, <2>3 DEF Constraints, KeysExist
    <2>8. ChoiceNeedsProject'
      <3>1. db'.project = ProjectAfter(q) BY <2>1, AfterParts
      <3>2. db.project \in Choice BY <1>t DEF DbType
      <3>3. /\ db'.project.exists = db.project.exists
            /\ ~db'.project.exists => db'.project.template = Nothing
        <4>1. CASE q.op = "assign"
          <5>1. db.project.exists BY <4>1 DEF SettingsInductive, ChoiceNeedsProject, q
          <5>2. db'.project = [db.project EXCEPT ![q.column] = q.on]
            BY <3>1, <4>1 DEF ProjectAfter
          <5>3. q.column \in {"profile", "template"} BY <2>1 DEF RequestType
          <5> QED BY <3>2, <5>1, <5>2, <5>3 DEF Choice
        <4>2. CASE q.op = "delete"
          <5>1. db'.project = Forget(db, q) BY <3>1, <4>2 DEF ProjectAfter
          <5> QED BY <3>2, <5>1 DEF Forget, Choice, SettingsInductive, ChoiceNeedsProject
        <4>3. CASE q.op \notin {"assign", "delete"}
          BY <3>1, <4>3 DEF ProjectAfter, SettingsInductive, ChoiceNeedsProject
        <4> QED BY <4>1, <4>2, <4>3
      <3>4. ASSUME NEW b \in Admins, request'[b].op = "assign" PROVE db.project.exists
        <4>1. b # a BY <2>2, <3>4 DEF NoRequest
        <4>2. request[b].op = "assign" BY <1>t, <2>4, <3>4, <4>1 DEF RequestType
        <4> QED BY <4>2 DEF SettingsInductive, ChoiceNeedsProject
      <3> QED BY <3>3, <3>4 DEF ChoiceNeedsProject
    <2> QED BY <1>0, <2>5, <2>6, <2>7, <2>8 DEF SettingsInductive
  <1> QED BY <1>1, <1>2

LEMMA OthersKeep ==
  ASSUME SettingsInductive, CreateProject \/ Boot \/ (\E k \in Keys : CreateKey(k))
  PROVE  SettingsInductive'
  <1>t. /\ db \in DbType /\ EmptyRows /\ request \in [Admins -> RequestType]
        /\ secrets \in 0 .. MaxSecrets /\ stale \in BOOLEAN /\ unset \in BOOLEAN
        /\ chosen \in Choice
    BY TypeFields DEF SettingsInductive
  <1>1. CASE CreateProject
    <2> DEFINE p == {r \in Default(Profiles) : db.row[r].enabled}
               new == [NoProject EXCEPT !.exists = TRUE,
                                        !.profile = IF p = {} THEN Nothing ELSE CHOOSE r \in p : TRUE]
    <2>1. /\ db' = [db EXCEPT !.project = new] /\ chosen' = new
          /\ UNCHANGED <<request, secrets, unset, stale>> /\ ~db.project.exists
      BY <1>1 DEF CreateProject
    <2>2. new \in Choice /\ new.template = Nothing
      <3>1. p \subseteq Profiles BY DEF Default
      <3>2. (IF p = {} THEN Nothing ELSE CHOOSE r \in p : TRUE) \in Profiles \cup {Nothing}
        BY <3>1
      <3> HIDE DEF p
      <3> QED BY <3>2, Constants DEF NoProject, Choice
    <2> HIDE DEF new
    <2>3. db' \in DbType /\ db'.row = db.row /\ db'.key = db.key /\ db'.project = new
      BY <1>t, <2>1, <2>2 DEF DbType
    <2>4. SettingsTypeOK' BY <1>t, <2>1, <2>2, <2>3, TypeFieldsNext DEF EmptyRows
    <2>5. RequestsAreCurrent'
      <3> SUFFICES ASSUME NEW b \in Admins, request'[b].at # "none"
                   PROVE  Shaped(request'[b]) /\ (~request'[b].overtaken => Current(db', request'[b]))
        BY DEF RequestsAreCurrent
      <3>1. PICK q \in RequestType : q = request[b] /\ q = request'[b] BY <1>t, <2>1
      <3>2. Shaped(q) /\ (~q.overtaken => Current(db, q))
        BY <3>1 DEF SettingsInductive, RequestsAreCurrent
      <3>3. db.project.template = Nothing BY <2>1 DEF SettingsInductive, ChoiceNeedsProject
      <3>4. Current(db, q) => Current(db', q) BY <2>2, <2>3, <3>3 DEF Current
      <3> QED BY <3>1, <3>2, <3>4
    <2>6. KeysExist' /\ VerdictIsAboutStoredKey' /\ ChoiceIsRemembered'
      BY <2>1, <2>3
         DEF SettingsInductive, KeysExist, KeyExists, VerdictIsAboutStoredKey, ChoiceIsRemembered
    <2>7. ChoiceNeedsProject'
      <3>1. \A a \in Admins : request'[a].op # "assign"
        BY <2>1 DEF SettingsInductive, ChoiceNeedsProject
      <3> QED BY <2>2, <2>3, <3>1 DEF ChoiceNeedsProject
    <2> QED BY <2>4, <2>5, <2>6, <2>7 DEF SettingsInductive
  <1>2. CASE Boot
    <2>1. /\ request' = [a \in Admins |-> NoRequest]
          /\ db' = [db EXCEPT !.row = [r \in Rows |->
                      IF r \in Builtins /\ ~@[r].exists
                      THEN RowWith(TRUE, r = FirstBuiltin /\ SeedsFirstAsDefault, Nothing) ELSE @[r]]]
          /\ UNCHANGED <<secrets, chosen, unset, stale>>
      BY <1>2 DEF Boot
    <2>2. \A r \in Rows :
             /\ db'.row[r] \in RowType /\ (~db'.row[r].exists => db'.row[r] = NoRow)
             /\ r \in Profiles => db'.row[r] = db.row[r]
      <3> TAKE r \in Rows
      <3>1. db'.row[r] = IF r \in Builtins /\ ~db.row[r].exists
                         THEN RowWith(TRUE, r = FirstBuiltin /\ SeedsFirstAsDefault, Nothing)
                         ELSE db.row[r]
        BY <1>t, <2>1 DEF DbType
      <3>2. ASSUME NEW default \in BOOLEAN
            PROVE  RowWith(TRUE, default, Nothing) \in RowType /\ RowWith(TRUE, default, Nothing).exists
        BY DEF RowWith, RowType
      <3>3. r \in Profiles => r \notin Builtins BY BuiltinsAssumption, TablesAssumption
      <3> QED BY <1>t, <3>1, <3>2, <3>3 DEF DbType, EmptyRows
    <2>3. db' \in DbType /\ EmptyRows' /\ db'.key = db.key /\ db'.project = db.project
      BY <1>t, <2>1, <2>2 DEF DbType, EmptyRows
    <2>4. request' \in [Admins -> RequestType] /\ \A a \in Admins : request'[a].at = "none"
      BY <2>1, Constants
    <2>5. SettingsTypeOK' BY <1>t, <2>1, <2>3, <2>4, TypeFieldsNext
    <2>6. RequestsAreCurrent' BY <2>4 DEF RequestsAreCurrent
    <2>7. KeysExist' BY <2>2, <2>3 DEF SettingsInductive, KeysExist, KeyExists, Rows
    <2>8. VerdictIsAboutStoredKey' /\ ChoiceIsRemembered'
      BY <2>1, <2>3 DEF SettingsInductive, VerdictIsAboutStoredKey, ChoiceIsRemembered
    <2>9. ChoiceNeedsProject'
      <3>1. \A a \in Admins : request'[a].op = "none" BY <2>1 DEF NoRequest
      <3> QED BY <2>3, <3>1 DEF SettingsInductive, ChoiceNeedsProject
    <2> QED BY <2>5, <2>6, <2>7, <2>8, <2>9 DEF SettingsInductive
  <1>3. ASSUME NEW k \in Keys, CreateKey(k) PROVE SettingsInductive'
    <2> DEFINE new == [NoKey EXCEPT !.secret = secrets + 1]
    <2>1. /\ db' = [db EXCEPT !.key[k] = new] /\ secrets' = secrets + 1
          /\ db.key[k].secret = 0 /\ secrets < MaxSecrets
          /\ UNCHANGED <<request, chosen, unset, stale>>
      BY <1>3 DEF CreateKey
    <2>2. secrets' \in 0 .. MaxSecrets BY <1>t, <2>1, MaxSecretsAssumption
    <2>3. new \in KeyType /\ new.verdict = "untested" /\ new.secret > 0
      BY <1>t, <2>1, <2>2, Constants DEF NoKey, KeyType
    <2> HIDE DEF new
    <2>4. /\ db' \in DbType /\ db'.row = db.row /\ db'.project = db.project
          /\ \A j \in Keys : db'.key[j] = IF j = k THEN new ELSE db.key[j]
      BY <1>t, <2>1, <2>3 DEF DbType
    <2>5. SettingsTypeOK' BY <1>t, <2>1, <2>2, <2>4, TypeFieldsNext DEF EmptyRows
    <2>6. RequestsAreCurrent'
      <3> SUFFICES ASSUME NEW b \in Admins, request'[b].at # "none"
                   PROVE  Shaped(request'[b]) /\ (~request'[b].overtaken => Current(db', request'[b]))
        BY DEF RequestsAreCurrent
      <3>1. PICK q \in RequestType : q = request[b] /\ q = request'[b] BY <1>t, <2>1
      <3>2. Shaped(q) /\ (~q.overtaken => Current(db, q))
        BY <3>1 DEF SettingsInductive, RequestsAreCurrent
      <3>3. q.op = "replaceKey" => q.on \in Keys BY <3>2 DEF Shaped
      <3>4. q.op = "test" => q.seen.key \in Keys BY <3>2 DEF Shaped
      <3>5. Current(db, q) => Current(db', q) BY <2>1, <2>4, <3>3, <3>4 DEF Current
      <3> QED BY <3>1, <3>2, <3>5
    <2>7. KeysExist'
      <3>1. \A p \in Profiles : db.row[p].key \in Keys \cup {Nothing}
        BY <1>t DEF DbType, RowType, Rows
      <3> QED BY <2>3, <2>4, <3>1 DEF SettingsInductive, KeysExist, KeyExists
    <2>8. VerdictIsAboutStoredKey' /\ ChoiceIsRemembered'
      BY <2>1, <2>3, <2>4 DEF SettingsInductive, VerdictIsAboutStoredKey, ChoiceIsRemembered
    <2>9. ChoiceNeedsProject' BY <2>1, <2>4 DEF SettingsInductive, ChoiceNeedsProject
    <2> QED BY <2>5, <2>6, <2>7, <2>8, <2>9 DEF SettingsInductive
  <1> QED BY <1>1, <1>2, <1>3

LEMMA SettingsInductiveInit == SettingsInit => SettingsInductive
  <1> SUFFICES ASSUME SettingsInit PROVE SettingsInductive OBVIOUS
  <1>1. \A r \in Rows : db.row[r] = IF r \in Builtins THEN RowWith(TRUE, r = FirstBuiltin, Nothing)
                                    ELSE NoRow
    BY DEF SettingsInit
  <1>2. \A default \in BOOLEAN :
           RowWith(TRUE, default, Nothing) \in RowType /\ RowWith(TRUE, default, Nothing).exists
    BY DEF RowWith, RowType
  <1>3. db \in DbType /\ EmptyRows
    <2>1. \A r \in Rows : db.row[r] \in RowType /\ (~db.row[r].exists => db.row[r] = NoRow)
      BY <1>1, <1>2, Constants
    <2>2. db.key \in [Keys -> KeyType] /\ db.project \in Choice BY Constants DEF SettingsInit
    <2> QED BY <2>1, <2>2 DEF SettingsInit, DbType, EmptyRows
  <1>4. SettingsTypeOK
    BY <1>3, TypeFields, Constants DEF SettingsInit, DbType
  <1>5. KeysExist
    <2>1. \A p \in Profiles : p \notin Builtins BY BuiltinsAssumption, TablesAssumption
    <2> QED BY <1>1, <2>1, Constants DEF KeysExist, Rows
  <1>6. RequestsAreCurrent BY Constants DEF SettingsInit, RequestsAreCurrent
  <1>7. ChoiceNeedsProject /\ ChoiceIsRemembered
    BY DEF SettingsInit, ChoiceNeedsProject, ChoiceIsRemembered, NoRequest, NoProject
  <1>8. VerdictIsAboutStoredKey BY DEF SettingsInit, VerdictIsAboutStoredKey, NoKey
  <1> QED BY <1>4, <1>5, <1>6, <1>7, <1>8 DEF SettingsInductive

LEMMA SettingsStep ==
  ASSUME SettingsInductive, [SettingsNext]_settingsVars
  PROVE  SettingsInductive'
  <1>1. CASE UNCHANGED settingsVars
    BY <1>1
       DEF settingsVars, SettingsInductive, SettingsTypeOK, KeysExist, KeyExists,
           RequestsAreCurrent, ChoiceNeedsProject, ChoiceIsRemembered, VerdictIsAboutStoredKey
  <1> QED BY <1>1, RequestEnters, CollectKeeps, WriteKeeps, OthersKeep DEF SettingsNext

-----------------------------------------------------------------------------
(* The theorems *)

\* What a request has read is still so unless another write has marked it as
\* overtaken, in every reachable state of the settings (settings.py, providers.py).
THEOREM SettingsInvariant == SettingsSpec => []SettingsInductive
  <1>1. SettingsInductive /\ [SettingsNext]_settingsVars => SettingsInductive' BY SettingsStep
  <1> QED BY <1>1, SettingsInductiveInit, PTL DEF SettingsSpec

\* The verdict of a connection test is about the secret that is stored, over any
\* sequence of tests, replacements, deletions and restarts of the settings, as long as
\* no request has written on what was no longer so. Nothing is said of a test that
\* overlaps with a replacement (providers.py 405-434, settings.py 447-457).
THEOREM VerdictsAreAboutStoredKeys == SettingsSpec => []VerdictIsAboutStoredKey
  <1>1. SettingsInductive => VerdictIsAboutStoredKey BY DEF SettingsInductive
  <1> QED BY <1>1, SettingsInvariant, PTL

\* A run uses the template chosen for the project while that can be used, as long
\* as no request has written on what was no longer so, which excludes requests that
\* overlap; and always none that cannot be used (prompts.py 312-337).
THEOREM ChosenPromptsAreUsed == SettingsSpec => []ChosenPromptIsUsed
  <1>1. ASSUME SettingsInductive PROVE ChosenPromptIsUsed
    <2>1. db.project.template \in Templates \cup {Nothing}
      BY <1>1, TypeFields DEF SettingsInductive, DbType, Choice
    <2>2. ASSUME ~stale, Usable({chosen.template}) # {} PROVE Prompt = chosen.template
      <3>1. db.project.template = chosen.template
        BY <1>1, <2>2 DEF SettingsInductive, ChoiceIsRemembered
      <3>2. Usable({chosen.template}) = {chosen.template} BY <2>2 DEF Usable
      <3> QED BY <3>1, <3>2 DEF Prompt
    <2>3. ASSUME Prompt # "built-in" PROVE Prompt \in Usable(Templates)
      <3>1. Prompt \in Usable({db.project.template}) \/ Prompt \in Usable(Default(Templates))
        BY <2>3 DEF Prompt
      <3> QED BY <2>1, <3>1 DEF Usable, Default
    <2> QED BY <2>2, <2>3 DEF ChosenPromptIsUsed
  <1> QED BY <1>1, SettingsInvariant, PTL

LEMMA WriteKeepsDefault ==
  ASSUME SettingsInductive, NEW a \in Admins, NEW ok \in BOOLEAN, Write(a, ok),
         NEW table \in {Profiles, Templates}, Default(table) # {}, ~stale', ~unset'
  PROVE  Default(table)' # {}
  <1>t. db \in DbType BY TypeFields DEF SettingsInductive
  <1>1. CASE ~Goes(request[a], ok) BY <1>1, WriteFields DEF Default
  <1>2. CASE Goes(request[a], ok)
    <2>0. PICK q \in RequestType : q = request[a] BY WriteFields
    <2>1. /\ Shaped(q) /\ Current(db, q) /\ db' = After(q, ok) /\ ~Unsets(q)
      BY <1>2, <2>0, WriteFields
    <2>2. PICK r \in table : db.row[r].default BY DEF Default
    <2>3. r \in Rows BY DEF Rows
    <2>4. \A s \in Rows : db'.row[s] = RowAfter(q, s)
      <3>1. After(q, ok).row = [s \in Rows |-> RowAfter(q, s)] BY AfterParts
      <3>2. db'.row = After(q, ok).row BY <2>1
      <3> QED BY <3>1, <3>2
    <2> SUFFICES \E s \in table : RowAfter(q, s).default BY <2>4 DEF Default, Rows
    <2>5. CASE r # q.on /\ r \notin q.others
      BY <2>2, <2>5 DEF RowAfter
    <2>6. CASE r \in q.others
      <3>1. /\ q.want.default /\ q.op \in {"create", "update"}
            /\ q.on \in Rows /\ r \in Table(q.on)
        BY <2>6, <2>1 DEF Shaped
      <3>2. q.on \in table BY <2>2, <3>1, TablesAssumption DEF Table, Rows
      <3>3. q.want \in RowType /\ q.seen \in RowType /\ db.row[q.on] \in RowType
        BY <1>t, <3>1 DEF RequestType, DbType
      <3>4. RowAfter(q, q.on) = q.want
        <4>1. CASE q.op = "create" BY <4>1 DEF RowAfter
        <4>2. CASE q.op = "update"
          <5>1. RowAfter(q, q.on) = Changed(db.row[q.on], q.seen, q.want) BY <4>2 DEF RowAfter
          <5>2. q.seen = db.row[q.on] BY <2>1, <4>2 DEF Current
          <5> QED BY <3>3, <5>1, <5>2, ChangedColumns
        <4> QED BY <3>1, <4>1, <4>2
      <3> QED BY <3>1, <3>2, <3>4
    <2>7. CASE r = q.on
      <3>1. q.op \notin {"create", "update", "delete"} => RowAfter(q, r) = db.row[r]
        BY <2>7 DEF RowAfter
      <3>2. q.op # "delete" BY <2>1, <2>2, <2>7 DEF Current
      <3>3. q.op # "create"
        <4>1. q.op = "create" => ~db.row[q.on].exists BY <1>2, <2>0 DEF Goes, Found
        <4> QED BY <2>2, <2>3, <2>7, <4>1, Constants, TypeFields DEF SettingsInductive, EmptyRows
      <3>4. ASSUME q.op = "update" PROVE RowAfter(q, r).default
        <4>1. RowAfter(q, r) = Changed(db.row[r], q.seen, q.want) BY <2>7, <3>4 DEF RowAfter
        <4>2. q.seen = db.row[r] BY <2>1, <2>7, <3>4 DEF Current
        <4>3. q.want \in RowType /\ q.seen \in RowType BY DEF RequestType
        <4>4. RowAfter(q, r) = q.want BY <4>1, <4>2, <4>3, ChangedColumns
        <4> QED BY <2>1, <2>2, <3>4, <4>2, <4>4 DEF Unsets
      <3> QED BY <2>2, <3>1, <3>2, <3>3, <3>4
    <2> QED BY <2>5, <2>6, <2>7
  <1> QED BY <1>1, <1>2

\* A default, once there is one, is lost only to a request that takes its mark
\* off, or to one that writes on what was no longer so (providers.py 594-632).
THEOREM DefaultsAreKept == SettingsSpec => DefaultIsKept
  <1>1. ASSUME SettingsInductive, [SettingsNext]_settingsVars,
               NEW table \in {Profiles, Templates}, Default(table) # {}, Default(table)' = {}
        PROVE  unset' \/ stale'
    <2>1. CASE \E a \in Admins, ok \in BOOLEAN : Write(a, ok)
      BY <1>1, <2>1, WriteKeepsDefault
    <2>2. CASE Boot
      <3>1. ASSUME NEW r \in table, db.row[r].default PROVE db'.row[r].default
        <4>1. r \in Rows /\ db.row \in [Rows -> RowType] BY <1>1, TypeFields DEF Rows, SettingsInductive, DbType
        <4>2. db.row[r].exists
          BY <1>1, <3>1, <4>1, Constants, TypeFields DEF SettingsInductive, EmptyRows
        <4>3. db'.row[r] = db.row[r]
          BY <1>1, <2>2, <4>1, <4>2, TypeFields DEF Boot, SettingsInductive, DbType
        <4> QED BY <3>1, <4>3
      <3> QED BY <1>1, <3>1 DEF Default
    <2>3. CASE UNCHANGED db BY <1>1, <2>3 DEF Default
    <2>4. CASE CreateProject \/ \E k \in Keys : CreateKey(k)
      <3>1. db'.row = db.row
        BY <1>1, <2>4, TypeFields DEF CreateProject, CreateKey, SettingsInductive, DbType
      <3> QED BY <1>1, <3>1 DEF Default
    <2>5. ASSUME NEW a \in Admins, Collect(a) PROVE UNCHANGED db BY <2>5 DEF Collect
    <2>6. ASSUME NEW a \in Admins,
                 \/ \E r \in Rows :
                      \/ \E want \in Wanted(r) : CreateRow(a, r, want) \/ UpdateRow(a, r, want)
                      \/ SetDefault(a, r) \/ DeleteRow(a, r)
                 \/ \E k \in Keys : ReplaceKey(a, k) \/ DeleteKey(a, k)
                 \/ \E p \in Profiles : TestProfile(a, p)
                 \/ \E t \in {Profiles, Templates} : \E r \in t \cup {Nothing} : Assign(a, t, r)
          PROVE  UNCHANGED db
      BY <2>6 DEF CreateRow, UpdateRow, SetDefault, DeleteRow, ReplaceKey, DeleteKey, TestProfile,
                  Assign, Enters
    <2> QED BY <1>1, <2>1, <2>2, <2>3, <2>4, <2>5, <2>6 DEF SettingsNext, settingsVars
  <1>2. SettingsInductive /\ [SettingsNext]_settingsVars =>
           [\A table \in {Profiles, Templates} :
              Default(table) # {} /\ Default(table)' = {} => unset' \/ stale']_settingsVars
    BY <1>1
  <1> QED BY <1>2, SettingsInvariant, PTL DEF SettingsSpec, DefaultIsKept

-----------------------------------------------------------------------------
(* The event stream: sequences of events *)

LEMMA EventIds ==
  /\ \A e \in Events : e.id \in Nat
  /\ \A s \in Seq(Events) : /\ Len(s) \in Nat
                            /\ \A i \in 1 .. Len(s) : s[i] \in Events /\ s[i].id \in Nat
  <1>1. \A e \in Events : e.id \in Nat BY DEF Events
  <1>2. ASSUME NEW s \in Seq(Events)
        PROVE  /\ Len(s) \in Nat
               /\ \A i \in 1 .. Len(s) : s[i] \in Events
    BY ElementOfSeq, LenProperties
  <1> QED BY <1>1, <1>2

LEMMA AppendOrder ==
  ASSUME NEW s \in Seq(Events), NEW e \in Events
  PROVE  /\ Append(s, e) \in Seq(Events) /\ Len(Append(s, e)) = Len(s) + 1
         /\ Append(s, e)[Len(s) + 1] = e
         /\ \A i \in 1 .. Len(s) : Append(s, e)[i] = s[i]
         /\ \A n \in Nat : AllAfter(s, n) /\ e.id > n => AllAfter(Append(s, e), n)
         /\ \A n \in Nat : /\ Increasing(s) /\ NoneAfter(s, n) /\ n < e.id
                           => /\ Increasing(Append(s, e))
                              /\ NoneAfter(Append(s, e), e.id)
  <1> DEFINE r == Append(s, e)
  <1>1. /\ r \in Seq(Events) /\ Len(r) = Len(s) + 1 /\ Len(s) \in Nat
        /\ r[Len(s) + 1] = e /\ \A i \in 1 .. Len(s) : r[i] = s[i]
    BY AppendProperties
  <1> HIDE DEF r
  <1>2. \A i \in 1 .. Len(r) : i \in 1 .. Len(s) \/ i = Len(s) + 1 BY <1>1
  <1>3. \A n \in Nat : AllAfter(s, n) /\ e.id > n => AllAfter(r, n) BY <1>1, <1>2 DEF AllAfter
  <1>4. ASSUME NEW n \in Nat, Increasing(s), NoneAfter(s, n), n < e.id
        PROVE  Increasing(r) /\ NoneAfter(r, e.id)
    <2>1. \A i \in 1 .. Len(s) : s[i].id \in Nat /\ s[i].id <= n
      BY <1>4, EventIds DEF NoneAfter
    <2>2. e.id \in Nat BY EventIds
    <2>3. ASSUME NEW i \in 1 .. Len(r), NEW j \in 1 .. Len(r), i < j PROVE r[i].id < r[j].id
      <3>1. i \in 1 .. Len(s) BY <1>1, <1>2, <2>3
      <3>2. CASE j \in 1 .. Len(s) BY <1>1, <1>4, <2>3, <3>1, <3>2 DEF Increasing
      <3>3. CASE j = Len(s) + 1
        <4>1. r[j] = e /\ r[i] = s[i] BY <1>1, <3>1, <3>3
        <4> QED BY <1>4, <2>1, <2>2, <3>1, <4>1
      <3> QED BY <1>2, <3>2, <3>3
    <2>4. NoneAfter(r, e.id)
      <3>1. ASSUME NEW i \in 1 .. Len(r) PROVE r[i].id <= e.id
        <4>1. CASE i \in 1 .. Len(s)
          <5>1. r[i] = s[i] BY <1>1, <4>1
          <5> QED BY <1>4, <2>1, <2>2, <4>1, <5>1
        <4>2. CASE i = Len(s) + 1 BY <1>1, <2>2, <4>2
        <4> QED BY <1>2, <4>1, <4>2
      <3> QED BY <3>1 DEF NoneAfter
    <2> QED BY <2>3, <2>4 DEF Increasing
  <1> QED BY <1>1, <1>3, <1>4 DEF r

LEMMA TailOrder ==
  ASSUME NEW s \in Seq(Events), s # << >>
  PROVE  /\ Tail(s) \in Seq(Events) /\ Len(Tail(s)) = Len(s) - 1 /\ Len(s) \in Nat \ {0}
         /\ \A i \in 1 .. Len(Tail(s)) : Tail(s)[i] = s[i + 1]
         /\ Head(s) \in Events /\ Head(s) = s[1]
         /\ Increasing(s) => Increasing(Tail(s)) /\ AllAfter(Tail(s), Head(s).id)
         /\ \A n \in Nat : AllAfter(s, n) => AllAfter(Tail(s), n) /\ Head(s).id > n
         /\ \A n \in Nat : NoneAfter(s, n) => NoneAfter(Tail(s), n) /\ Head(s).id <= n
  <1> DEFINE r == Tail(s)
  <1>1. /\ r \in Seq(Events) /\ Len(r) = Len(s) - 1 /\ Len(s) \in Nat \ {0}
        /\ \A i \in 1 .. Len(r) : r[i] = s[i + 1]
        /\ Head(s) = s[1]
    BY HeadTailProperties, EmptySeq
  <1> HIDE DEF r
  <1>2. 1 \in 1 .. Len(s) /\ \A i \in 1 .. Len(r) : i + 1 \in 1 .. Len(s) BY <1>1
  <1>3. Head(s) \in Events BY HeadTailProperties
  <1>4. ASSUME Increasing(s) PROVE Increasing(r) /\ AllAfter(r, Head(s).id)
    <2>1. \A i \in 1 .. Len(s) : s[i].id \in Nat BY EventIds
    <2>2. ASSUME NEW i \in 1 .. Len(r), NEW j \in 1 .. Len(r), i < j PROVE r[i].id < r[j].id
      BY <1>1, <1>2, <1>4, <2>2 DEF Increasing
    <2>3. ASSUME NEW i \in 1 .. Len(r) PROVE r[i].id > Head(s).id
      <3>1. 1 < i + 1 BY <1>1
      <3>2. s[1].id < s[i + 1].id BY <1>2, <1>4, <3>1 DEF Increasing
      <3> QED BY <1>1, <1>2, <2>1, <3>2
    <2> QED BY <2>2, <2>3 DEF Increasing, AllAfter
  <1>5. \A n \in Nat : AllAfter(s, n) => AllAfter(r, n) /\ Head(s).id > n
    BY <1>1, <1>2 DEF AllAfter
  <1>6. \A n \in Nat : NoneAfter(s, n) => NoneAfter(r, n) /\ Head(s).id <= n
    BY <1>1, <1>2 DEF NoneAfter
  <1> QED BY <1>1, <1>3, <1>4, <1>5, <1>6 DEF r

LEMMA EmptyOrder ==
  /\ << >> \in Seq(Events) /\ Len(<< >>) = 0 /\ Increasing(<< >>)
  /\ \A n : NoneAfter(<< >>, n) /\ AllAfter(<< >>, n)
  BY DEF Increasing, NoneAfter, AllAfter

\* What is left of a sequence without its first n elements (SubSeq in Replay).
LEMMA RestOfSequence ==
  ASSUME NEW S, NEW s \in Seq(S), NEW n \in 0 .. Len(s)
  PROVE  /\ SubSeq(s, n + 1, Len(s)) \in Seq(S)
         /\ Len(SubSeq(s, n + 1, Len(s))) = Len(s) - n
         /\ \A i \in 1 .. (Len(s) - n) : SubSeq(s, n + 1, Len(s))[i] = s[n + i]
  <1>1. Len(s) \in Nat /\ n \in Nat /\ n <= Len(s) BY LenProperties
  <1>2. n + 1 \in Int /\ Len(s) \in Int BY <1>1
  <1>3. \A i \in (n + 1) .. Len(s) : s[i] \in S BY <1>1, LenProperties
  <1> DEFINE r == SubSeq(s, n + 1, Len(s))
  <1>4. /\ r \in Seq(S)
        /\ Len(r) = IF n + 1 <= Len(s) THEN Len(s) - (n + 1) + 1 ELSE 0
        /\ \A i \in 1 .. (Len(s) - (n + 1) + 1) : r[i] = s[(n + 1) + i - 1]
    BY <1>2, <1>3, SubSeqProperties
  <1> HIDE DEF r
  <1>5. Len(r) = Len(s) - n BY <1>1, <1>4
  <1>6. ASSUME NEW i \in 1 .. (Len(s) - n) PROVE r[i] = s[n + i]
    <2>1. i \in 1 .. (Len(s) - (n + 1) + 1) /\ (n + 1) + i - 1 = n + i BY <1>1
    <2>2. r[i] = s[(n + 1) + i - 1] BY <1>4, <2>1
    <2> QED BY <2>1, <2>2
  <1>7. r \in Seq(S) /\ Len(r) = Len(s) - n /\ \A i \in 1 .. (Len(s) - n) : r[i] = s[n + i]
    BY <1>4, <1>5, <1>6
  <1> QED BY <1>7 DEF r

\* The events after a cursor are a suffix of the history.
LEMMA ReplayOrder ==
  ASSUME StreamTypeOK, BrokerInOrder, NEW cursor \in Nat
  PROVE  /\ Replay(cursor) \in Seq(Events)
         /\ Increasing(Replay(cursor)) /\ AllAfter(Replay(cursor), cursor)
         /\ NoneAfter(Replay(cursor), broker.seq)
  <1>1. CASE cursor = NoCursor
    <2>1. Replay(cursor) = << >> BY <1>1 DEF Replay
    <2> QED BY <2>1, EmptyOrder
  <1>2. CASE cursor # NoCursor
    <2>1. PICK h : h = broker.history OBVIOUS
    <2>2. PICK l : l = Len(h) OBVIOUS
    <2>3. PICK first : first = broker.seq - l OBVIOUS
    <2>4. /\ h \in Seq(Events) /\ l \in Nat /\ first \in Int
          /\ \A i \in 1 .. l : h[i].id = first + i
      BY <2>1, <2>2, <2>3 DEF StreamTypeOK, BrokerInOrder
    <2> DEFINE P(n) == \A i \in 1 .. l : h[i].id > cursor <=> i > n
    <2>5. \E n \in 0 .. l : P(n)
      <3>1. CASE cursor <= first
        <4>1. 0 \in 0 .. l BY <2>4
        <4>2. P(0) BY <2>4, <3>1
        <4> QED BY <4>1, <4>2
      <3>2. CASE first < cursor /\ cursor <= first + l
        <4>1. cursor - first \in 0 .. l BY <2>4, <3>2
        <4>2. P(cursor - first) BY <2>4, <3>2
        <4> QED BY <4>1, <4>2
      <3>3. CASE cursor > first + l
        <4>1. l \in 0 .. l BY <2>4
        <4>2. P(l) BY <2>4, <3>3
        <4> QED BY <4>1, <4>2
      <3>4. cursor <= first \/ (first < cursor /\ cursor <= first + l) \/ cursor > first + l
        BY <2>4
      <3> HIDE DEF P
      <3> QED BY <3>1, <3>2, <3>3, <3>4
    <2> DEFINE old == CHOOSE n \in 0 .. l : P(n)
    <2>6. old \in 0 .. l /\ P(old) BY <2>5
    <2>7. Replay(cursor) = SubSeq(h, old + 1, l) BY <1>2, <2>1, <2>2 DEF Replay
    <2> HIDE DEF old
    <2> DEFINE r == SubSeq(h, old + 1, l)
    <2>8. /\ r \in Seq(Events) /\ Len(r) = l - old
          /\ \A i \in 1 .. (l - old) : r[i] = h[old + i]
      <3>1. h \in Seq(Events) /\ l = Len(h) /\ old \in 0 .. Len(h) BY <2>2, <2>4, <2>6
      <3> QED BY <3>1, RestOfSequence
    <2> HIDE DEF r
    <2>9. \A i \in 1 .. Len(r) : old + i \in 1 .. l /\ old + i > old BY <2>4, <2>6, <2>8
    <2>10. AllAfter(r, cursor) BY <2>6, <2>8, <2>9 DEF AllAfter
    <2>11. ASSUME NEW i \in 1 .. Len(r), NEW j \in 1 .. Len(r), i < j PROVE r[i].id < r[j].id
      <3>1. r[i].id = first + (old + i) /\ r[j].id = first + (old + j)
        BY <2>4, <2>8, <2>9
      <3> QED BY <2>4, <2>6, <2>11, <3>1
    <2>12. NoneAfter(r, broker.seq)
      <3>1. ASSUME NEW i \in 1 .. Len(r) PROVE r[i].id <= first + l
        <4>1. r[i].id = first + (old + i) /\ old + i <= l BY <2>4, <2>6, <2>8, <2>9
        <4> QED BY <2>4, <2>6, <4>1
      <3>2. first + l = broker.seq BY <2>3, <2>4 DEF StreamTypeOK
      <3> QED BY <3>1, <3>2 DEF NoneAfter
    <2> QED BY <2>7, <2>8, <2>10, <2>11, <2>12 DEF Increasing, r
  <1> QED BY <1>1, <1>2

-----------------------------------------------------------------------------
(* The event stream: the inductive invariant *)

\* What the handlers assign to the fields of a connection.
LEMMA StreamFields ==
  ASSUME NEW t \in Streams, NEW q \in Seq(Events), NEW r \in Seq(Events), NEW n \in Nat
  PROVE  /\ LET u == [t EXCEPT !.queue = q] IN
               /\ u \in Streams /\ u.queue = q
               /\ u.state = t.state /\ u.replay = t.replay /\ u.sent = t.sent
         /\ LET u == [t EXCEPT !.replay = r, !.sent = n] IN
               /\ u \in Streams /\ u.replay = r /\ u.sent = n
               /\ u.state = t.state /\ u.queue = t.queue
         /\ LET u == [t EXCEPT !.queue = q, !.sent = n] IN
               /\ u \in Streams /\ u.queue = q /\ u.sent = n
               /\ u.state = t.state /\ u.replay = t.replay
         /\ LET u == [t EXCEPT !.state = "streaming", !.queue = q] IN
               /\ u \in Streams /\ u.state = "streaming" /\ u.queue = q
               /\ u.replay = t.replay /\ u.sent = t.sent
  BY DEF Streams

\* publish() gives out the next id; the history keeps the last events and the
\* queue of the connection stays in order, also when they are full.
LEMMA PublishOrder ==
  ASSUME StreamInOrder, NEW e \in Events, e.id = broker.seq + 1
  PROVE  /\ Remember(e) \in Seq(Events) /\ Len(Remember(e)) <= HistorySize
         /\ \A i \in 1 .. Len(Remember(e)) :
               Remember(e)[i].id = e.id - Len(Remember(e)) + i
         /\ Enqueue(e) \in Seq(Events) /\ Len(Enqueue(e)) <= QueueSize
         /\ Increasing(Enqueue(e)) /\ NoneAfter(Enqueue(e), e.id)
         /\ Dropped \in Nat
  <1>1. PICK h : h = broker.history OBVIOUS
  <1>2. PICK q : q = stream.queue OBVIOUS
  <1>3. PICK n : n = broker.seq OBVIOUS
  <1>4. /\ h \in Seq(Events) /\ q \in Seq(Events) /\ n \in Nat /\ e.id = n + 1
        /\ Len(h) \in Nat /\ Len(h) <= HistorySize
        /\ Len(q) \in Nat /\ Len(q) <= QueueSize
        /\ HistorySize \in Nat \ {0} /\ QueueSize \in Nat \ {0}
        /\ \A i \in 1 .. Len(h) : h[i].id = n - Len(h) + i
        /\ Increasing(q) /\ NoneAfter(q, n)
    BY <1>1, <1>2, <1>3, EventIds, SizesAssumption
    DEF StreamInOrder, StreamTypeOK, BrokerInOrder, Streams
  <1>5. /\ Remember(e) \in Seq(Events) /\ Len(Remember(e)) <= HistorySize
        /\ \A i \in 1 .. Len(Remember(e)) : Remember(e)[i].id = e.id - Len(Remember(e)) + i
    <2>1. CASE Len(h) = HistorySize
      <3>1. PICK t : t = Tail(h) OBVIOUS
      <3>2. /\ t \in Seq(Events) /\ Len(t) = Len(h) - 1
            /\ \A i \in 1 .. Len(t) : t[i] = h[i + 1]
        BY <1>4, <2>1, <3>1, TailOrder, EmptySeq
      <3>3. PICK r : r = Append(t, e) OBVIOUS
      <3>4. /\ r \in Seq(Events) /\ Len(r) = Len(h)
            /\ r[Len(h)] = e /\ \A i \in 1 .. (Len(h) - 1) : r[i] = h[i + 1]
        BY <1>4, <3>2, <3>3, AppendOrder
      <3>5. ASSUME NEW i \in 1 .. Len(r) PROVE r[i].id = e.id - Len(r) + i
        <4>1. CASE i = Len(h)
          <5>1. r[i] = e BY <3>4, <4>1
          <5>2. e.id \in Int /\ Len(r) = i /\ i \in Int BY <1>4, <3>4, <4>1
          <5> QED BY <5>1, <5>2
        <4>2. CASE i # Len(h)
          <5>1. i \in 1 .. (Len(h) - 1) /\ i + 1 \in 1 .. Len(h) BY <1>4, <3>4, <4>2
          <5>2. r[i] = h[i + 1] BY <3>4, <5>1
          <5>3. h[i + 1].id = n - Len(h) + (i + 1) BY <1>4, <5>1
          <5>4. i \in Int /\ Len(r) = Len(h) BY <3>4
          <5> QED BY <1>4, <5>2, <5>3, <5>4
        <4> QED BY <4>1, <4>2
      <3>6. Remember(e) = r BY <1>1, <2>1, <3>1, <3>3 DEF Remember
      <3> QED BY <1>4, <3>4, <3>5, <3>6
    <2>2. CASE Len(h) # HistorySize
      <3>1. PICK r : r = Append(h, e) OBVIOUS
      <3>2. /\ r \in Seq(Events) /\ Len(r) = Len(h) + 1
            /\ r[Len(h) + 1] = e /\ \A i \in 1 .. Len(h) : r[i] = h[i]
        BY <1>4, <3>1, AppendOrder
      <3>3. ASSUME NEW i \in 1 .. Len(r) PROVE r[i].id = e.id - Len(r) + i
        <4>1. CASE i = Len(h) + 1 BY <1>4, <3>2, <4>1
        <4>2. CASE i # Len(h) + 1
          <5>1. i \in 1 .. Len(h) BY <1>4, <3>2, <4>2
          <5> QED BY <1>4, <3>2, <5>1
        <4> QED BY <4>1, <4>2
      <3>4. Remember(e) = r BY <1>1, <2>2, <3>1 DEF Remember
      <3> QED BY <1>4, <2>2, <3>2, <3>3, <3>4
    <2> QED BY <2>1, <2>2
  <1>6. /\ Enqueue(e) \in Seq(Events) /\ Len(Enqueue(e)) <= QueueSize
        /\ Increasing(Enqueue(e)) /\ NoneAfter(Enqueue(e), e.id)
    <2>1. PICK t : t = IF Full THEN Tail(q) ELSE q OBVIOUS
    <2>2. t \in Seq(Events) /\ Len(t) < QueueSize /\ Increasing(t) /\ NoneAfter(t, n)
      <3>1. CASE Len(q) = QueueSize
        BY <1>2, <1>4, <2>1, <3>1, TailOrder, EmptySeq DEF Full
      <3>2. CASE Len(q) # QueueSize
        BY <1>2, <1>4, <2>1, <3>2 DEF Full
      <3> QED BY <3>1, <3>2
    <2>3. Enqueue(e) = Append(t, e) BY <1>2, <2>1 DEF Enqueue
    <2>4. n < e.id /\ Len(t) \in Nat BY <1>4, <2>2, EventIds
    <2>5. /\ Append(t, e) \in Seq(Events) /\ Len(Append(t, e)) = Len(t) + 1
          /\ Increasing(Append(t, e)) /\ NoneAfter(Append(t, e), e.id)
      BY <1>4, <2>2, <2>4, AppendOrder
    <2> QED BY <1>4, <2>2, <2>3, <2>4, <2>5
  <1>7. Dropped \in Nat
    <2>1. Full => Head(q).id \in Nat
      <3>1. Full => q # << >> BY <1>2, <1>4, EmptySeq DEF Full
      <3> QED BY <1>4, <3>1, TailOrder, EventIds
    <2>2. untold \in Nat BY DEF StreamInOrder, StreamTypeOK
    <2> QED BY <1>2, <2>1, <2>2 DEF Dropped
  <1> QED BY <1>5, <1>6, <1>7

\* The events of the handlers.
LEMMA EventsMade ==
  ASSUME StreamInOrder
  PROVE  /\ \A kind \in {"segment", "delta", "refresh", "over"}, s \in Segments, value \in Values :
               Event(kind, s, value) \in Events /\ Event(kind, s, value).id = broker.seq + 1
         /\ Refresh \in Events /\ Refresh.id = broker.seq + 1
         /\ Over \in Events /\ Over.id = broker.seq + 1
  <1>1. broker.seq \in Nat BY DEF StreamInOrder, StreamTypeOK
  <1>2. ASSUME NEW kind \in {"segment", "delta", "refresh", "over"}, NEW s \in Segments,
               NEW value \in Values
        PROVE  Event(kind, s, value) \in Events /\ Event(kind, s, value).id = broker.seq + 1
    BY <1>1 DEF Event, Events
  <1>3. (CHOOSE s \in Segments : TRUE) \in Segments BY SegmentsAssumption
  <1>4. 0 \in Values BY DEF Values
  <1> QED BY <1>2, <1>3, <1>4 DEF Refresh, Over, ForAll

\* What publish() leaves true of the broker and of the connection.
LEMMA PublishKeeps ==
  ASSUME StreamInOrder, NEW e \in Events, e.id = broker.seq + 1, Publish(e)
  PROVE  /\ broker' \in [seq : Nat, history : Seq(Events)]
         /\ Len(broker'.history) <= HistorySize
         /\ stream' \in Streams /\ Len(stream'.queue) <= QueueSize
         /\ BrokerInOrder' /\ untold' \in Nat
         /\ stream'.state = stream.state /\ stream'.replay = stream.replay
         /\ stream'.sent = stream.sent
         /\ stream.state = "closed" => stream' = stream
  <1>1. /\ broker \in [seq : Nat, history : Seq(Events)] /\ stream \in Streams
        /\ Len(stream.queue) <= QueueSize
        /\ Increasing(stream.queue) /\ NoneAfter(stream.queue, broker.seq)
        /\ stream.state = "closed" => stream = Closed
    BY DEF StreamInOrder, StreamTypeOK, BrokerInOrder, ConnectionInOrder
  <1>2. e.id \in Nat BY EventIds
  <1>3. broker' = [seq |-> e.id, history |-> Remember(e)] BY <1>1 DEF Publish
  <1>4. /\ Remember(e) \in Seq(Events) /\ Len(Remember(e)) <= HistorySize
        /\ \A i \in 1 .. Len(Remember(e)) : Remember(e)[i].id = e.id - Len(Remember(e)) + i
        /\ Enqueue(e) \in Seq(Events) /\ Len(Enqueue(e)) <= QueueSize
        /\ Increasing(Enqueue(e)) /\ NoneAfter(Enqueue(e), e.id)
        /\ Dropped \in Nat
    BY PublishOrder
  <1>5. /\ broker'.seq = e.id /\ broker'.history = Remember(e)
        /\ broker' \in [seq : Nat, history : Seq(Events)]
    BY <1>2, <1>3, <1>4
  <1>6. CASE Subscribed
    <2>1. stream' = [stream EXCEPT !.queue = Enqueue(e)] BY <1>6 DEF Publish
    <2>2. /\ stream' \in Streams /\ stream'.queue = Enqueue(e) /\ stream'.state = stream.state
          /\ stream'.replay = stream.replay /\ stream'.sent = stream.sent
      BY <1>1, <1>4, <2>1, StreamFields
    <2>3. stream.state # "closed" BY <1>6 DEF Subscribed
    <2>4. BrokerInOrder' BY <1>4, <1>5, <2>2 DEF BrokerInOrder
    <2> QED BY <1>4, <1>5, <2>2, <2>3, <2>4 DEF Publish
  <1>7. CASE ~Subscribed
    <2>1. stream' = stream BY <1>7 DEF Publish
    <2>2. stream.queue = << >> BY <1>1, <1>7 DEF Subscribed, Streams, Closed
    <2>3. BrokerInOrder' BY <1>4, <1>5, <2>1, <2>2, EmptyOrder, <1>2 DEF BrokerInOrder
    <2> QED BY <1>1, <1>4, <1>5, <2>1, <2>3 DEF Publish
  <1> QED BY <1>6, <1>7

\* What only the connection and the page know stays in order while the wire stays
\* as it is.
LEMMA ConnectionKept ==
  ASSUME StreamInOrder, wire' = wire,
         page'.last = page.last /\ page'.streams = page.streams,
         stream'.state = stream.state, stream'.replay = stream.replay,
         stream'.sent = stream.sent, stream.state = "closed" => stream' = stream
  PROVE  ConnectionInOrder'
  BY DEF StreamInOrder, ConnectionInOrder, Closed

LEMMA Broken ==
  ASSUME StreamInOrder, Breaks
  PROVE  ConnectionInOrder' /\ stream' \in Streams /\ Len(stream'.queue) = 0
         /\ Increasing(stream'.queue) /\ (\A n \in Nat : NoneAfter(stream'.queue, n))
         /\ wire' \in Seq(Events)
  <1>1. stream' = Closed /\ wire' = << >> BY DEF Breaks
  <1>2. Closed \in Streams /\ Closed.state = "closed" /\ Closed.queue = << >>
        /\ Closed.replay = << >> /\ Closed.sent = 0
    BY EmptyOrder DEF Closed, Streams
  <1>3. ConnectionInOrder'
    BY <1>1, <1>2, EmptyOrder DEF ConnectionInOrder, Increasing, AllAfter, NoneAfter
  <1> QED BY <1>1, <1>2, <1>3, EmptyOrder

LEMMA PageFields ==
  ASSUME NEW view \in [Segments -> Values], NEW last \in Nat,
         NEW streams \in BOOLEAN, NEW forced \in BOOLEAN
  PROVE  LET p == [view |-> view, last |-> last, streams |-> streams, forced |-> forced]
         IN  p \in Pages /\ p.last = last /\ (p.streams <=> streams)
  BY DEF Pages

LEMMA StreamInOrderInit == StreamInit => StreamInOrder
  <1> SUFFICES ASSUME StreamInit PROVE StreamInOrder OBVIOUS
  <1>1. /\ ledger = [s \in Segments |-> 0] /\ calls = {} /\ running = FALSE
        /\ draining = FALSE /\ silent = {}
        /\ broker = [seq |-> 0, history |-> << >>]
        /\ stream = [state |-> "closed", queue |-> << >>, replay |-> << >>, sent |-> 0]
        /\ stream = Closed
        /\ wire = << >> /\ untold = 0 /\ foreign = FALSE /\ edited = FALSE
        /\ page = [view |-> ledger, last |-> 0, streams |-> FALSE, forced |-> FALSE]
        /\ fetch = [state |-> "none", read |-> ledger]
    BY DEF StreamInit, Closed, NoCursor, NoFetch, NothingRead
  <1>2. StreamTypeOK
    <2>1. /\ ledger \in [Segments -> Nat] /\ ledger \in [Segments -> Values]
          /\ fetch \in [state : {"none", "asked", "read"}, read : [Segments -> Nat]]
      BY <1>1 DEF Values
    <2>2. page \in Pages
      BY <1>1, <2>1, PageFields
    <2>3. broker \in [seq : Nat, history : Seq(Events)] /\ Len(broker.history) <= HistorySize
      BY <1>1, EmptyOrder, SizesAssumption
    <2>4. stream \in Streams /\ Len(stream.queue) <= QueueSize
      BY <1>1, EmptyOrder, SizesAssumption DEF Streams
    <2> QED BY <1>1, <2>1, <2>2, <2>3, <2>4, EmptyOrder DEF StreamTypeOK
  <1>3. BrokerInOrder BY <1>1, EmptyOrder DEF BrokerInOrder
  <1>4. ConnectionInOrder BY <1>1, EmptyOrder DEF ConnectionInOrder
  <1> QED BY <1>2, <1>3, <1>4 DEF StreamInOrder

\* The handlers of the run and of the editor: each publishes one event.
LEMMA PublishersKeepOrder ==
  ASSUME StreamInOrder, NEW e \in Events, e.id = broker.seq + 1, Publish(e),
         ledger' \in [Segments -> Nat], calls' \subseteq Segments,
         {running', draining', foreign', edited'} \subseteq BOOLEAN, UNCHANGED <<wire, fetch>>,
         page' \in Pages,
         page' = page \/ (stream.state = "closed" /\ wire = << >>)
  PROVE  StreamInOrder'
  <1>1. /\ broker' \in [seq : Nat, history : Seq(Events)]
        /\ Len(broker'.history) <= HistorySize
        /\ stream' \in Streams /\ Len(stream'.queue) <= QueueSize
        /\ BrokerInOrder' /\ untold' \in Nat
        /\ stream'.state = stream.state /\ stream'.replay = stream.replay
        /\ stream'.sent = stream.sent
        /\ stream.state = "closed" => stream' = stream
    BY PublishKeeps
  <1>2. StreamTypeOK'
    <2>1. silent' \subseteq Segments
      BY DEF StreamTypeOK, StreamInOrder, Publish, Mended
    <2> QED BY <1>1, <2>1 DEF StreamTypeOK, StreamInOrder
  <1>3. ConnectionInOrder'
    <2>1. CASE page' = page BY <1>1, <2>1, ConnectionKept
    <2>2. CASE stream.state = "closed" /\ wire = << >>
      BY <1>1, <2>2, EmptyOrder DEF ConnectionInOrder, StreamInOrder
    <2> QED BY <2>1, <2>2
  <1> QED BY <1>1, <1>2, <1>3 DEF StreamInOrder

\* The event at the head of the replay or of the queue goes on the wire.
LEMMA SendsInOrder ==
  ASSUME StreamInOrder, NEW e \in Events, e.id > stream.sent, Sends(e),
         stream.state # "closed", page' = page, stream'.sent = e.id, stream'.state = stream.state,
         Increasing(stream'.replay), AllAfter(stream'.replay, e.id),
         stream.state = "streaming" => stream'.replay = << >>
  PROVE  wire' \in Seq(Events) /\ ConnectionInOrder'
  <1>1. /\ wire \in Seq(Events) /\ e.id \in Nat /\ stream.sent \in Nat /\ page.last \in Nat
        /\ Increasing(wire) /\ AllAfter(wire, page.last) /\ NoneAfter(wire, stream.sent)
        /\ page.streams /\ page.last <= stream.sent
    BY EventIds DEF StreamInOrder, StreamTypeOK, ConnectionInOrder, Streams, Pages
  <1>2. wire' = Append(wire, e) BY DEF Sends
  <1>3. page.last < e.id /\ page.last <= e.id BY <1>1
  <1>4. /\ wire' \in Seq(Events) /\ Increasing(wire') /\ NoneAfter(wire', e.id)
        /\ AllAfter(wire', page.last)
    BY <1>1, <1>2, <1>3, AppendOrder
  <1> QED BY <1>1, <1>3, <1>4 DEF ConnectionInOrder

PublisherSteps ==
  (\E here \in BOOLEAN : RunBegins(here)) \/ StopRequested \/ RunReturns
    \/ \E s \in Segments : Delta(s) \/ SegmentDone(s) \/ SegmentFails(s) \/ EditElsewhere(s)

LEMMA PublishersStep ==
  ASSUME StreamInOrder, PublisherSteps
  PROVE  StreamInOrder'
  <1>1. /\ ledger \in [Segments -> Nat] /\ calls \subseteq Segments
        /\ {running, draining, foreign, edited} \subseteq BOOLEAN
        /\ page \in Pages
    BY DEF StreamInOrder, StreamTypeOK
  <1>2. CASE \E here \in BOOLEAN : RunBegins(here)
    <2>1. PICK here \in BOOLEAN : RunBegins(here) BY <1>2
    <2>2. /\ Publish(Refresh) /\ UNCHANGED <<ledger, calls, wire, fetch>>
          /\ {running', draining', foreign', edited'} \subseteq BOOLEAN
      BY <1>1, <2>1 DEF RunBegins
    <2>3. CASE page' = page
      BY <1>1, <2>2, <2>3, EventsMade, PublishersKeepOrder
    <2>4. CASE page' # page
      <3>1. page' = [page EXCEPT !.streams = TRUE, !.forced = TRUE,
                                 !.last = IF page.streams THEN @ ELSE NoCursor]
        BY <2>1, <2>4 DEF RunBegins
      <3>2. page' \in Pages
        BY <1>1, <3>1 DEF NoCursor, Pages
      <3>3. CASE page.streams
        <4>1. page'.last = page.last /\ page'.streams = page.streams BY <1>1, <3>1, <3>3 DEF Pages
        <4>2. silent' \subseteq Segments
          BY <2>2 DEF StreamTypeOK, StreamInOrder, Publish, Mended
        <4>3. ConnectionInOrder' /\ BrokerInOrder' /\ StreamTypeOK'
          BY <1>1, <2>2, <3>2, <4>1, <4>2, EventsMade, PublishKeeps, ConnectionKept
          DEF StreamTypeOK, StreamInOrder
        <4> QED BY <4>3 DEF StreamInOrder
      <3>4. CASE ~page.streams
        <4>1. stream.state = "closed" /\ wire = << >>
          BY <3>4 DEF StreamInOrder, ConnectionInOrder
        <4> QED BY <1>1, <2>2, <3>2, <4>1, EventsMade, PublishersKeepOrder
      <3> QED BY <3>3, <3>4
    <2> QED BY <2>3, <2>4
  <1>3. CASE StopRequested \/ RunReturns
    <2>1. /\ Publish(Over) /\ UNCHANGED <<ledger, wire, page, fetch>>
          /\ calls' \subseteq Segments /\ {running', draining', foreign', edited'} \subseteq BOOLEAN
      BY <1>1, <1>3 DEF StopRequested, RunReturns, runVars, pageVars
    <2> QED BY <1>1, <2>1, EventsMade, PublishersKeepOrder
  <1>4. ASSUME NEW s \in Segments, Delta(s) PROVE StreamInOrder'
    <2>1. /\ Publish(Event("delta", s, Partial)) /\ UNCHANGED <<ledger, wire, page, fetch>>
          /\ calls' \subseteq Segments /\ {running', draining', foreign', edited'} \subseteq BOOLEAN
      BY <1>1, <1>4 DEF Delta, runVars, pageVars
    <2>2. Partial \in Values BY DEF Values
    <2> QED BY <1>1, <2>1, <2>2, EventsMade, PublishersKeepOrder
  <1>5. ASSUME NEW s \in Segments PROVE ledger[s] + 1 \in Values
    BY <1>1 DEF Values
  <1>6. ASSUME NEW s \in Segments, SegmentDone(s) \/ EditElsewhere(s) PROVE StreamInOrder'
    <2>1. /\ Publish(Event("segment", s, ledger[s] + 1)) /\ UNCHANGED <<wire, page, fetch>>
          /\ ledger' = [ledger EXCEPT ![s] = @ + 1]
          /\ calls' \subseteq Segments /\ {running', draining', foreign', edited'} \subseteq BOOLEAN
      BY <1>1, <1>6 DEF SegmentDone, EditElsewhere, Writes, runVars, pageVars
    <2>2. ledger' \in [Segments -> Nat] BY <1>1, <2>1
    <2> QED BY <1>1, <1>5, <2>1, <2>2, EventsMade, PublishersKeepOrder
  <1>7. ASSUME NEW s \in Segments, SegmentFails(s) PROVE StreamInOrder'
    <2>1. /\ Publish(Refresh) /\ UNCHANGED <<ledger, wire, page, fetch>>
          /\ calls' \subseteq Segments /\ {running', draining', foreign', edited'} \subseteq BOOLEAN
      BY <1>1, <1>7 DEF SegmentFails, runVars, pageVars
    <2> QED BY <1>1, <2>1, EventsMade, PublishersKeepOrder
  <1> QED BY <1>2, <1>3, <1>4, <1>6, <1>7 DEF PublisherSteps

\* A call that ends without a word leaves everything where it is.
LEMMA SkippedStep ==
  ASSUME StreamInOrder, NEW s \in Segments, SegmentSkipped(s)
  PROVE  StreamInOrder'
  <1>1. /\ UNCHANGED <<ledger, running, draining, broker, stream, wire, page, fetch, untold, foreign,
                      edited>>
        /\ calls' = calls \ {s} /\ silent' = silent \cup {s}
    BY DEF SegmentSkipped, pageVars
  <1>2. StreamTypeOK' BY <1>1 DEF StreamTypeOK, StreamInOrder
  <1>3. BrokerInOrder' BY <1>1 DEF BrokerInOrder, StreamInOrder
  <1>4. ConnectionInOrder' BY <1>1 DEF ConnectionInOrder, StreamInOrder, Closed
  <1> QED BY <1>2, <1>3, <1>4 DEF StreamInOrder

LEMMA ConnectStep ==
  ASSUME StreamInOrder, Connect
  PROVE  StreamInOrder'
  <1>1. /\ page.last \in Nat /\ Replay(page.last) \in Seq(Events) /\ Increasing(Replay(page.last))
        /\ AllAfter(Replay(page.last), page.last)
    BY ReplayOrder DEF StreamInOrder, StreamTypeOK, Pages
  <1>2. /\ page.streams /\ stream.state = "closed" /\ wire = << >>
        /\ stream' = [state |-> "replaying", queue |-> << >>,
                      replay |-> Replay(page.last), sent |-> page.last]
        /\ UNCHANGED <<ledger, calls, running, draining, silent,
                       broker, wire, page, fetch, untold, foreign, edited>>
    BY DEF Connect, StreamInOrder, ConnectionInOrder, runVars, pageVars
  <1>3. /\ stream' \in Streams /\ stream'.state = "replaying" /\ stream'.queue = << >>
        /\ stream'.replay = Replay(page.last) /\ stream'.sent = page.last
    BY <1>1, <1>2, EmptyOrder DEF Streams
  <1>4. StreamTypeOK' BY <1>2, <1>3, EmptyOrder, SizesAssumption DEF StreamTypeOK, StreamInOrder
  <1>5. BrokerInOrder' BY <1>2, <1>3, EmptyOrder DEF BrokerInOrder, StreamInOrder, StreamTypeOK
  <1>6. ConnectionInOrder' BY <1>1, <1>2, <1>3, EmptyOrder DEF ConnectionInOrder
  <1> QED BY <1>4, <1>5, <1>6 DEF StreamInOrder

LEMMA SendReplayStep ==
  ASSUME StreamInOrder, SendReplay
  PROVE  StreamInOrder'
  <1>1. /\ stream \in Streams /\ stream.sent \in Nat /\ stream.replay \in Seq(Events)
        /\ Increasing(stream.replay) /\ AllAfter(stream.replay, stream.sent)
    BY DEF StreamInOrder, StreamTypeOK, ConnectionInOrder, Streams
  <1>2. PICK e : e = Head(stream.replay) OBVIOUS
  <1>3. PICK r : r = Tail(stream.replay) OBVIOUS
  <1>4. /\ stream.state = "replaying" /\ stream.replay # << >> /\ Sends(e)
        /\ stream' = [stream EXCEPT !.replay = r, !.sent = SentAfter(e)]
        /\ UNCHANGED <<ledger, calls, running, draining, silent,
                       broker, page, fetch, untold, foreign, edited>>
    BY <1>2, <1>3 DEF SendReplay, runVars, pageVars
  <1>5. /\ e \in Events /\ e.id > stream.sent /\ e.id \in Nat
        /\ r \in Seq(Events) /\ Increasing(r) /\ AllAfter(r, e.id)
    BY <1>1, <1>2, <1>3, <1>4, TailOrder, EventIds
  <1>6. SentAfter(e) = e.id BY <1>5 DEF SentAfter
  <1>7. /\ stream' \in Streams /\ stream'.replay = r /\ stream'.sent = e.id
        /\ stream'.state = stream.state /\ stream'.queue = stream.queue
    <2>1. stream' = [stream EXCEPT !.replay = r, !.sent = e.id] BY <1>4, <1>6
    <2> QED BY <1>1, <1>5, <2>1 DEF Streams
  <1>8. wire' \in Seq(Events) /\ ConnectionInOrder' BY <1>4, <1>5, <1>7, SendsInOrder
  <1>9. StreamTypeOK' BY <1>4, <1>7, <1>8 DEF StreamTypeOK, StreamInOrder
  <1>10. BrokerInOrder' BY <1>4, <1>7 DEF BrokerInOrder, StreamInOrder
  <1> QED BY <1>8, <1>9, <1>10 DEF StreamInOrder

LEMMA SnapshotStep ==
  ASSUME StreamInOrder, Snapshot
  PROVE  StreamInOrder'
  <1>1. PICK e : e = IF Active THEN Refresh ELSE Over OBVIOUS
  <1>2. /\ stream.state = "replaying" /\ stream.replay = << >>
        /\ broker' = [broker EXCEPT !.seq = e.id, !.history = Remember(e)]
        /\ stream' = [stream EXCEPT !.state = "streaming", !.queue = Enqueue(e)]
        /\ untold' = Dropped
        /\ silent' = Mended(e)
        /\ UNCHANGED <<ledger, calls, running, draining, wire, page, fetch, foreign, edited>>
    BY <1>1 DEF Snapshot, runVars, pageVars
  <1>3. e \in Events /\ e.id = broker.seq + 1 /\ e.id \in Nat BY <1>1, EventsMade, EventIds
  <1>4. /\ Remember(e) \in Seq(Events) /\ Len(Remember(e)) <= HistorySize
        /\ \A i \in 1 .. Len(Remember(e)) : Remember(e)[i].id = e.id - Len(Remember(e)) + i
        /\ Enqueue(e) \in Seq(Events) /\ Len(Enqueue(e)) <= QueueSize
        /\ Increasing(Enqueue(e)) /\ NoneAfter(Enqueue(e), e.id)
        /\ Dropped \in Nat
    BY <1>3, PublishOrder
  <1>5. /\ stream \in Streams /\ broker \in [seq : Nat, history : Seq(Events)]
    BY DEF StreamInOrder, StreamTypeOK
  <1>6. broker' = [seq |-> e.id, history |-> Remember(e)] BY <1>2, <1>5
  <1>7. /\ broker'.seq = e.id /\ broker'.history = Remember(e)
        /\ broker' \in [seq : Nat, history : Seq(Events)]
    BY <1>3, <1>4, <1>6
  <1>8. /\ stream' \in Streams /\ stream'.state = "streaming" /\ stream'.queue = Enqueue(e)
        /\ stream'.replay = stream.replay /\ stream'.sent = stream.sent
    BY <1>2, <1>4, <1>5, StreamFields
  <1>9. StreamTypeOK' BY <1>2, <1>4, <1>7, <1>8 DEF StreamTypeOK, StreamInOrder, Mended
  <1>10. BrokerInOrder' BY <1>4, <1>7, <1>8 DEF BrokerInOrder
  <1>11. ConnectionInOrder' BY <1>2, <1>8 DEF StreamInOrder, ConnectionInOrder
  <1> QED BY <1>9, <1>10, <1>11 DEF StreamInOrder

LEMMA SendNextStep ==
  ASSUME StreamInOrder, SendNext
  PROVE  StreamInOrder'
  <1>1. /\ stream \in Streams /\ stream.sent \in Nat /\ stream.queue \in Seq(Events)
        /\ Len(stream.queue) <= QueueSize /\ QueueSize \in Nat /\ broker.seq \in Nat
        /\ Increasing(stream.queue) /\ NoneAfter(stream.queue, broker.seq)
    BY SizesAssumption DEF StreamInOrder, StreamTypeOK, BrokerInOrder, Streams
  <1>2. PICK e : e = Head(stream.queue) OBVIOUS
  <1>3. PICK q : q = Tail(stream.queue) OBVIOUS
  <1>4. /\ stream.state = "streaming" /\ stream.queue # << >> /\ stream.replay = << >>
        /\ stream' = [stream EXCEPT !.queue = q, !.sent = SentAfter(e)]
        /\ IF AlreadySent(e) THEN UNCHANGED wire ELSE Sends(e)
        /\ UNCHANGED <<ledger, calls, running, draining, silent,
                       broker, page, fetch, untold, foreign, edited>>
    BY <1>2, <1>3 DEF SendNext, StreamInOrder, ConnectionInOrder, runVars, pageVars
  <1>5. /\ e \in Events /\ e.id \in Nat /\ q \in Seq(Events) /\ Increasing(q)
        /\ NoneAfter(q, broker.seq) /\ Len(q) <= QueueSize
    BY <1>1, <1>2, <1>3, <1>4, TailOrder, EventIds
  <1>6. SentAfter(e) \in Nat BY <1>1, <1>5 DEF SentAfter
  <1>7. /\ stream' \in Streams /\ stream'.replay = << >> /\ stream'.sent = SentAfter(e)
        /\ stream'.state = stream.state /\ stream'.queue = q
    <2>1. PICK n \in Nat : n = SentAfter(e) BY <1>6
    <2>2. stream' = [stream EXCEPT !.queue = q, !.sent = n] BY <1>4, <2>1
    <2> QED BY <1>1, <1>4, <1>5, <2>1, <2>2 DEF Streams
  <1>8. wire' \in Seq(Events) /\ ConnectionInOrder'
    <2>1. CASE AlreadySent(e)
      <3>1. stream'.sent = stream.sent /\ wire' = wire
        BY <1>1, <1>4, <1>5, <1>7, <2>1 DEF AlreadySent, SentAfter
      <3>2. ConnectionInOrder' BY <1>4, <1>7, <3>1, ConnectionKept
      <3> QED BY <3>1, <3>2 DEF StreamInOrder, StreamTypeOK
    <2>2. CASE ~AlreadySent(e)
      <3>1. e.id > stream.sent BY <1>1, <1>5, <2>2 DEF AlreadySent
      <3>2. SentAfter(e) = e.id BY <3>1 DEF SentAfter
      <3>3. Increasing(stream'.replay) /\ AllAfter(stream'.replay, e.id)
        BY <1>5, <1>7, EmptyOrder
      <3> QED BY <1>4, <1>5, <1>7, <2>2, <3>1, <3>2, <3>3, SendsInOrder
    <2> QED BY <2>1, <2>2
  <1>9. StreamTypeOK' BY <1>4, <1>5, <1>7, <1>8 DEF StreamTypeOK, StreamInOrder
  <1>10. BrokerInOrder' BY <1>4, <1>5, <1>7 DEF BrokerInOrder, StreamInOrder
  <1> QED BY <1>8, <1>9, <1>10 DEF StreamInOrder

\* The connection ends: broken, or closed by the page.
LEMMA BreakingSteps ==
  ASSUME StreamInOrder, Cut \/ Restart \/ Opened \/ PollSaysIdle
  PROVE  StreamInOrder'
  <1>1. Breaks /\ ledger' = ledger /\ calls' \subseteq Segments /\ silent' \subseteq Segments
        /\ {running', draining', foreign', edited'} \subseteq BOOLEAN
    BY DEF Cut, Restart, Opened, PollSaysIdle, StreamInOrder, StreamTypeOK, runVars, pageVars
  <1>2. /\ stream' \in Streams /\ Len(stream'.queue) = 0 /\ Increasing(stream'.queue)
        /\ \A n \in Nat : NoneAfter(stream'.queue, n)
        /\ ConnectionInOrder' /\ wire' \in Seq(Events)
    BY <1>1, Broken
  <1>3. broker' = broker \/ broker' = [seq |-> 0, history |-> << >>]
    BY DEF Cut, Restart, Opened, PollSaysIdle, runVars, pageVars
  <1>4. /\ broker' \in [seq : Nat, history : Seq(Events)]
        /\ Len(broker'.history) <= HistorySize
        /\ \A i \in 1 .. Len(broker'.history) :
              broker'.history[i].id = broker'.seq - Len(broker'.history) + i
    <2>1. CASE broker' = broker BY <2>1 DEF StreamInOrder, StreamTypeOK, BrokerInOrder
    <2>2. CASE broker' = [seq |-> 0, history |-> << >>]
      BY <2>2, EmptyOrder, SizesAssumption
    <2> QED BY <1>3, <2>1, <2>2
  <1>5. BrokerInOrder' BY <1>2, <1>4 DEF BrokerInOrder
  <1>6. untold' \in Nat
    BY DEF Cut, Restart, Opened, PollSaysIdle, StreamInOrder, StreamTypeOK, runVars, pageVars
  <1>7. page' \in Pages /\ fetch' \in [state : {"none", "asked", "read"}, read : [Segments -> Nat]]
    <2>1. /\ ledger \in [Segments -> Nat] /\ ledger \in [Segments -> Values]
          /\ running \in BOOLEAN /\ page \in Pages
          /\ fetch \in [state : {"none", "asked", "read"}, read : [Segments -> Nat]]
      BY DEF StreamInOrder, StreamTypeOK, Values
    <2>2. CASE Cut \/ Restart BY <2>1, <2>2 DEF Cut, Restart, runVars, pageVars
    <2>3. CASE PollSaysIdle BY <2>1, <2>3 DEF PollSaysIdle, Pages, runVars, pageVars
    <2>4. CASE Opened
      <3>1. /\ page' = [view |-> ledger, last |-> 0, streams |-> running, forced |-> FALSE]
            /\ fetch' = [state |-> "none", read |-> NothingRead]
        BY <2>4 DEF Opened, NoFetch, NoCursor, runVars, pageVars
      <3>2. page' \in Pages BY <2>1, <3>1, PageFields
      <3>3. NothingRead \in [Segments -> Nat] BY DEF NothingRead
      <3> QED BY <2>1, <3>1, <3>2, <3>3
    <2> QED BY <2>2, <2>3, <2>4
  <1>8. StreamTypeOK'
    BY <1>1, <1>2, <1>4, <1>6, <1>7, SizesAssumption DEF StreamTypeOK, StreamInOrder
  <1> QED BY <1>2, <1>5, <1>8 DEF StreamInOrder

LEMMA ReceiveStep ==
  ASSUME StreamInOrder, Receive
  PROVE  StreamInOrder' /\ page'.last > page.last
  <1>1. PICK e : e = Head(wire) OBVIOUS
  <1>2. /\ wire # << >> /\ wire' = Tail(wire)
        /\ page' = [page EXCEPT !.last = e.id, !.view = Shown(e), !.forced = @ /\ e.kind # "over"]
        /\ fetch' = IF e.kind \in Fetching THEN [state |-> "asked", read |-> NothingRead] ELSE fetch
        /\ untold' = IF e.kind \in Fetching /\ e.id > untold THEN 0 ELSE untold
        /\ UNCHANGED <<ledger, calls, running, draining, silent, broker, stream, foreign, edited>>
    BY <1>1 DEF Receive, runVars, pageVars
  <1>3. /\ wire \in Seq(Events) /\ page \in Pages /\ page.last \in Nat /\ stream.sent \in Nat
        /\ page.view \in [Segments -> Values]
        /\ ledger \in [Segments -> Nat] /\ untold \in Nat
        /\ fetch \in [state : {"none", "asked", "read"}, read : [Segments -> Nat]]
        /\ Increasing(wire) /\ AllAfter(wire, page.last) /\ NoneAfter(wire, stream.sent)
        /\ stream.state # "closed" /\ page.streams
    BY <1>2 DEF StreamInOrder, StreamTypeOK, ConnectionInOrder, Streams, Pages
  <1>4. /\ e \in Events /\ e.id \in Nat /\ e.id > page.last /\ e.id <= stream.sent
        /\ wire' \in Seq(Events) /\ Increasing(wire') /\ AllAfter(wire', e.id)
        /\ NoneAfter(wire', stream.sent)
    BY <1>1, <1>2, <1>3, TailOrder, EventIds
  <1>5. Shown(e) \in [Segments -> Values]
    <2>1. e.seg \in Segments /\ e.value \in Values BY <1>4 DEF Events
    <2> QED BY <1>3, <2>1 DEF Shown
  <1>6. page' \in Pages /\ page'.last = e.id /\ page'.streams = page.streams
    BY <1>2, <1>3, <1>4, <1>5 DEF Pages
  <1>7. /\ fetch' \in [state : {"none", "asked", "read"}, read : [Segments -> Nat]]
        /\ untold' \in Nat
    BY <1>2, <1>3 DEF NothingRead
  <1>8. StreamTypeOK' BY <1>2, <1>4, <1>6, <1>7 DEF StreamTypeOK, StreamInOrder
  <1>9. BrokerInOrder' BY <1>2 DEF BrokerInOrder, StreamInOrder
  <1>10. ConnectionInOrder'
    BY <1>2, <1>3, <1>4, <1>6 DEF ConnectionInOrder, StreamInOrder
  <1> QED BY <1>4, <1>6, <1>8, <1>9, <1>10 DEF StreamInOrder

LEMMA FetchSteps ==
  ASSUME StreamInOrder, FetchReads \/ FetchArrives
  PROVE  StreamInOrder'
  <1>1. /\ ledger \in [Segments -> Nat] /\ page \in Pages /\ untold \in Nat /\ page.last \in Nat
        /\ fetch \in [state : {"none", "asked", "read"}, read : [Segments -> Nat]]
        /\ fetch.read \in [Segments -> Values]
    BY DEF StreamInOrder, StreamTypeOK, Pages, Values
  <1>2. /\ page' \in Pages /\ page'.last = page.last /\ page'.streams = page.streams
        /\ fetch' \in [state : {"none", "asked", "read"}, read : [Segments -> Nat]]
        /\ untold' \in Nat
        /\ UNCHANGED <<ledger, calls, running, draining, silent,
                       broker, stream, wire, foreign, edited>>
    BY <1>1 DEF FetchReads, FetchArrives, NoFetch, NothingRead, Pages, runVars, pageVars
  <1>3. ConnectionInOrder' BY <1>2, ConnectionKept
  <1>4. BrokerInOrder' BY <1>2 DEF BrokerInOrder, StreamInOrder
  <1>5. StreamTypeOK' BY <1>2 DEF StreamTypeOK, StreamInOrder
  <1> QED BY <1>3, <1>4, <1>5 DEF StreamInOrder

LEMMA StreamInOrderStep == StreamInOrder /\ [StreamNext]_streamVars => StreamInOrder'
  <1> SUFFICES ASSUME StreamInOrder, [StreamNext]_streamVars PROVE StreamInOrder' OBVIOUS
  <1>1. CASE UNCHANGED streamVars
    BY <1>1 DEF streamVars, StreamInOrder, StreamTypeOK, BrokerInOrder, ConnectionInOrder, Closed
  <1>2. CASE PublisherSteps \/ \E s \in Segments : SegmentSkipped(s)
    BY <1>2, PublishersStep, SkippedStep
  <1>3. CASE Connect BY <1>3, ConnectStep
  <1>4. CASE SendReplay BY <1>4, SendReplayStep
  <1>5. CASE Snapshot BY <1>5, SnapshotStep
  <1>6. CASE SendNext BY <1>6, SendNextStep
  <1>7. CASE Cut \/ Restart \/ Opened \/ PollSaysIdle BY <1>7, BreakingSteps
  <1>8. CASE Receive BY <1>8, ReceiveStep
  <1>9. CASE FetchReads \/ FetchArrives BY <1>9, FetchSteps
  <1> QED BY <1>1, <1>2, <1>3, <1>4, <1>5, <1>6, <1>7, <1>8, <1>9 DEF StreamNext, PublisherSteps

-----------------------------------------------------------------------------
(* The event stream: what is on its way to the page *)

\* All that is on the way is newer than what the page has, and known to the broker.
LEMMA WayFacts ==
  ASSUME StreamInOrder
  PROVE  /\ \A e \in OnTheWay : e \in Events /\ e.id \in Nat /\ e.id > page.last
         /\ stream.sent <= broker.seq => \A e \in OnTheWay : e.id <= broker.seq
         /\ page.last \in Nat /\ stream.sent \in Nat /\ broker.seq \in Nat /\ untold \in Nat
         /\ wire = << >> /\ stream.queue = << >> => OnTheWay = {}
  <1>1. /\ wire \in Seq(Events) /\ stream.queue \in Seq(Events)
        /\ page.last \in Nat /\ stream.sent \in Nat /\ broker.seq \in Nat /\ untold \in Nat
        /\ AllAfter(wire, page.last) /\ NoneAfter(wire, stream.sent)
        /\ NoneAfter(stream.queue, broker.seq)
        /\ stream.state # "closed" => page.last <= stream.sent
        /\ stream.state = "closed" => wire = << >> /\ stream.queue = << >>
    BY DEF StreamInOrder, StreamTypeOK, ConnectionInOrder, BrokerInOrder, Streams, Pages, Closed
  <1>2. ASSUME NEW e \in OnTheWay
        PROVE  /\ e \in Events /\ e.id \in Nat /\ e.id > page.last
               /\ stream.sent <= broker.seq => e.id <= broker.seq
    <2>1. CASE \E i \in 1 .. Len(wire) : e = wire[i]
      BY <1>1, <2>1, EventIds DEF AllAfter, NoneAfter
    <2>2. CASE \E i \in 1 .. Len(stream.queue) : e = stream.queue[i] /\ ~AlreadySent(e)
      <3>1. e \in Events /\ e.id \in Nat /\ e.id <= broker.seq
        BY <1>1, <2>2, EventIds DEF NoneAfter
      <3>2. e.id > stream.sent BY <1>1, <2>2, <3>1 DEF AlreadySent
      <3>3. stream.state # "closed" BY <1>1, <2>2, EmptyOrder
      <3> QED BY <1>1, <3>1, <3>2, <3>3
    <2> QED BY <2>1, <2>2 DEF OnTheWay
  <1>3. wire = << >> /\ stream.queue = << >> => OnTheWay = {} BY EmptyOrder DEF OnTheWay
  <1> QED BY <1>1, <1>2, <1>3

\* An event that is published is on the way, and so is what was, but for the event
\* that a full queue has lost.
LEMMA PublishWay ==
  ASSUME StreamInOrder, NEW e \in Events, e.id = broker.seq + 1, stream.sent <= broker.seq,
         stream'.queue = Enqueue(e), stream'.sent = stream.sent, wire' = wire
  PROVE  /\ e \in OnTheWay' /\ OnTheWay' \subseteq OnTheWay \cup {e}
         /\ \A d \in OnTheWay : d.id < e.id
         /\ \A d \in OnTheWay : d \in OnTheWay' \/ (Full /\ d.id = Head(stream.queue).id)
  <1>1. PICK q : q = stream.queue OBVIOUS
  <1>2. PICK n : n = stream.sent OBVIOUS
  <1>3. PICK t : t = IF Full THEN Tail(q) ELSE q OBVIOUS
  <1>4. PICK w : w = wire OBVIOUS
  <1>5. /\ q \in Seq(Events) /\ n \in Nat /\ broker.seq \in Nat /\ e.id \in Nat
        /\ Full => q # << >>
    BY <1>1, <1>2, EventIds, EmptySeq, SizesAssumption
    DEF StreamInOrder, StreamTypeOK, Streams, Full
  <1>6. /\ t \in Seq(Events) /\ Len(t) \in Nat /\ Len(q) \in Nat
        /\ IF Full THEN Len(q) = Len(t) + 1 /\ Head(q) = q[1] /\ \A i \in 1 .. Len(t) : t[i] = q[i + 1]
           ELSE t = q
    BY <1>3, <1>5, TailOrder, EventIds
  <1>7. PICK r : r = Append(t, e) OBVIOUS
  <1>8. /\ r \in Seq(Events) /\ Len(r) = Len(t) + 1 /\ r[Len(t) + 1] = e
        /\ \A i \in 1 .. Len(t) : r[i] = t[i]
    BY <1>6, <1>7, AppendOrder
  <1>9. stream'.queue = r BY <1>1, <1>3, <1>7 DEF Enqueue
  <1>10. OnTheWay = {w[i] : i \in 1 .. Len(w)} \cup {q[i] : i \in {j \in 1 .. Len(q) : ~(q[j].id <= n)}}
    BY <1>1, <1>2, <1>4 DEF OnTheWay, AlreadySent
  <1>11. OnTheWay' = {w[i] : i \in 1 .. Len(w)} \cup {r[i] : i \in {j \in 1 .. Len(r) : ~(r[j].id <= n)}}
    BY <1>2, <1>4, <1>9 DEF OnTheWay, AlreadySent
  <1>12. e \in OnTheWay'
    <2>1. Len(t) + 1 \in 1 .. Len(r) /\ ~(e.id <= n) BY <1>2, <1>5, <1>6, <1>8
    <2> QED BY <1>8, <1>11, <2>1
  <1>13. ASSUME NEW d \in OnTheWay' PROVE d \in OnTheWay \/ d = e
    <2>1. CASE \E i \in 1 .. Len(w) : d = w[i] BY <1>10, <2>1
    <2>2. ASSUME NEW i \in 1 .. Len(r), d = r[i], ~(d.id <= n) PROVE d \in OnTheWay \/ d = e
      <3>1. CASE i = Len(t) + 1 BY <1>8, <2>2, <3>1
      <3>2. CASE i # Len(t) + 1
        <4>1. i \in 1 .. Len(t) /\ d = t[i] BY <1>6, <1>8, <2>2, <3>2
        <4>2. PICK j \in 1 .. Len(q) : d = q[j]
          <5>1. CASE Full
            <6>1. i + 1 \in 1 .. Len(q) /\ d = q[i + 1] BY <1>6, <4>1, <5>1
            <6> QED BY <6>1
          <5>2. CASE ~Full BY <1>6, <4>1, <5>2
          <5> QED BY <5>1, <5>2
        <4> QED BY <1>10, <2>2, <4>2
      <3> QED BY <3>1, <3>2
    <2> QED BY <1>11, <2>1, <2>2
  <1>14. ASSUME NEW d \in OnTheWay
         PROVE  d \in OnTheWay' \/ (Full /\ d.id = Head(stream.queue).id)
    <2>1. CASE \E i \in 1 .. Len(w) : d = w[i] BY <1>11, <2>1
    <2>2. ASSUME NEW i \in 1 .. Len(q), d = q[i], ~(d.id <= n)
          PROVE  d \in OnTheWay' \/ (Full /\ d.id = Head(stream.queue).id)
      <3>1. CASE Full /\ i = 1 BY <1>1, <1>6, <2>2, <3>1
      <3>2. CASE Full /\ i # 1
        <4>1. PICK k : k = i - 1 OBVIOUS
        <4>2. k \in 1 .. Len(t) /\ k + 1 = i BY <1>6, <3>2, <4>1
        <4>3. t[k] = d BY <1>6, <2>2, <3>2, <4>2
        <4>4. k \in 1 .. Len(r) /\ r[k] = d BY <1>6, <1>8, <4>2, <4>3
        <4> QED BY <1>11, <2>2, <4>4
      <3>3. CASE ~Full
        <4>1. i \in 1 .. Len(r) /\ r[i] = d BY <1>6, <1>8, <2>2, <3>3
        <4> QED BY <1>11, <2>2, <4>1
      <3> QED BY <3>1, <3>2, <3>3
    <2> QED BY <1>10, <2>1, <2>2
  <1>15. \A d \in OnTheWay : d.id < e.id BY <1>5, WayFacts
  <1> QED BY <1>12, <1>13, <1>14, <1>15

-----------------------------------------------------------------------------
(* The event stream: what the page is told *)

\* A published event leaves true what the page is told of the segments that it
\* does not speak of, and tells it the truth about the others.
LEMMA PublishTells ==
  ASSUME StreamInOrder, UntoldIsPast, EachIsTold, NEW e \in Events, e.id = broker.seq + 1,
         ~foreign, stream.sent <= broker.seq, Subscribed,
         stream'.queue = Enqueue(e), stream'.sent = stream.sent, UNCHANGED <<wire, fetch>>,
         page'.last = page.last, page'.view = page.view, untold' = Dropped,
         \A s \in Segments \ (calls' \cup silent') :
            IF e.kind \in Fetching \/ e.seg = s
            THEN e.kind \in Fetching \/ e.value = ledger'[s]
            ELSE /\ s \notin calls \cup silent
                 /\ ledger'[s] = ledger[s] /\ stream.state = "streaming"
  PROVE  EachIsTold'
  <1> DEFINE Speaks(d, s) == d.kind \in Fetching \/ d.seg = s
  <1>1. /\ e \in OnTheWay' /\ OnTheWay' \subseteq OnTheWay \cup {e}
        /\ \A d \in OnTheWay : d.id < e.id
        /\ \A d \in OnTheWay : d \in OnTheWay' \/ (Full /\ d.id = Head(stream.queue).id)
    BY PublishWay
  <1>2. PICK way : way = OnTheWay OBVIOUS
  <1>3. PICK next : next = OnTheWay' OBVIOUS
  <1>4. PICK n : n = untold OBVIOUS
  <1>5. PICK m : m = untold' OBVIOUS
  <1>6. /\ \A d \in way : d.id \in Nat /\ d.id > page.last
        /\ page.last \in Nat /\ n \in Nat /\ e.id \in Nat
    BY <1>2, <1>4, WayFacts, EventIds
  <1>7. /\ m \in Nat /\ (Full => m = Head(stream.queue).id /\ m > 0)
        /\ (~Full => m = n)
        /\ \A d \in way : d.id > m => d.id > n
    <2>1. CASE ~Full BY <1>4, <1>5, <1>6, <2>1 DEF Dropped
    <2>2. CASE Full
      <3>1. stream.queue \in Seq(Events) /\ stream.queue # << >>
        BY <2>2, EmptySeq, SizesAssumption DEF Full, StreamInOrder, StreamTypeOK, Streams
      <3>2. PICK h : h = Head(stream.queue) OBVIOUS
      <3>3. h \in Events /\ h.id \in Nat /\ m = h.id
        BY <1>5, <2>2, <3>1, <3>2, TailOrder, EventIds DEF Dropped
      <3>4. AllAfter(stream.queue, n) => h.id > n BY <1>6, <3>1, <3>2, TailOrder
      <3>5. n <= page.last \/ h.id > n BY <1>4, <3>4 DEF UntoldIsPast
      <3>6. h.id > 0 BY <3>1, <3>2, TailOrder DEF UntoldIsPast
      <3> QED BY <1>6, <2>2, <3>2, <3>3, <3>5, <3>6
    <2> QED BY <2>1, <2>2
  <1>8. CaughtUp' => stream.state # "closed" BY DEF Subscribed
  <1>9. ASSUME NEW s \in Segments \ (calls' \cup silent')
        PROVE  /\ \A d \in next : Speaks(d, s) /\ d.id > m
                     /\ (\A c \in next : Speaks(c, s) => c.id <= d.id)
                     => d.kind \in Fetching \/ d.value = ledger'[s]
               /\ (\A c \in next : ~Speaks(c, s)) /\ m = 0 =>
                     page.last > 0 /\ (fetch.state = "none" => page.view[s] = ledger'[s])
    <2>1. CASE Speaks(e, s)
      <3>1. ASSUME NEW d \in next, Speaks(d, s), \A c \in next : Speaks(c, s) => c.id <= d.id
            PROVE  d = e
        BY <1>1, <1>2, <1>3, <1>6, <2>1, <3>1
      <3> QED BY <1>1, <1>3, <1>9, <2>1, <3>1
    <2>2. CASE ~Speaks(e, s)
      <3>1. s \in Segments \ (calls \cup silent) /\ ledger'[s] = ledger[s] /\ CaughtUp
        BY <1>9, <2>2 DEF CaughtUp
      <3>2. /\ \A d \in way : Speaks(d, s) /\ d.id > n
                  /\ (\A c \in way : Speaks(c, s) => c.id <= d.id)
                  => d.kind \in Fetching \/ d.value = ledger[s]
            /\ (\A c \in way : ~Speaks(c, s)) /\ n = 0 =>
                  page.last > 0 /\ (fetch.state = "none" => page.view[s] = ledger[s])
        BY <1>2, <1>4, <3>1 DEF EachIsTold, WordsOn, LastOf
      <3>3. ASSUME NEW d \in next, Speaks(d, s), d.id > m,
                   \A c \in next : Speaks(c, s) => c.id <= d.id
            PROVE  d.kind \in Fetching \/ d.value = ledger'[s]
        <4>1. d \in way /\ d.id > n BY <1>1, <1>2, <1>3, <1>7, <2>2, <3>3
        <4>2. \A c \in way : Speaks(c, s) => c.id <= d.id
          BY <1>1, <1>2, <1>3, <1>6, <1>7, <3>3, <4>1
        <4> QED BY <3>1, <3>2, <3>3, <4>1, <4>2
      <3>4. ASSUME \A c \in next : ~Speaks(c, s), m = 0
            PROVE  page.last > 0 /\ (fetch.state = "none" => page.view[s] = ledger'[s])
        <4>1. ~Full /\ n = 0 BY <1>7, <3>4
        <4>2. \A c \in way : ~Speaks(c, s) BY <1>1, <1>2, <1>3, <3>4, <4>1
        <4> QED BY <3>1, <3>2, <4>1, <4>2
      <3> QED BY <3>3, <3>4
    <2> QED BY <2>1, <2>2
  <1> QED BY <1>3, <1>5, <1>9 DEF EachIsTold, WordsOn, LastOf

\* A full queue loses what was before all that waits then.
LEMMA PublishUntold ==
  ASSUME StreamInOrder, UntoldIsPast, NEW e \in Events, e.id = broker.seq + 1, broker'.seq = e.id,
         stream'.queue = IF Subscribed THEN Enqueue(e) ELSE stream.queue,
         untold' = Dropped, page'.last \in Nat, Subscribed => page'.last = page.last
  PROVE  UntoldIsPast'
  <1>1. PICK q : q = stream.queue OBVIOUS
  <1>2. PICK n : n = untold OBVIOUS
  <1>3. PICK t : t = IF Full THEN Tail(q) ELSE q OBVIOUS
  <1>4. PICK seq : seq = broker.seq OBVIOUS
  <1>5. /\ q \in Seq(Events) /\ n \in Nat /\ seq \in Nat /\ e.id \in Nat /\ e.id > seq
        /\ Full => q # << >>
        /\ Increasing(q) /\ NoneAfter(q, seq) /\ AllAfter(q, 0)
        /\ n <= page.last \/ (n <= seq /\ AllAfter(q, n))
        /\ ~Subscribed => q = << >>
    BY <1>1, <1>2, <1>4, EventIds, EmptySeq, SizesAssumption
    DEF StreamInOrder, StreamTypeOK, Streams, Full, BrokerInOrder, UntoldIsPast,
        ConnectionInOrder, Subscribed, Closed
  <1>6. CASE ~Subscribed
    <2>1. stream'.queue = << >> /\ untold' = 0 BY <1>1, <1>5, <1>6 DEF Dropped
    <2> QED BY <2>1, EmptyOrder DEF UntoldIsPast
  <1>7. CASE Subscribed
    <2>1. stream'.queue = Append(t, e) BY <1>1, <1>3, <1>7 DEF Enqueue
    <2>2. CASE Full
      <3>1. PICK h : h = Head(q) OBVIOUS
      <3>2. /\ h \in Events /\ h.id \in Nat /\ h.id <= seq
            /\ t \in Seq(Events) /\ AllAfter(t, h.id) /\ AllAfter(t, 0)
        BY <1>3, <1>5, <2>2, <3>1, TailOrder, EventIds
      <3>3. untold' = h.id BY <1>1, <1>7, <2>2, <3>1 DEF Dropped
      <3>4. AllAfter(Append(t, e), h.id) /\ AllAfter(Append(t, e), 0)
        BY <1>5, <3>2, AppendOrder
      <3>5. h.id <= e.id BY <1>5, <3>2
      <3> QED BY <2>1, <3>3, <3>4, <3>5 DEF UntoldIsPast
    <2>3. CASE ~Full
      <3>1. t = q /\ untold' = n BY <1>2, <1>3, <1>7, <2>3 DEF Dropped
      <3>2. AllAfter(Append(t, e), 0) BY <1>5, <3>1, AppendOrder
      <3>3. n <= seq /\ AllAfter(q, n) => n <= e.id /\ AllAfter(Append(t, e), n)
        BY <1>5, <3>1, AppendOrder
      <3> QED BY <1>5, <1>7, <2>1, <3>1, <3>2, <3>3 DEF UntoldIsPast
    <2> QED BY <2>2, <2>3
  <1> QED BY <1>6, <1>7

LEMMA PublishKeepsTold ==
  ASSUME StreamInOrder, PageIsTold, NEW e \in Events, e.id = broker.seq + 1, Publish(e),
         UNCHANGED <<wire, fetch>>,
         \/ page'.last = page.last /\ page'.view = page.view /\ foreign' = foreign
         \/ stream.state = "closed" /\ page'.last = 0,
         \A s \in Segments \ calls' :
            IF e.kind \in Fetching \/ e.seg = s
            THEN e.kind \in Fetching \/ e.value = ledger'[s]
            ELSE s \notin calls /\ ledger'[s] = ledger[s],
         e.kind \in Fetching \/ Active' \/ edited'
  PROVE  PageIsTold'
  <1>1. /\ broker'.seq = e.id /\ stream'.state = stream.state /\ stream'.replay = stream.replay
        /\ stream'.sent = stream.sent /\ untold' = Dropped
        /\ stream'.queue = IF Subscribed THEN Enqueue(e) ELSE stream.queue
    BY DEF Publish, StreamInOrder, StreamTypeOK, Streams
  <1>2. /\ broker.seq \in Nat /\ stream.sent \in Nat /\ page.last \in Nat /\ e.id \in Nat
        /\ stream.replay \in Seq(Events)
        /\ stream.state = "closed" => stream.sent = 0
        /\ stream.state \in {"closed", "replaying", "streaming"}
    BY EventIds DEF StreamInOrder, StreamTypeOK, Streams, Pages, ConnectionInOrder, Closed
  <1>3. NothingIsAhead'
    <2>1. NoneAfter(stream.replay, broker.seq)
          /\ (~foreign => page.last <= broker.seq /\ stream.sent <= broker.seq)
      BY DEF PageIsTold, NothingIsAhead
    <2>2. NoneAfter(stream.replay, e.id) BY <1>2, <2>1, EventIds DEF NoneAfter
    <2>3. ~foreign' => page'.last <= e.id /\ stream.sent <= e.id BY <1>2, <2>1
    <2> QED BY <1>1, <2>2, <2>3 DEF NothingIsAhead
  <1>4. UntoldIsPast'
    <2>1. page'.last \in Nat /\ (Subscribed => page'.last = page.last) BY <1>2 DEF Subscribed
    <2> QED BY <1>1, <2>1, PublishUntold DEF PageIsTold
  <1>5. CASE ~CaughtUp' BY <1>3, <1>4, <1>5 DEF PageIsTold, EachIsTold, ResultIsComing
  <1>6. CASE CaughtUp'
    <2>1. /\ stream.state = "streaming" /\ Subscribed /\ ~foreign
          /\ page'.last = page.last /\ page'.view = page.view
          /\ stream.sent <= broker.seq /\ stream'.queue = Enqueue(e)
      BY <1>1, <1>6 DEF CaughtUp, Subscribed, PageIsTold, NothingIsAhead
    <2>2. EachIsTold'
      <3>1. silent' = IF e.kind \in Fetching THEN {} ELSE silent \ {e.seg}
        BY DEF Publish, Mended
      <3>2. \A s \in Segments \ (calls' \cup silent') :
               IF e.kind \in Fetching \/ e.seg = s
               THEN e.kind \in Fetching \/ e.value = ledger'[s]
               ELSE /\ s \notin calls \cup silent
                    /\ ledger'[s] = ledger[s] /\ stream.state = "streaming"
        BY <2>1, <3>1
      <3> QED BY <1>1, <2>1, <3>2, PublishTells DEF PageIsTold
    <2>3. ResultIsComing'
      <3>1. CASE Active' \/ edited' BY <3>1 DEF ResultIsComing
      <3>2. CASE e.kind \in Fetching
        <4>1. e \in OnTheWay' /\ \A d \in OnTheWay' : d.id <= e.id
          BY <1>1, <1>2, <2>1, PublishWay, WayFacts
        <4> QED BY <3>2, <4>1 DEF ResultIsComing, LastOf
      <3> QED BY <3>1, <3>2
    <2> QED BY <1>3, <1>4, <2>2, <2>3 DEF PageIsTold
  <1> QED BY <1>5, <1>6

\* The events of the handlers, by what they say.
LEMMA EventsSay ==
  /\ Refresh.kind \in Fetching /\ Over.kind \in Fetching
  /\ \A kind, s, value : /\ Event(kind, s, value).kind = kind /\ Event(kind, s, value).seg = s
                         /\ Event(kind, s, value).value = value
  BY DEF Refresh, Over, ForAll, Event, Fetching

LEMMA PublishersTell ==
  ASSUME StreamInOrder, PageIsTold, PublisherSteps
  PROVE  PageIsTold'
  <1>1. /\ ledger \in [Segments -> Nat] /\ page \in Pages
        /\ {running, draining, foreign, edited} \subseteq BOOLEAN
        /\ ~page.streams => stream.state = "closed"
    BY DEF StreamInOrder, StreamTypeOK, ConnectionInOrder
  <1>2. ASSUME NEW here \in BOOLEAN, RunBegins(here) PROVE PageIsTold'
    <2>1. Publish(Refresh) /\ UNCHANGED <<ledger, calls, wire, fetch>>
      BY <1>2 DEF RunBegins
    <2>2. \/ page'.last = page.last /\ page'.view = page.view /\ foreign' = foreign
          \/ stream.state = "closed" /\ page'.last = 0
      BY <1>1, <1>2 DEF RunBegins, Pages, NoCursor
    <2> QED BY <2>1, <2>2, EventsMade, EventsSay, PublishKeepsTold
  <1>3. ASSUME StopRequested \/ RunReturns PROVE PageIsTold'
    <2>1. Publish(Over) /\ UNCHANGED <<ledger, wire, page, fetch, foreign>>
      BY <1>3 DEF StopRequested, RunReturns, pageVars
    <2> QED BY <2>1, EventsMade, EventsSay, PublishKeepsTold
  <1>4. ASSUME NEW s \in Segments, Delta(s) PROVE PageIsTold'
    <2>1. PICK e : e = Event("delta", s, Partial) OBVIOUS
    <2>2. /\ Publish(e) /\ UNCHANGED <<ledger, wire, page, fetch, foreign>>
          /\ calls' = calls \cup {s} /\ Active'
      BY <1>4, <2>1 DEF Delta, Active, pageVars
    <2>3. e \in Events /\ e.id = broker.seq + 1 /\ e.seg = s
      <3>1. Partial \in Values BY DEF Values
      <3> QED BY <2>1, <3>1, EventsMade, EventsSay
    <2>4. \A t \in Segments \ calls' : t # s /\ t \notin calls /\ ledger'[t] = ledger[t] BY <2>2
    <2>5. e.kind \notin Fetching BY <2>1, EventsSay DEF Fetching
    <2> QED BY <2>2, <2>3, <2>4, <2>5, PublishKeepsTold
  <1>5. ASSUME NEW s \in Segments, SegmentDone(s) \/ EditElsewhere(s) PROVE PageIsTold'
    <2>1. PICK e : e = Event("segment", s, ledger[s] + 1) OBVIOUS
    <2>2. /\ Publish(e) /\ UNCHANGED <<wire, page, fetch, foreign>>
          /\ ledger' = [ledger EXCEPT ![s] = @ + 1]
          /\ calls' = calls \/ calls' = calls \ {s}
          /\ Active' \/ edited'
      <3>1. CASE SegmentDone(s) BY <2>1, <3>1 DEF SegmentDone, Writes, Active, pageVars
      <3>2. CASE EditElsewhere(s) BY <2>1, <3>2 DEF EditElsewhere, Writes, Active, pageVars
      <3> QED BY <1>5, <3>1, <3>2
    <2>3. ledger[s] + 1 \in Values BY <1>1 DEF Values
    <2>4. /\ e \in Events /\ e.id = broker.seq + 1 /\ e.seg = s /\ e.value = ledger'[s]
      BY <1>1, <2>1, <2>2, <2>3, EventsMade, EventsSay
    <2>5. \A t \in Segments \ calls' : t # s => t \notin calls /\ ledger'[t] = ledger[t]
      BY <1>1, <2>2
    <2>6. e.kind \notin Fetching BY <2>1, EventsSay DEF Fetching
    <2> QED BY <2>2, <2>4, <2>5, <2>6, PublishKeepsTold
  <1>6. ASSUME NEW s \in Segments, SegmentFails(s) PROVE PageIsTold'
    <2>1. Publish(Refresh) /\ UNCHANGED <<ledger, wire, page, fetch, foreign>>
      BY <1>6 DEF SegmentFails, pageVars
    <2> QED BY <2>1, EventsMade, EventsSay, PublishKeepsTold
  <1> QED BY <1>2, <1>3, <1>4, <1>5, <1>6 DEF PublisherSteps

\* A call that ends without a word: the page is promised nothing of it any more.
LEMMA SkippedTells ==
  ASSUME StreamInOrder, PageIsTold, NEW s \in Segments, SegmentSkipped(s)
  PROVE  PageIsTold'
  <1>1. /\ UNCHANGED <<ledger, running, draining, broker, stream, wire, page, fetch, untold, foreign,
                      edited>>
        /\ draining /\ calls' \cup silent' = calls \cup silent \cup {s}
    BY DEF SegmentSkipped, pageVars
  <1>2. OnTheWay' = OnTheWay /\ (CaughtUp' <=> CaughtUp)
    BY <1>1 DEF OnTheWay, AlreadySent, CaughtUp
  <1>3. NothingIsAhead' /\ UntoldIsPast' BY <1>1 DEF PageIsTold, NothingIsAhead, UntoldIsPast
  <1>4. EachIsTold' BY <1>1, <1>2 DEF PageIsTold, EachIsTold, WordsOn, LastOf
  <1>5. ResultIsComing' BY <1>1 DEF ResultIsComing, Active
  <1> QED BY <1>3, <1>4, <1>5 DEF PageIsTold

\* A connection that ends, or is not yet through with its replay, owes the page
\* its snapshot and promises nothing before.
LEMMA OwingTells ==
  ASSUME StreamInOrder, PageIsTold, SendReplay \/ Connect \/ Cut \/ Restart \/ Opened \/ PollSaysIdle
  PROVE  PageIsTold'
  <1>1. /\ page \in Pages /\ page.last \in Nat /\ untold \in Nat /\ broker.seq \in Nat
        /\ stream \in Streams /\ stream.sent \in Nat /\ stream.replay \in Seq(Events)
        /\ AllAfter(stream.queue, 0)
        /\ untold <= page.last \/ (untold <= broker.seq /\ AllAfter(stream.queue, untold))
        /\ NoneAfter(stream.replay, broker.seq)
        /\ ~foreign => page.last <= broker.seq /\ stream.sent <= broker.seq
    BY DEF StreamInOrder, StreamTypeOK, Pages, Streams, PageIsTold, UntoldIsPast, NothingIsAhead
  <1>2. CASE SendReplay
    <2>1. PICK e : e = Head(stream.replay) OBVIOUS
    <2>2. PICK r : r = Tail(stream.replay) OBVIOUS
    <2>3. /\ stream.replay # << >> /\ stream.state = "replaying"
          /\ stream' = [stream EXCEPT !.replay = r, !.sent = SentAfter(e)]
          /\ UNCHANGED <<broker, page, untold, foreign>>
      BY <1>2, <2>1, <2>2 DEF SendReplay, runVars, pageVars
    <2>4. e.id \in Nat /\ e.id <= broker.seq /\ NoneAfter(r, broker.seq)
      BY <1>1, <2>1, <2>2, <2>3, TailOrder, EventIds
    <2>5. /\ stream'.replay = r /\ stream'.sent = SentAfter(e) /\ stream'.queue = stream.queue
          /\ stream'.state = "replaying"
      BY <1>1, <2>3 DEF Streams
    <2>6. NothingIsAhead' BY <1>1, <2>3, <2>4, <2>5 DEF NothingIsAhead, SentAfter
    <2>7. UntoldIsPast' BY <1>1, <2>3, <2>5 DEF UntoldIsPast
    <2> QED BY <2>5, <2>6, <2>7 DEF PageIsTold, EachIsTold, ResultIsComing, CaughtUp
  <1>3. CASE Connect
    <2>1. /\ stream' = [state |-> "replaying", queue |-> << >>,
                        replay |-> Replay(page.last), sent |-> page.last]
          /\ UNCHANGED <<broker, page, untold, foreign>>
      BY <1>3 DEF Connect, runVars, pageVars
    <2>2. NoneAfter(Replay(page.last), broker.seq) BY <1>1, ReplayOrder DEF StreamInOrder
    <2>3. NothingIsAhead' BY <1>1, <2>1, <2>2 DEF NothingIsAhead
    <2>4. UntoldIsPast' BY <1>1, <2>1, EmptyOrder DEF UntoldIsPast
    <2> QED BY <2>1, <2>3, <2>4 DEF PageIsTold, EachIsTold, ResultIsComing, CaughtUp
  <1>4. CASE Cut \/ Restart \/ Opened \/ PollSaysIdle
    <2>1. /\ stream'.state = "closed" /\ stream'.queue = << >> /\ stream'.replay = << >>
          /\ stream'.sent = 0
      BY <1>4 DEF Cut, Restart, Opened, PollSaysIdle, Breaks, Closed, runVars, pageVars
    <2>2. /\ broker'.seq \in Nat /\ (~foreign' => page'.last <= broker'.seq)
          /\ untold' <= page'.last \/ untold' <= broker'.seq
      <3>1. CASE Cut BY <1>1, <3>1 DEF Cut, runVars, pageVars
      <3>2. CASE Restart
        <4>1. broker'.seq = 0 /\ untold' = 0 /\ page' = page BY <3>2 DEF Restart, runVars, pageVars
        <4>2. foreign' = (page.last # 0) BY <3>2 DEF Restart, NoCursor, runVars, pageVars
        <4>3. ~foreign' => page.last = 0 BY <4>2
        <4> QED BY <1>1, <4>1, <4>3
      <3>3. CASE Opened BY <1>1, <3>3 DEF Opened, NoCursor, runVars, pageVars
      <3>4. CASE PollSaysIdle
        <4>1. page'.last = page.last BY <1>1, <3>4 DEF PollSaysIdle, Pages, runVars, pageVars
        <4> QED BY <1>1, <3>4, <4>1 DEF PollSaysIdle, runVars, pageVars
      <3> QED BY <1>4, <3>1, <3>2, <3>3, <3>4
    <2>3. NothingIsAhead' BY <2>1, <2>2, EmptyOrder DEF NothingIsAhead
    <2>4. UntoldIsPast' BY <2>1, <2>2, EmptyOrder DEF UntoldIsPast
    <2> QED BY <2>1, <2>3, <2>4 DEF PageIsTold, EachIsTold, ResultIsComing, CaughtUp
  <1> QED BY <1>2, <1>3, <1>4

\* The snapshot of a connection speaks of all segments.
LEMMA SnapshotTells ==
  ASSUME StreamInOrder, PageIsTold, Snapshot
  PROVE  PageIsTold'
  <1>1. PICK e : e = IF Active THEN Refresh ELSE Over OBVIOUS
  <1>2. /\ e \in Events /\ e.id = broker.seq + 1 /\ e.id \in Nat /\ e.kind \in Fetching
    BY <1>1, EventsMade, EventsSay, EventIds
  <1>3. /\ stream.state = "replaying" /\ Subscribed
        /\ broker' = [broker EXCEPT !.seq = e.id, !.history = Remember(e)]
        /\ stream' = [stream EXCEPT !.state = "streaming", !.queue = Enqueue(e)]
        /\ untold' = Dropped
        /\ UNCHANGED <<wire, page, fetch, foreign>>
    BY <1>1 DEF Snapshot, Subscribed, runVars, pageVars
  <1>4. /\ broker'.seq = e.id /\ stream'.queue = Enqueue(e) /\ stream'.sent = stream.sent
        /\ stream'.replay = stream.replay
        /\ page.last \in Nat /\ broker.seq \in Nat /\ stream.sent \in Nat
        /\ stream.replay \in Seq(Events)
    BY <1>3 DEF StreamInOrder, StreamTypeOK, Streams, Pages
  <1>5. NothingIsAhead'
    <2>1. NoneAfter(stream.replay, broker.seq)
          /\ (~foreign => page.last <= broker.seq /\ stream.sent <= broker.seq)
      BY DEF PageIsTold, NothingIsAhead
    <2>2. NoneAfter(stream.replay, e.id) BY <1>2, <1>4, <2>1, EventIds DEF NoneAfter
    <2> QED BY <1>2, <1>3, <1>4, <2>1, <2>2 DEF NothingIsAhead
  <1>6. UntoldIsPast' BY <1>2, <1>3, <1>4, PublishUntold DEF PageIsTold
  <1>7. CASE foreign BY <1>3, <1>5, <1>6, <1>7 DEF PageIsTold, EachIsTold, ResultIsComing, CaughtUp
  <1>8. CASE ~foreign
    <2>1. stream.sent <= broker.seq BY <1>8 DEF PageIsTold, NothingIsAhead
    <2>2. EachIsTold' BY <1>2, <1>3, <1>4, <1>8, <2>1, PublishTells DEF PageIsTold
    <2>3. e \in OnTheWay' /\ \A d \in OnTheWay' : d.id <= e.id
      BY <1>2, <1>3, <1>4, <2>1, PublishWay, WayFacts
    <2>4. ResultIsComing' BY <1>2, <2>3 DEF ResultIsComing, LastOf
    <2> QED BY <1>5, <1>6, <2>2, <2>4 DEF PageIsTold
  <1> QED BY <1>7, <1>8

\* From the queue to the wire nothing is lost: what is not sent again has been.
LEMMA SendNextTells ==
  ASSUME StreamInOrder, PageIsTold, SendNext
  PROVE  PageIsTold'
  <1>1. PICK q : q = stream.queue OBVIOUS
  <1>2. PICK e : e = Head(q) OBVIOUS
  <1>3. PICK t : t = Tail(q) OBVIOUS
  <1>4. PICK n : n = stream.sent OBVIOUS
  <1>5. PICK w : w = wire OBVIOUS
  <1>6. /\ q \in Seq(Events) /\ q # << >> /\ Increasing(q) /\ NoneAfter(q, broker.seq)
        /\ n \in Nat /\ w \in Seq(Events) /\ stream \in Streams /\ broker.seq \in Nat
        /\ stream.state = "streaming" /\ page.last \in Nat /\ untold \in Nat
        /\ stream' = [stream EXCEPT !.queue = t, !.sent = SentAfter(e)]
        /\ IF AlreadySent(e) THEN wire' = w ELSE Sends(e)
        /\ UNCHANGED <<ledger, calls, running, draining, silent,
                       broker, page, fetch, untold, foreign, edited>>
    BY <1>1, <1>2, <1>3, <1>4, <1>5
    DEF SendNext, StreamInOrder, StreamTypeOK, BrokerInOrder, Streams, Pages, runVars, pageVars
  <1>7. /\ e \in Events /\ e.id \in Nat /\ e.id <= broker.seq /\ e = q[1]
        /\ t \in Seq(Events) /\ Len(t) \in Nat /\ Len(q) = Len(t) + 1
        /\ \A i \in 1 .. Len(t) : t[i] = q[i + 1]
        /\ AllAfter(t, e.id)
        /\ \A m \in Nat : AllAfter(q, m) => AllAfter(t, m)
    BY <1>2, <1>3, <1>6, TailOrder, EventIds
  <1>8. /\ stream'.queue = t /\ stream'.sent = SentAfter(e) /\ stream'.state = stream.state
        /\ stream'.replay = stream.replay
    BY <1>6 DEF Streams
  <1>9. PICK m : m = SentAfter(e) OBVIOUS
  <1>10. NothingIsAhead'
    <2>1. ~foreign => m <= broker.seq
      BY <1>4, <1>6, <1>7, <1>9 DEF SentAfter, PageIsTold, NothingIsAhead
    <2> QED BY <1>6, <1>8, <1>9, <2>1 DEF PageIsTold, NothingIsAhead
  <1>11. UntoldIsPast'
    <2>1. AllAfter(q, 0) /\ (untold <= page.last \/ (untold <= broker.seq /\ AllAfter(q, untold)))
      BY <1>1 DEF PageIsTold, UntoldIsPast
    <2>2. AllAfter(t, 0) /\ (AllAfter(q, untold) => AllAfter(t, untold)) BY <1>6, <1>7, <2>1
    <2> QED BY <1>6, <1>8, <2>1, <2>2 DEF UntoldIsPast
  <1>12. OnTheWay = {w[i] : i \in 1 .. Len(w)} \cup {q[i] : i \in {j \in 1 .. Len(q) : ~(q[j].id <= n)}}
    BY <1>1, <1>4, <1>5 DEF OnTheWay, AlreadySent
  <1>13. OnTheWay' = {wire'[i] : i \in 1 .. Len(wire')}
                       \cup {t[i] : i \in {j \in 1 .. Len(t) : ~(t[j].id <= m)}}
    BY <1>8, <1>9 DEF OnTheWay, AlreadySent
  <1>14. \A i \in 1 .. Len(q) : i = 1 \/ \E j \in 1 .. Len(t) : i = j + 1
    <2>1. ASSUME NEW i \in 1 .. Len(q), i # 1 PROVE \E j \in 1 .. Len(t) : i = j + 1
      <3>1. PICK j : j = i - 1 OBVIOUS
      <3>2. j \in 1 .. Len(t) /\ i = j + 1 BY <1>7, <2>1, <3>1
      <3> QED BY <3>2
    <2> QED BY <2>1
  <1>15. \A i \in 1 .. Len(t) : i + 1 \in 1 .. Len(q) /\ q[i + 1] = t[i] /\ t[i].id \in Nat /\ t[i].id > e.id
    BY <1>7, EventIds DEF AllAfter
  <1>16. OnTheWay' = OnTheWay
    <2>1. CASE AlreadySent(e)
      <3>1. e.id <= n /\ m = n /\ wire' = w
        BY <1>4, <1>6, <1>7, <1>9, <2>1 DEF AlreadySent, SentAfter
      <3>2. {q[i] : i \in {j \in 1 .. Len(q) : ~(q[j].id <= n)}}
              = {t[i] : i \in {j \in 1 .. Len(t) : ~(t[j].id <= m)}}
        <4>1. ASSUME NEW i \in 1 .. Len(q), ~(q[i].id <= n)
              PROVE  \E j \in 1 .. Len(t) : q[i] = t[j] /\ ~(t[j].id <= m)
          BY <1>7, <1>14, <1>15, <3>1, <4>1
        <4>2. ASSUME NEW j \in 1 .. Len(t), ~(t[j].id <= m)
              PROVE  \E i \in 1 .. Len(q) : q[i] = t[j] /\ ~(q[i].id <= n)
          BY <1>15, <3>1, <4>2
        <4> QED BY <4>1, <4>2
      <3> QED BY <1>12, <1>13, <3>1, <3>2
    <2>2. CASE ~AlreadySent(e)
      <3>1. e.id > n /\ m = e.id /\ wire' = Append(w, e)
        BY <1>4, <1>5, <1>6, <1>7, <1>9, <2>2 DEF AlreadySent, SentAfter, Sends
      <3>2. PICK v : v = Append(w, e) OBVIOUS
      <3>3. /\ v \in Seq(Events) /\ Len(v) = Len(w) + 1 /\ v[Len(w) + 1] = e /\ Len(w) \in Nat
            /\ \A i \in 1 .. Len(w) : v[i] = w[i]
        BY <1>6, <1>7, <3>2, AppendOrder, EventIds
      <3>4. {v[i] : i \in 1 .. Len(v)} = {w[i] : i \in 1 .. Len(w)} \cup {e}
        <4>1. \A i \in 1 .. Len(v) : i \in 1 .. Len(w) \/ i = Len(w) + 1 BY <3>3
        <4>2. Len(w) + 1 \in 1 .. Len(v) /\ \A i \in 1 .. Len(w) : i \in 1 .. Len(v) BY <3>3
        <4> QED BY <3>3, <4>1, <4>2
      <3>5. {q[i] : i \in {j \in 1 .. Len(q) : ~(q[j].id <= n)}}
              = {e} \cup {t[i] : i \in {j \in 1 .. Len(t) : ~(t[j].id <= m)}}
        <4>1. ASSUME NEW i \in 1 .. Len(q), ~(q[i].id <= n)
              PROVE  q[i] = e \/ \E j \in 1 .. Len(t) : q[i] = t[j] /\ ~(t[j].id <= m)
          <5>1. CASE i = 1 BY <1>7, <5>1
          <5>2. ASSUME NEW j \in 1 .. Len(t), i = j + 1 PROVE q[i] = t[j] /\ ~(t[j].id <= m)
            <6>1. q[i] = t[j] /\ t[j].id \in Nat /\ t[j].id > e.id BY <1>15, <5>2
            <6> QED BY <1>7, <3>1, <6>1
          <5> QED BY <1>14, <5>1, <5>2
        <4>2. ASSUME NEW j \in 1 .. Len(t), ~(t[j].id <= m)
              PROVE  \E i \in 1 .. Len(q) : q[i] = t[j] /\ ~(q[i].id <= n)
          <5>1. PICK i : i = j + 1 OBVIOUS
          <5>2. i \in 1 .. Len(q) /\ q[i] = t[j] /\ t[j].id \in Nat /\ t[j].id > e.id
            BY <1>15, <5>1
          <5>3. ~(q[i].id <= n) BY <1>6, <1>7, <3>1, <5>2
          <5> QED BY <5>2, <5>3
        <4>3. 1 \in 1 .. Len(q) /\ q[1] = e /\ ~(q[1].id <= n) BY <1>6, <1>7, <3>1
        <4> QED BY <4>1, <4>2, <4>3
      <3> QED BY <1>12, <1>13, <3>1, <3>2, <3>4, <3>5
    <2> QED BY <2>1, <2>2
  <1>17. EachIsTold'
    BY <1>6, <1>8, <1>16 DEF PageIsTold, EachIsTold, CaughtUp, WordsOn, LastOf
  <1>18. ResultIsComing'
    BY <1>6, <1>8, <1>16 DEF PageIsTold, ResultIsComing, CaughtUp, LastOf, Active
  <1> QED BY <1>10, <1>11, <1>17, <1>18 DEF PageIsTold

\* What arrives is the oldest on the way; the last word on a segment makes it
\* right, or makes the page fetch all of them.
LEMMA ReceiveTells ==
  ASSUME StreamInOrder, PageIsTold, Receive
  PROVE  PageIsTold'
  <1>1. PICK e : e = Head(wire) OBVIOUS
  <1>2. /\ wire # << >> /\ wire' = Tail(wire)
        /\ page' = [page EXCEPT !.last = e.id, !.view = Shown(e), !.forced = @ /\ e.kind # "over"]
        /\ fetch' = IF e.kind \in Fetching THEN [state |-> "asked", read |-> NothingRead] ELSE fetch
        /\ untold' = IF e.kind \in Fetching /\ e.id > untold THEN 0 ELSE untold
        /\ UNCHANGED <<ledger, calls, running, draining, silent, broker, stream, foreign, edited>>
    BY <1>1 DEF Receive, runVars, pageVars
  <1>3. /\ wire \in Seq(Events) /\ page \in Pages /\ page.last \in Nat /\ stream.sent \in Nat
        /\ page.view \in [Segments -> Values] /\ untold \in Nat /\ broker.seq \in Nat
        /\ stream.queue \in Seq(Events)
        /\ Increasing(wire) /\ AllAfter(wire, page.last) /\ NoneAfter(wire, stream.sent)
    BY DEF StreamInOrder, StreamTypeOK, ConnectionInOrder, Streams, Pages
  <1>4. /\ e \in Events /\ e.id \in Nat /\ e.id > page.last /\ e.id <= stream.sent
        /\ e = wire[1] /\ Len(wire) = Len(wire') + 1 /\ wire' \in Seq(Events)
        /\ \A i \in 1 .. Len(wire') : wire'[i] = wire[i + 1]
        /\ AllAfter(wire', e.id)
    BY <1>1, <1>2, <1>3, TailOrder, EventIds
  <1>5. page'.last = e.id /\ page'.view = Shown(e) BY <1>2, <1>3 DEF Pages
  <1>6. /\ e.seg \in Segments /\ e.kind \in {"segment", "delta", "refresh", "over"}
    BY <1>4 DEF Events
  <1>7. PICK way : way = OnTheWay OBVIOUS
  <1>8. PICK next : next = OnTheWay' OBVIOUS
  <1>9. /\ e \in way /\ next \subseteq way /\ \A d \in way : d = e \/ d \in next
        /\ \A d \in way : d.id \in Nat
        /\ \A d \in next : d.id > e.id
    <2>1. PICK w : w = wire' OBVIOUS
    <2>2. PICK v : v = wire OBVIOUS
    <2>3. PICK rest : rest = {stream.queue[i] : i \in {j \in 1 .. Len(stream.queue) : ~AlreadySent(stream.queue[j])}}
      OBVIOUS
    <2>4. rest' = rest OBVIOUS
    <2>5. way = {v[i] : i \in 1 .. Len(v)} \cup rest BY <1>7, <2>2, <2>3 DEF OnTheWay
    <2>6. next = {w[i] : i \in 1 .. Len(w)} \cup rest
      BY <1>2, <1>8, <2>1, <2>3 DEF OnTheWay, AlreadySent
    <2>7. /\ e = v[1] /\ Len(v) = Len(w) + 1 /\ Len(w) \in Nat
          /\ \A i \in 1 .. Len(w) : w[i] = v[i + 1]
      BY <1>4, <2>1, <2>2, EventIds
    <2>8. 1 \in 1 .. Len(v) /\ \A i \in 1 .. Len(w) : i + 1 \in 1 .. Len(v) BY <2>7
    <2>9. ASSUME NEW i \in 1 .. Len(v), i # 1 PROVE \E j \in 1 .. Len(w) : v[i] = w[j]
      <3>1. PICK j : j = i - 1 OBVIOUS
      <3>2. j \in 1 .. Len(w) /\ i = j + 1 BY <2>7, <2>9, <3>1
      <3> QED BY <2>7, <3>2
    <2>10. ASSUME NEW d \in next PROVE d.id > e.id
      <3>1. CASE \E i \in 1 .. Len(w) : d = w[i] BY <1>4, <2>1, <3>1 DEF AllAfter
      <3>2. CASE d \in rest
        <4>1. PICK i \in 1 .. Len(stream.queue) :
                 d = stream.queue[i] /\ ~AlreadySent(stream.queue[i])
          BY <2>3, <3>2
        <4>2. d.id \in Nat /\ d.id > stream.sent BY <1>3, <4>1, EventIds DEF AlreadySent
        <4> QED BY <1>3, <1>4, <4>2
      <3> QED BY <2>6, <2>10, <3>1, <3>2
    <2>11. e \in way BY <2>5, <2>7, <2>8
    <2>12. next \subseteq way
      <3>1. \A i \in 1 .. Len(w) : w[i] \in {v[j] : j \in 1 .. Len(v)} BY <2>7, <2>8
      <3> QED BY <2>5, <2>6, <3>1
    <2>13. ASSUME NEW d \in way PROVE d = e \/ d \in next
      <3>1. CASE d \in rest BY <2>6, <3>1
      <3>2. ASSUME NEW i \in 1 .. Len(v), d = v[i] PROVE d = e \/ d \in next
        BY <2>6, <2>7, <2>9, <3>2
      <3> QED BY <2>5, <3>1, <3>2
    <2>14. \A d \in way : d.id \in Nat BY <1>7, WayFacts
    <2> QED BY <2>10, <2>11, <2>12, <2>13, <2>14
  <1>10. NothingIsAhead'
    <2>1. ~foreign => e.id <= broker.seq
      BY <1>3, <1>4 DEF PageIsTold, NothingIsAhead
    <2> QED BY <1>2, <1>5, <2>1 DEF PageIsTold, NothingIsAhead
  <1>11. UntoldIsPast'
    BY <1>2, <1>3, <1>4, <1>5 DEF PageIsTold, UntoldIsPast
  <1>12. EachIsTold'
    <2> SUFFICES ASSUME CaughtUp', NEW s \in Segments \ (calls \cup silent)
                 PROVE  /\ \A d \in next : (d.kind \in Fetching \/ d.seg = s) /\ d.id > untold'
                              /\ (\A c \in next : c.kind \in Fetching \/ c.seg = s => c.id <= d.id)
                              => d.kind \in Fetching \/ d.value = ledger[s]
                        /\ (\A c \in next : ~(c.kind \in Fetching \/ c.seg = s)) /\ untold' = 0 =>
                              /\ page'.last > 0
                              /\ fetch'.state = "none" => page'.view[s] = ledger[s]
      BY <1>2, <1>8 DEF EachIsTold, WordsOn, LastOf
    <2>1. CaughtUp BY <1>2 DEF CaughtUp
    <2>2. /\ \A d \in way : (d.kind \in Fetching \/ d.seg = s) /\ d.id > untold
                /\ (\A c \in way : c.kind \in Fetching \/ c.seg = s => c.id <= d.id)
                => d.kind \in Fetching \/ d.value = ledger[s]
          /\ (\A c \in way : ~(c.kind \in Fetching \/ c.seg = s)) /\ untold = 0 =>
                page.last > 0 /\ (fetch.state = "none" => page.view[s] = ledger[s])
      BY <1>7, <2>1 DEF PageIsTold, EachIsTold, WordsOn, LastOf
    <2>3. ASSUME NEW d \in next, d.kind \in Fetching \/ d.seg = s, d.id > untold',
                 \A c \in next : c.kind \in Fetching \/ c.seg = s => c.id <= d.id
          PROVE  d.kind \in Fetching \/ d.value = ledger[s]
      <3>1. d \in way /\ d.id > e.id /\ d.id \in Nat BY <1>9, <2>3
      <3>2. d.id > untold BY <1>2, <1>3, <1>4, <2>3, <3>1
      <3>3. \A c \in way : c.kind \in Fetching \/ c.seg = s => c.id <= d.id
        BY <1>4, <1>9, <2>3, <3>1
      <3> QED BY <2>2, <2>3, <3>1, <3>2, <3>3
    <2>4. ASSUME \A c \in next : ~(c.kind \in Fetching \/ c.seg = s), untold' = 0
          PROVE  page'.last > 0 /\ (fetch'.state = "none" => page'.view[s] = ledger[s])
      <3>1. page'.last > 0 BY <1>3, <1>4, <1>5
      <3>2. CASE e.kind \in Fetching BY <1>2, <3>1, <3>2
      <3>3. CASE e.kind \notin Fetching
        <4>1. fetch' = fetch /\ untold = 0 BY <1>2, <2>4, <3>3
        <4>2. Shown(e) = [page.view EXCEPT ![e.seg] = e.value] BY <1>6, <3>3 DEF Shown, Fetching
        <4>3. CASE e.seg = s
          <5>1. e.id > untold BY <1>3, <1>4, <4>1
          <5>2. \A c \in way : c.kind \in Fetching \/ c.seg = s => c.id <= e.id
            BY <1>4, <1>9, <2>4
          <5>3. e.value = ledger[s] BY <1>9, <2>2, <3>3, <4>3, <5>1, <5>2
          <5> QED BY <1>3, <1>5, <3>1, <4>2, <4>3, <5>3
        <4>4. CASE e.seg # s
          <5>1. \A c \in way : ~(c.kind \in Fetching \/ c.seg = s) BY <1>9, <2>4, <3>3, <4>4
          <5>2. page'.view[s] = page.view[s] BY <1>3, <1>5, <4>2, <4>4
          <5> QED BY <2>2, <3>1, <4>1, <5>1, <5>2
        <4> QED BY <4>3, <4>4
      <3> QED BY <3>2, <3>3
    <2> QED BY <2>3, <2>4
  <1>13. ResultIsComing'
    <2> SUFFICES ASSUME CaughtUp, ~Active, ~edited
                 PROVE  \/ \E d \in next : (\A c \in next : c.id <= d.id) /\ d.kind \in Fetching
                        \/ next = {} /\ fetch'.state = "asked"
      BY <1>2, <1>8 DEF ResultIsComing, CaughtUp, LastOf, Active
    <2>1. PICK d \in way : (\A c \in way : c.id <= d.id) /\ d.kind \in Fetching
      BY <1>7, <1>9 DEF PageIsTold, ResultIsComing, LastOf
    <2>2. CASE d \in next BY <1>9, <2>1, <2>2
    <2>3. CASE d = e
      <3>1. next = {} BY <1>4, <1>9, <2>1, <2>3
      <3> QED BY <1>2, <2>1, <2>3, <3>1
    <2> QED BY <1>9, <2>1, <2>2, <2>3
  <1> QED BY <1>10, <1>11, <1>12, <1>13 DEF PageIsTold

\* A fetch brings what it has read; if that is no longer true, the page misses it.
LEMMA FetchTells ==
  ASSUME StreamInOrder, PageIsTold, FetchReads \/ FetchArrives
  PROVE  PageIsTold'
  <1>1. /\ page \in Pages /\ page.last \in Nat /\ untold \in Nat
        /\ page'.last = page.last
        /\ UNCHANGED <<ledger, calls, running, draining, silent,
                       broker, stream, wire, foreign, edited>>
    BY DEF FetchReads, FetchArrives, StreamInOrder, StreamTypeOK, Pages, runVars, pageVars
  <1>2. OnTheWay' = OnTheWay /\ (CaughtUp' <=> CaughtUp)
    BY <1>1 DEF OnTheWay, AlreadySent, CaughtUp
  <1>3. NothingIsAhead' BY <1>1 DEF PageIsTold, NothingIsAhead
  <1>4. \A d \in OnTheWay : d.id \in Nat /\ d.id > page.last BY WayFacts
  <1>5. CASE FetchReads
    <2>1. /\ fetch.state = "asked" /\ fetch'.state = "read" /\ fetch'.read = ledger
          /\ UNCHANGED <<page, untold>>
      BY <1>5 DEF FetchReads, runVars, pageVars
    <2>2. UntoldIsPast' BY <1>1, <2>1 DEF PageIsTold, UntoldIsPast
    <2>3. EachIsTold'
      BY <1>1, <1>2, <2>1 DEF PageIsTold, EachIsTold, WordsOn, LastOf
    <2>4. ResultIsComing'
      BY <1>1, <1>2, <2>1 DEF PageIsTold, ResultIsComing, LastOf, Active
    <2> QED BY <1>3, <2>2, <2>3, <2>4 DEF PageIsTold
  <1>6. CASE FetchArrives
    <2>1. /\ fetch.state = "read" /\ fetch'.state = "none" /\ page'.view = fetch.read
          /\ untold' = IF fetch.read # ledger /\ page.last > untold THEN page.last ELSE untold
      BY <1>1, <1>6 DEF FetchArrives, NoFetch, Pages, runVars, pageVars
    <2>2. UntoldIsPast' BY <1>1, <2>1 DEF PageIsTold, UntoldIsPast
    <2>3. ASSUME NEW d \in OnTheWay, d.id > untold' PROVE d.id > untold
      BY <1>1, <1>4, <2>1, <2>3
    <2>4. untold' = 0 => untold = 0 /\ (page.last > 0 => page'.view = ledger)
      BY <1>1, <2>1
    <2>5. EachIsTold'
      <3> SUFFICES ASSUME CaughtUp, NEW s \in Segments \ (calls \cup silent)
                   PROVE  /\ \A d \in WordsOn(s) : LastOf(WordsOn(s), d) /\ d.id > untold' =>
                                d.kind \in Fetching \/ d.value = ledger[s]
                          /\ WordsOn(s) = {} /\ untold' = 0 =>
                                page.last > 0 /\ page'.view[s] = ledger[s]
        BY <1>1, <1>2, <2>1 DEF EachIsTold, WordsOn, LastOf
      <3> QED BY <2>3, <2>4 DEF PageIsTold, EachIsTold, WordsOn
    <2>6. ResultIsComing'
      BY <1>1, <1>2, <2>1 DEF PageIsTold, ResultIsComing, LastOf, Active
    <2> QED BY <1>3, <2>2, <2>5, <2>6 DEF PageIsTold
  <1> QED BY <1>5, <1>6

-----------------------------------------------------------------------------
(* The event stream: the theorems *)

LEMMA StreamInductiveInit == StreamInit => StreamInductive
  <1> SUFFICES ASSUME StreamInit PROVE StreamInductive OBVIOUS
  <1>1. StreamInOrder BY StreamInOrderInit
  <1>2. /\ stream.state = "closed" /\ stream.queue = << >> /\ stream.replay = << >>
        /\ stream.sent = 0 /\ page.last = 0 /\ untold = 0 /\ broker.seq = 0
    BY DEF StreamInit, Closed, NoCursor
  <1>3. NothingIsAhead /\ UntoldIsPast BY <1>2, EmptyOrder DEF NothingIsAhead, UntoldIsPast
  <1>4. EachIsTold /\ ResultIsComing BY <1>2 DEF EachIsTold, ResultIsComing, CaughtUp
  <1> QED BY <1>1, <1>3, <1>4 DEF StreamInductive, PageIsTold

LEMMA StreamInductiveStep == StreamInductive /\ [StreamNext]_streamVars => StreamInductive'
  <1> SUFFICES ASSUME StreamInOrder, PageIsTold, [StreamNext]_streamVars PROVE PageIsTold'
    BY StreamInOrderStep DEF StreamInductive
  <1>1. CASE UNCHANGED streamVars
    <2>1. UNCHANGED <<ledger, calls, running, draining, silent, broker, stream, wire, page, fetch,
                      untold, foreign, edited>>
      BY <1>1 DEF streamVars
    <2>2. OnTheWay' = OnTheWay /\ (CaughtUp' <=> CaughtUp)
      BY <2>1 DEF OnTheWay, AlreadySent, CaughtUp
    <2>3. NothingIsAhead' /\ UntoldIsPast' BY <2>1 DEF PageIsTold, NothingIsAhead, UntoldIsPast
    <2>4. EachIsTold' BY <2>1, <2>2 DEF PageIsTold, EachIsTold, WordsOn, LastOf
    <2>5. ResultIsComing' BY <2>1, <2>2 DEF PageIsTold, ResultIsComing, LastOf, Active
    <2> QED BY <2>3, <2>4, <2>5 DEF PageIsTold
  <1>2. CASE PublisherSteps \/ \E s \in Segments : SegmentSkipped(s)
    BY <1>2, PublishersTell, SkippedTells
  <1>3. CASE SendReplay \/ Connect \/ Cut \/ Restart \/ Opened \/ PollSaysIdle BY <1>3, OwingTells
  <1>4. CASE Snapshot BY <1>4, SnapshotTells
  <1>5. CASE SendNext BY <1>5, SendNextTells
  <1>6. CASE Receive BY <1>6, ReceiveTells
  <1>7. CASE FetchReads \/ FetchArrives BY <1>7, FetchTells
  <1> QED BY <1>1, <1>2, <1>3, <1>4, <1>5, <1>6, <1>7 DEF StreamNext, PublisherSteps

\* StreamInductive holds in every reachable state: the history is the last events
\* the broker gave out; replay, wire, queue and the page's cursor follow each other
\* in the order of the ids (runtime.py 33-60, stream.py 57-93); and what is on its
\* way makes the page show what it does not show yet.
THEOREM StreamInvariant == StreamSpec => []StreamInductive
  <1> QED BY StreamInductiveInit, StreamInductiveStep, PTL DEF StreamSpec

\* A page never gets an event twice, nor an older one after a newer one, however
\* often its connection breaks or the server restarts.
THEOREM EventsComeOnce == StreamSpec => NoEventTwice
  <1>1. StreamInductive /\ [StreamNext]_streamVars => [Receive => page'.last > page.last]_streamVars
    BY ReceiveStep DEF StreamInductive
  <1> QED BY <1>1, StreamInvariant, PTL DEF StreamSpec, NoEventTwice

\* When nothing is on its way any more, the page shows every segment as it is but
\* those that stream, for any number of segments, sizes of history and queue, and
\* broken connections; unless a full queue or an overtaken fetch has kept something
\* from it that no later fetch has made up for (stream.py 57-93), or a stop has
\* overtaken a call whose end is then not told (translator.py 1051-1067).
THEOREM PageIsKeptCurrent == StreamSpec => []PageIsCurrent
  <1>1. StreamInductive => PageIsCurrent
    <2> SUFFICES ASSUME StreamInOrder, EachIsTold, Quiet, untold = 0, ~foreign,
                        NEW s \in Segments \ (calls \cup silent)
                 PROVE  page.view[s] = ledger[s]
      BY DEF StreamInductive, PageIsTold, PageIsCurrent
    <2>1. OnTheWay = {} BY WayFacts DEF Quiet
    <2>2. WordsOn(s) = {} BY <2>1 DEF WordsOn
    <2> QED BY <2>2 DEF EachIsTold, CaughtUp, Quiet
  <1> QED BY <1>1, StreamInvariant, PTL

\* When nothing is on its way after a run has returned, the page shows its result,
\* whatever the page has missed during the run, and whatever calls have streamed on
\* after the run was told to stop (adapters.py 466-493, runtime.py 51-56).
THEOREM ResultsAreShown == StreamSpec => []ResultIsShown
  <1>1. StreamInductive => ResultIsShown
    <2> SUFFICES ASSUME StreamInOrder, ResultIsComing, Quiet, ~Active, ~edited, ~foreign
                 PROVE  page.view = ledger
      BY DEF StreamInductive, PageIsTold, ResultIsShown
    <2>1. OnTheWay = {} BY WayFacts DEF Quiet
    <2> QED BY <2>1 DEF ResultIsComing, CaughtUp, Quiet
  <1> QED BY <1>1, StreamInvariant, PTL

\* The invariants that the run of MCServices checks are those of its two parts, the
\* stream and the settings, which do not interact.
THEOREM ServicesInvariant == ServicesSpec => []ServicesInductive
  <1>1. ServicesInit => ServicesInductive
    BY StreamInductiveInit, SettingsInductiveInit DEF ServicesInit, ServicesInductive
  <1>2. ServicesInductive /\ [ServicesNext]_<<scope, streamVars, settingsVars>> => ServicesInductive'
    <2> SUFFICES ASSUME ServicesInductive, [ServicesNext]_<<scope, streamVars, settingsVars>>
                 PROVE  ServicesInductive'
      OBVIOUS
    <2>1. [StreamNext]_streamVars /\ [SettingsNext]_settingsVars BY DEF ServicesNext
    <2> QED BY <2>1, StreamInductiveStep, SettingsStep DEF ServicesInductive
  <1> QED BY <1>1, <1>2, PTL DEF ServicesSpec
=============================================================================
