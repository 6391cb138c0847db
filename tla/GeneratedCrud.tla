------------------------------ MODULE GeneratedCrud ------------------------------
(* The generated create, update, delete and restore calls over the eight tables, *)
(* and the database that has the last word on them.                              *)
(*                                                                               *)
(* all_crud_routes mounts them on every table with no domain validation, the     *)
(* guarded router on shifts and roster entries.  The service behind a call is    *)
(* the framework's GenericCrudService, which is not in this repository: it       *)
(* decodes the body, converts it, asks the row rules, and writes one row.  What  *)
(* it converts, which rules it asks and what the database refuses is here.       *)
EXTENDS TableCatalogue, FiniteSets

CONSTANTS
  Ids,       \* [Tables -> sets of row ids]
  Template,  \* [Tables -> a well-formed body]
  Domain,    \* [Tables -> [columns -> the well-typed values requests try]]
  Parts,     \* bound: the sets of tables that are exercised together
  Units,     \* the acting units a PIN may be filed under, None for no scope
  Junk       \* a value of the wrong type

\* The values of the right type that a column is given.
WellTyped(t, c) == Domain[t][c] \cup {Template[t][c]}

ASSUME CrudAssumption ==
  /\ UNION Parts \subseteq Tables
  /\ \A t \in Tables :
       /\ DOMAIN Domain[t] = Columns(Build[t])
       /\ Template[t] = [c \in Columns(Build[t]) |-> Template[t][c]]
       /\ \A c \in Columns(Build[t]) : Junk \notin WellTyped(t, c)
  /\ WellTyped("overtime_requests", "hours_planned") \subseteq Int
  /\ Junk \notin Optional(Int)

\* A stored session: its columns, whether it is in the trash, and its unit.
SessionRow ==
  LET Column(c) == Optional(WellTyped("attendance_sessions", c))
  IN  [val : [employee_id : Column("employee_id"), date : Column("date"),
              check_in : Column("check_in"), check_out : Column("check_out"),
              source : Column("source"), correction_reason : Column("correction_reason")],
       trashed : BOOLEAN, unit : Optional(Units)]
ASSUME RowAssumption == None \notin SessionRow

\* The write calls each way of mounting the module opens: everything, the guarded
\* router with its two masters, or reads only.
Surfaces == {"all_crud", "guarded", "readonly"}
Writable(surface) ==
  CASE surface = "all_crud" -> Tables
    [] surface = "guarded"  -> {"shifts", "roster_entries"}
    [] surface = "readonly" -> {}

VARIABLES
  mounted,  \* the tables whose write calls are mounted and exercised together
  rows,     \* [Tables -> [Ids -> the stored row, or None]]
  outcome   \* how the last call ended

vars == <<mounted, rows, outcome>>

Stored(t)  == {i \in Ids[t] : rows[t][i] # None}
LiveIds(t) == {i \in Stored(t) : ~rows[t][i].trashed}
Trash(t)   == Stored(t) \ LiveIds(t)
--------------------------------------------------------------------------------
(* Conversions.                                                                  *)

\* serde reads a body: what is required is there, nothing has the wrong type, and
\* a field the body has no place for is ignored.
Decodes(shape, body) ==
  /\ \A c \in shape.required : body[c] \notin {None, Junk}
  /\ \A c \in shape.optional : body[c] # Junk

\* From<Create...Dto> for the entity.
FromCreate(t, body) ==
  [c \in Columns(Build[t]) |-> IF c \in Carries[t].create THEN body[c] ELSE None]

\* Mutant: the row is rebuilt from the body alone.
RebuildFromBody(t, old, body) ==
  [c \in Columns(Build[t]) |-> IF c \in Carries[t].update THEN body[c] ELSE None]

\* apply_update: every column the body carries, the others stay.
ApplyUpdate(t, old, body) ==
  [c \in Columns(Build[t]) |-> IF c \in Carries[t].update THEN body[c] ELSE old[c]]

\* Mutant: a null is written whatever the column.
FitsUnlessJunk(t, c, v) == v # Junk

\* A value serde can read for the column: a null only where the entity has an Option.
Fits(t, c, v) == v # Junk /\ (v = None => c \in Build[t].nullable)

\* apply_patch: the named columns it knows, where the value fits; no error otherwise.
ApplyPatch(t, old, fields) ==
  [c \in DOMAIN old |->
     IF c \in DOMAIN fields \cap Patchable[t] /\ Fits(t, c, fields[c]) THEN fields[c] ELSE old[c]]

\* Mutant: the patch names any column.
UnprotectedAlso(t, fields) == fields

\* What a partial update may name.
Unprotected(t, fields) == [c \in DOMAIN fields \ WriteProtected[t] |-> fields[c]]

\* The builder: None when a column it needs was not set.
BuildRow(t, given) ==
  LET build == Build[t]
  IN  IF ~(build.needs \subseteq DOMAIN given) THEN None
      ELSE [c \in Columns(build) |->
              IF c \in DOMAIN given THEN given[c]
              ELSE IF c \in DOMAIN build.defaults THEN build.defaults[c] ELSE None]

\* The response of a row: what a client reads, edits and sends back.
Response(t, val) == [c \in Carries[t].response |-> val[c]]
--------------------------------------------------------------------------------
(* What a row is checked against.                                                *)

\* A length or a number of NULL breaks no rule, as in SQL; a blank text has length 0.
Holds(rule, v) ==
  CASE rule.rule = "required"   -> v \notin {None, 0}
    [] rule.rule = "max_length" -> v # None => v <= rule.limit
    [] rule.rule = "positive"   -> v # None => v > 0

\* Mutant: the rules are asked of new rows only.
RulesHoldOnCreate(t, old, val) ==
  old = None => \A r \in RowRules[t] : Holds(r, val[r.column])

\* The row rules: all of them for a new row, those of the changed columns otherwise.
RulesHold(t, old, val) ==
  \A r \in RowRules[t] :
    old = None \/ old.val[r.column] # val[r.column] => Holds(r, val[r.column])

\* A column of the database takes the value as its type has it: planned hours are
\* thousandths of an hour here and NUMERIC(5, 2) there.
Coerced(t, val) ==
  IF t = "overtime_requests"
  THEN [val EXCEPT !.hours_planned = ((@ + 5) \div 10) * 10]
  ELSE val

BrokenChecks(t, val) ==
  {r.column : r \in {d \in DeclaredChecks[t] : ~Holds(d, val[d.column])}}

\* The other live rows of a table.
Others(t, id) == {rows[t][i] : i \in LiveIds(t) \ {id}}

\* tstzrange: an inverted range is an error, an empty one overlaps nothing.
Inverted(val) == val.check_out # None /\ val.check_out < val.check_in
Meets(a, b) ==
  /\ a.check_in # a.check_out /\ b.check_in # b.check_out
  /\ b.check_out # None => a.check_in < b.check_out
  /\ a.check_out # None => b.check_in < a.check_out

\* attendance_sessions_no_overlap.
Overlaps(id, row) ==
  \/ Inverted(row.val)
  \/ \E o \in Others("attendance_sessions", id) :
       o.val.employee_id = row.val.employee_id /\ Meets(o.val, row.val)

\* attendances_employee_date_live.
DayTaken(id, row) ==
  \E o \in Others("attendances", id) :
    o.val.employee_id = row.val.employee_id /\ o.val.date = row.val.date

\* The two partial unique indexes of kiosk_pins; NULL units are all different.
PinTaken(id, row) ==
  \E o \in Others("kiosk_pins", id) :
    /\ row.unit # None /\ o.unit = row.unit
    /\ o.val.employee_id = row.val.employee_id \/ o.val.badge_code = row.val.badge_code

\* Mutant: the indexes do not see the row a restore brings back.
UniqueUnlessRestored(t, id, row) ==
  \/ rows[t][id] # None /\ rows[t][id].trashed
  \/ ~\/ t = "attendance_sessions" /\ Overlaps(id, row)
      \/ t = "attendances" /\ DayTaken(id, row)
      \/ t = "kiosk_pins" /\ PinTaken(id, row)

\* The partial indexes hold live rows only, and see every write of one.
Unique(t, id, row) ==
  ~\/ t = "attendance_sessions" /\ Overlaps(id, row)
   \/ t = "attendances" /\ DayTaken(id, row)
   \/ t = "kiosk_pins" /\ PinTaken(id, row)

\* The foreign keys to attendance_sessions: the row may be in the trash.
HasSession == {"attendance_clocks", "attendance_corrections"}
Resolves(t, row) ==
  t \in HasSession => row.val.session_id \in Stored("attendance_sessions")

\* Mutant: references from the trash do not hold a row back.
ReferencedByLive(t, id) ==
  t = "attendance_sessions" /\
    \E u \in HasSession : \E i \in LiveIds(u) : rows[u][i].val.session_id = id
Referenced(t, id) ==
  t = "attendance_sessions" /\
    \E u \in HasSession : \E i \in Stored(u) : rows[u][i].val.session_id = id

\* Mutant: only the removal of an event is refused.
ImmutableButForUpdates(t, removal) == t = "attendance_clocks" /\ removal

\* attendance_clocks_immutable: BEFORE UPDATE OR DELETE.
Immutable(t, removal) == t = "attendance_clocks"

\* NUMERIC(5, 2) has three digits before the point.
Overflows(t, row) == t = "overtime_requests" /\ row.val.hours_planned >= 1000000
--------------------------------------------------------------------------------
(* The calls.                                                                    *)

End(code, column) == [code |-> code, column |-> column]

\* The call ends without a write.
Answer(code, column) ==
  /\ outcome' = End(code, column)
  /\ UNCHANGED <<mounted, rows>>

\* One INSERT or UPDATE: what the trigger, the CHECKs and the other constraints say.
Write(t, id, new) ==
  LET row    == [new EXCEPT !.val = Coerced(t, @)]
      broken == BrokenChecks(t, row.val)
      barred == rows[t][id] # None /\ Immutable(t, FALSE)
      sound  == (row.trashed \/ Unique(t, id, row)) /\ Resolves(t, row) /\ ~Overflows(t, row)
  IN  \/ /\ ~barred /\ broken = {} /\ sound
         /\ rows' = [rows EXCEPT ![t][id] = row]
         /\ outcome' = End("ok", None)
         /\ UNCHANGED mounted
      \/ ~barred /\ \E c \in broken : Answer("check_violation", c)
      \/ (barred \/ (broken = {} /\ ~sound)) /\ Answer("database_error", None)

\* The write guard, then the write.
Guarded(t, id, new) ==
  \/ ~RulesHold(t, rows[t][id], new.val) /\ Answer("unprocessable", None)
  \/ RulesHold(t, rows[t][id], new.val) /\ Write(t, id, new)

\* Bound: a body differs from `body` in one column.
Edits(t, body) ==
  {body} \cup UNION {{[body EXCEPT ![c] = v] : v \in Domain[t][c] \cup {None, Junk}} :
                       c \in DOMAIN body}

Create(t) ==
  /\ Stored(t) # Ids[t]
  /\ \E body \in Edits(t, Template[t]) :
       \/ ~Decodes(Bodies[t].create, body) /\ Answer("bad_request", None)
       \/ /\ Decodes(Bodies[t].create, body)
          /\ \E id \in Ids[t] \ Stored(t), unit \in (IF t = "kiosk_pins" THEN Units ELSE {None}) :
               Guarded(t, id, [val |-> FromCreate(t, body), trashed |-> FALSE, unit |-> unit])

\* A full update, of what a client read and edited.
Put(t, id) ==
  LET row == rows[t][id] IN
  \E body \in Edits(t, Response(t, row.val)) :
    \/ ~Decodes(Bodies[t].update, body) /\ Answer("bad_request", None)
    \/ /\ Decodes(Bodies[t].update, body)
       /\ Guarded(t, id, [row EXCEPT !.val = ApplyUpdate(t, @, body)])

Patch(t, id) ==
  \E c \in Columns(Build[t]) : \E v \in Domain[t][c] \cup {None, Junk} :
    Guarded(t, id, [rows[t][id] EXCEPT !.val = ApplyPatch(t, @, Unprotected(t, [x \in {c} |-> v]))])

SoftDelete(t, id) == Write(t, id, [rows[t][id] EXCEPT !.trashed = TRUE])
Restore(t, id)    == Write(t, id, [rows[t][id] EXCEPT !.trashed = FALSE])

\* DELETE of trashed rows, one of them or all; a reference or the trigger stops it.
Purge(t, ids) ==
  LET stopped == Immutable(t, TRUE) \/ \E id \in ids : Referenced(t, id)
  IN  \/ /\ ~stopped
         /\ rows' = [rows EXCEPT ![t] = [i \in Ids[t] |-> IF i \in ids THEN None ELSE @[i]]]
         /\ outcome' = End("ok", None)
         /\ UNCHANGED mounted
      \/ stopped /\ Answer("database_error", None)

EmptyTrash(t) == Trash(t) # {} /\ Purge(t, Trash(t))

Init ==
  /\ mounted \in {p \cap Writable(s) : p \in Parts, s \in Surfaces} \ {{}}
  /\ rows = [t \in Tables |-> [i \in Ids[t] |-> None]]
  /\ outcome = End("none", None)

Next ==
  \E t \in mounted :
    \/ Create(t)
    \/ \E id \in LiveIds(t) : Put(t, id) \/ Patch(t, id) \/ SoftDelete(t, id)
    \/ \E id \in Trash(t) : Restore(t, id) \/ Purge(t, {id})
    \/ EmptyTrash(t)

Spec == Init /\ [][Next]_vars
--------------------------------------------------------------------------------
(* Properties                                                                    *)

\* Every stored row has every column, NULL only where the table allows it and of
\* its type elsewhere, whichever of the bodies and partial updates wrote it.
TypeOK ==
  /\ mounted \subseteq Tables
  /\ \A t \in Tables : \A i \in Stored(t) :
       /\ DOMAIN rows[t][i].val = Columns(Build[t])
       /\ \A c \in Columns(Build[t]) :
            /\ rows[t][i].val[c] # Junk
            /\ rows[t][i].val[c] = None => c \in Build[t].nullable

\* A declared rule is answered by the rules (422) and never surfaces as a CHECK of
\* the database, however a row came to be what the update starts from.  The one
\* exception is real: the rules see planned hours before the column rounds them.
RulesBeforeChecks ==
  outcome.code = "check_violation" => outcome.column = "hours_planned"

\* The generated descriptions of a table fit: from any stored row, sending back what
\* was read changes nothing, in full or as a patch, and the builder can make it.
RowsRoundTrip ==
  \A t \in Tables : \A i \in Stored(t) :
    LET val == rows[t][i].val
        set == {c \in DOMAIN val : val[c] # None}
    IN  /\ ApplyUpdate(t, val, Response(t, val)) = val
        /\ ApplyPatch(t, val, Response(t, val)) = val
        /\ BuildRow(t, [c \in set |-> val[c]]) = val

\* The event stream is append-only under every generated call: update, partial
\* update, soft delete, restore, purge, of the event or of what it belongs to.
EventsAppendOnly ==
  [][\A i \in Stored("attendance_clocks") :
       rows'["attendance_clocks"][i] = rows["attendance_clocks"][i]]_vars

\* An event or a correction always has its session, if only in the trash: it cannot
\* be purged from under them, in whatever order things are deleted and restored.
ReferencesResolve ==
  \A t \in HasSession : \A i \in Stored(t) : Resolves(t, rows[t][i])

\* An employee's live sessions never overlap, deletions and restores included: what
\* came in while a session was in the trash keeps it there.
TimelinesDisjoint ==
  \A i, j \in LiveIds("attendance_sessions") :
    LET a == rows["attendance_sessions"][i].val
        b == rows["attendance_sessions"][j].val
    IN  i # j /\ a.employee_id = b.employee_id => ~Meets(a, b)

\* A stored PIN keeps the hash it was created with, live or in the trash: no generated
\* update, in full or in part, sets a credential.  That is left to rotate_pin.
HashesStand ==
  [][\A i \in Stored("kiosk_pins") :
       rows'["kiosk_pins"][i] # None =>
         rows'["kiosk_pins"][i].val.pin_hash = rows["kiosk_pins"][i].val.pin_hash]_vars

\* One live rollup row per employee and day, and in a unit one live PIN per employee
\* and one per badge: a restored row takes its place only if it is free.
LiveKeysUnique ==
  /\ \A i, j \in LiveIds("attendances") :
       LET a == rows["attendances"][i].val
           b == rows["attendances"][j].val
       IN  i # j => <<a.employee_id, a.date>> # <<b.employee_id, b.date>>
  /\ \A i, j \in LiveIds("kiosk_pins") :
       LET a == rows["kiosk_pins"][i]
           b == rows["kiosk_pins"][j]
       IN  i # j /\ a.unit = b.unit /\ a.unit # None =>
             /\ a.val.employee_id # b.val.employee_id
             /\ a.val.badge_code # b.val.badge_code
================================================================================
