--------------------------- MODULE GeneratedCrudProofs ---------------------------
(* Proofs about the generated calls over the eight tables.                       *)
EXTENDS GeneratedCrud, TLAPS

(* The catalogue fits together, table by table.                                  *)

\* A column that may be NULL is never mandatory.
LEMMA NullableNotMandatory ==
  \A t \in Tables : Mandatory(Build[t]) \cap Build[t].nullable = {}
<1> USE DEF Mandatory, Build
<1>0. DOMAIN NoDefaults = {} BY DEF NoDefaults
<1>1. Mandatory(Build["attendances"]) \cap Build["attendances"].nullable = {}
  BY <1>0 DEF AttendanceBuild
<1>2. Mandatory(Build["attendance_clocks"]) \cap Build["attendance_clocks"].nullable = {}
  BY DEF AttendanceClockBuild
<1>3. Mandatory(Build["attendance_sessions"]) \cap Build["attendance_sessions"].nullable = {}
  BY DEF AttendanceSessionBuild
<1>4. Mandatory(Build["attendance_corrections"])
        \cap Build["attendance_corrections"].nullable = {}
  BY DEF AttendanceCorrectionBuild
<1>5. Mandatory(Build["kiosk_pins"]) \cap Build["kiosk_pins"].nullable = {}
  BY DEF KioskPinBuild
<1>6. Mandatory(Build["overtime_requests"]) \cap Build["overtime_requests"].nullable = {}
  BY DEF OvertimeRequestBuild
<1>7. Mandatory(Build["roster_entries"]) \cap Build["roster_entries"].nullable = {}
  BY <1>0 DEF RosterEntryBuild
<1>8. Mandatory(Build["shifts"]) \cap Build["shifts"].nullable = {}
  BY DEF ShiftBuild
<1>9. QED BY <1>1, <1>2, <1>3, <1>4, <1>5, <1>6, <1>7, <1>8 DEF Tables

\* Every table but the PINs has the same bodies for a create and an update, and
\* conversions that carry every column.
LEMMA Plain ==
  \A t \in Tables \ {"kiosk_pins"} :
    Bodies[t] = SameBodies(Build[t]) /\ Carries[t] = CarriesAll(Build[t])
  BY DEF Tables, Bodies, Carries, Build,
         AttendanceBodies, AttendanceCarries, AttendanceClockBodies, AttendanceClockCarries,
         AttendanceSessionBodies, AttendanceSessionCarries, AttendanceCorrectionBodies,
         AttendanceCorrectionCarries, OvertimeRequestBodies, OvertimeRequestCarries,
         RosterEntryBodies, RosterEntryCarries, ShiftBodies, ShiftCarries

\* The bodies ask for what the conversions carry.
TableFits(t) ==
  /\ Carries[t].create = Columns(Build[t]) /\ Carries[t].response = Columns(Build[t])
  /\ Bodies[t].create.required = Mandatory(Build[t])
  /\ Bodies[t].create.optional = Build[t].nullable
  /\ Bodies[t].update.optional = Build[t].nullable
  /\ Bodies[t].update.required \subseteq Mandatory(Build[t])
  /\ Carries[t].update = Bodies[t].update.required \cup Build[t].nullable

LEMMA CatalogueFits == \A t \in Tables : TableFits(t)
<1>1. \A t \in Tables \ {"kiosk_pins"} : TableFits(t)
  <2> SUFFICES ASSUME NEW t \in Tables \ {"kiosk_pins"} PROVE TableFits(t) OBVIOUS
  <2>0. Bodies[t] = SameBodies(Build[t]) /\ Carries[t] = CarriesAll(Build[t]) BY Plain
  <2>1. Carries[t].create = Columns(Build[t]) /\ Carries[t].response = Columns(Build[t])
        /\ Carries[t].update = Columns(Build[t])
    BY <2>0 DEF CarriesAll
  <2>2. Bodies[t].create = Body(Build[t]) /\ Bodies[t].update = Body(Build[t])
    BY <2>0 DEF SameBodies
  <2>3. /\ Body(Build[t]).required = Mandatory(Build[t])
        /\ Body(Build[t]).optional = Build[t].nullable
    BY DEF Body
  <2>4. Columns(Build[t]) = Mandatory(Build[t]) \cup Build[t].nullable
    BY DEF Columns, Mandatory
  <2>5. QED BY <2>1, <2>2, <2>3, <2>4 DEF TableFits
<1>2. TableFits("kiosk_pins")
  <2> DEFINE build == KioskPinBuild
             body  == Body(KioskPinBuild)
  <2>1. Build["kiosk_pins"] = build
        /\ Bodies["kiosk_pins"] = KioskPinBodies /\ Carries["kiosk_pins"] = KioskPinCarries
    BY DEF Bodies, Carries, Build
  <2>2. /\ KioskPinBodies.create = body
        /\ KioskPinBodies.update = [body EXCEPT !.required = @ \ {"pin_hash"}]
    <3>1. SameBodies(build) = [create |-> body, update |-> body] BY DEF SameBodies
    <3> HIDE DEF body
    <3>2. QED BY <3>1 DEF KioskPinBodies
  <2>3. body = [required |-> Mandatory(build), optional |-> build.nullable] BY DEF Body
  <2>4. /\ KioskPinCarries.create = Columns(build) /\ KioskPinCarries.response = Columns(build)
        /\ KioskPinCarries.update = Columns(build) \ {"pin_hash"}
    BY DEF KioskPinCarries, CarriesAll
  <2>5. "pin_hash" \notin build.nullable BY DEF KioskPinBuild
  <2>6. Columns(build) = Mandatory(build) \cup build.nullable BY DEF Columns, Mandatory
  <2> HIDE DEF body, build
  <2>7. /\ KioskPinBodies.update.required = Mandatory(build) \ {"pin_hash"}
        /\ KioskPinBodies.update.optional = build.nullable
    BY <2>2, <2>3
  <2>8. QED BY <2>1, <2>2, <2>3, <2>4, <2>5, <2>6, <2>7 DEF TableFits
<1>3. QED BY <1>1, <1>2

\* Every declared CHECK is one of the row rules, over a column of the table.
LEMMA ChecksAreRules ==
  \A t \in Tables : \A d \in DeclaredChecks[t] :
    d \in RowRules[t] /\ d.column \in Columns(Build[t])
<1> USE DEF DeclaredChecks, RowRules, Required, AtMost, Positive, Columns, Build
<1>1. \A d \in DeclaredChecks["attendances"] :
        d \in RowRules["attendances"] /\ d.column \in Columns(Build["attendances"])
  BY DEF AttendanceRules, AttendanceBuild
<1>2. \A d \in DeclaredChecks["attendance_clocks"] :
        d \in RowRules["attendance_clocks"] /\ d.column \in Columns(Build["attendance_clocks"])
  BY DEF AttendanceClockRules, AttendanceClockBuild
<1>3. \A d \in DeclaredChecks["attendance_sessions"] :
        d \in RowRules["attendance_sessions"] /\ d.column \in Columns(Build["attendance_sessions"])
  BY DEF AttendanceSessionRules, AttendanceSessionBuild
<1>4. \A d \in DeclaredChecks["attendance_corrections"] :
        /\ d \in RowRules["attendance_corrections"]
        /\ d.column \in Columns(Build["attendance_corrections"])
  BY DEF AttendanceCorrectionRules, AttendanceCorrectionBuild
<1>5. \A d \in DeclaredChecks["kiosk_pins"] :
        d \in RowRules["kiosk_pins"] /\ d.column \in Columns(Build["kiosk_pins"])
  BY DEF KioskPinRules, KioskPinBuild
<1>6. \A d \in DeclaredChecks["overtime_requests"] :
        d \in RowRules["overtime_requests"] /\ d.column \in Columns(Build["overtime_requests"])
  BY DEF OvertimeRequestRules, OvertimeRequestBuild
<1>7. \A d \in DeclaredChecks["roster_entries"] :
        d \in RowRules["roster_entries"] /\ d.column \in Columns(Build["roster_entries"])
  BY DEF RosterEntryRules, RosterEntryBuild
<1>8. \A d \in DeclaredChecks["shifts"] :
        d \in RowRules["shifts"] /\ d.column \in Columns(Build["shifts"])
  BY DEF ShiftRules, ShiftBuild
<1>9. QED BY <1>1, <1>2, <1>3, <1>4, <1>5, <1>6, <1>7, <1>8 DEF Tables

\* The columns of the tables with constraints of their own.
LEMMA NamedColumns ==
  /\ Columns(Build["attendance_sessions"]) =
       {"employee_id", "date", "check_in", "check_out", "source", "correction_reason"}
  /\ "hours_planned" \in Columns(Build["overtime_requests"])
  /\ "hours_planned" \notin Build["overtime_requests"].nullable
  BY DEF Build, Columns, AttendanceSessionBuild, OvertimeRequestBuild

\* No update, in full or in part, has a place for the hash of a PIN.
LEMMA HashProtected ==
  /\ "pin_hash" \in Columns(Build["kiosk_pins"])
  /\ "pin_hash" \notin Carries["kiosk_pins"].update
  /\ WriteProtected["kiosk_pins"] = {"pin_hash"}
  BY DEF Build, Columns, KioskPinBuild, Carries, KioskPinCarries, CarriesAll,
         WriteProtected, KioskPinProtected, Tables
--------------------------------------------------------------------------------
(* What the conversions make of a body: a row that fits its table.               *)

\* What a column may hold: what requests give it, and for planned hours what the
\* database rounds them to.
Good(t, c) ==
  Optional(WellTyped(t, c)) \cup (IF c = "hours_planned" THEN Int ELSE {})
ValFits(t, val) ==
  /\ val = [c \in Columns(Build[t]) |-> val[c]]
  /\ \A c \in Columns(Build[t]) :
       val[c] \in Good(t, c) /\ (val[c] = None => c \in Build[t].nullable)
RowFits(t, row) ==
  /\ row = [val |-> row.val, trashed |-> row.trashed, unit |-> row.unit]
  /\ ValFits(t, row.val) /\ row.trashed \in BOOLEAN /\ row.unit \in Optional(Units)

LEMMA JunkNeverGood ==
  ASSUME NEW t \in Tables, NEW c \in Columns(Build[t]) PROVE Junk \notin Good(t, c)
  BY CrudAssumption DEF Good, Optional

LEMMA EditsAreGood ==
  ASSUME NEW t \in Tables, NEW first, NEW body \in Edits(t, first),
         first = [c \in Columns(Build[t]) |-> first[c]],
         \A c \in Columns(Build[t]) : first[c] \in Good(t, c)
  PROVE  \A c \in Columns(Build[t]) : body[c] \in Good(t, c) \cup {Junk}
<1>1. CASE body = first BY <1>1
<1>2. CASE body # first
  <2>0. PICK d \in DOMAIN first :
          \E v \in Domain[t][d] \cup {None, Junk} : body = [first EXCEPT ![d] = v]
    BY <1>2 DEF Edits
  <2>1. PICK v \in Domain[t][d] \cup {None, Junk} : body = [first EXCEPT ![d] = v]
    BY <2>0
  <2>2. d \in Columns(Build[t]) BY <2>0
  <2>3. v \in Good(t, d) \cup {Junk} BY <2>1 DEF Good, Optional, WellTyped
  <2>4. QED BY <2>1, <2>2, <2>3
<1>3. QED BY <1>1, <1>2

LEMMA CreatesFit ==
  ASSUME NEW t \in Tables, NEW body \in Edits(t, Template[t]), Decodes(Bodies[t].create, body)
  PROVE  ValFits(t, FromCreate(t, body))
<1> DEFINE val == FromCreate(t, body)
<1>1. /\ Template[t] = [c \in Columns(Build[t]) |-> Template[t][c]]
      /\ \A c \in Columns(Build[t]) : Template[t][c] \in Good(t, c)
  BY CrudAssumption DEF Good, Optional, WellTyped
<1>2. \A c \in Columns(Build[t]) : body[c] \in Good(t, c) \cup {Junk} BY <1>1, EditsAreGood
<1>3. \A c \in Columns(Build[t]) : val[c] = body[c]
  BY CatalogueFits DEF FromCreate, TableFits
<1>4. /\ \A c \in Mandatory(Build[t]) : body[c] \notin {None, Junk}
      /\ \A c \in Build[t].nullable : body[c] # Junk
  BY CatalogueFits DEF Decodes, TableFits
<1>5. Columns(Build[t]) = Mandatory(Build[t]) \cup Build[t].nullable BY DEF Columns, Mandatory
<1>6. val = [c \in Columns(Build[t]) |-> val[c]] BY DEF FromCreate
<1> HIDE DEF val
<1>7. \A c \in Columns(Build[t]) :
        val[c] \in Good(t, c) /\ (val[c] = None => c \in Build[t].nullable)
  BY <1>2, <1>3, <1>4, <1>5
<1>8. ValFits(t, val) BY <1>6, <1>7 DEF ValFits
<1>9. QED BY <1>8 DEF val

LEMMA ReadsAreGood ==
  ASSUME NEW t \in Tables, NEW val, ValFits(t, val) PROVE Response(t, val) = val
  BY CatalogueFits DEF Response, TableFits, ValFits

LEMMA UpdatesFit ==
  ASSUME NEW t \in Tables, NEW old, ValFits(t, old), NEW body \in Edits(t, Response(t, old)),
         Decodes(Bodies[t].update, body)
  PROVE  ValFits(t, ApplyUpdate(t, old, body))
<1> DEFINE val == ApplyUpdate(t, old, body)
<1>1. \A c \in Columns(Build[t]) : body[c] \in Good(t, c) \cup {Junk}
  <2>1. body \in Edits(t, old) BY ReadsAreGood
  <2>2. QED BY <2>1, EditsAreGood DEF ValFits
<1>2. \A c \in Columns(Build[t]) :
        val[c] = IF c \in Carries[t].update THEN body[c] ELSE old[c]
  BY DEF ApplyUpdate
<1>3. \A c \in Carries[t].update :
        body[c] # Junk /\ (body[c] = None => c \in Build[t].nullable)
  BY CatalogueFits DEF Decodes, TableFits
<1>4. val = [c \in Columns(Build[t]) |-> val[c]] BY DEF ApplyUpdate
<1> HIDE DEF val
<1>5. \A c \in Columns(Build[t]) :
        val[c] \in Good(t, c) /\ (val[c] = None => c \in Build[t].nullable)
  BY <1>1, <1>2, <1>3 DEF ValFits
<1>6. ValFits(t, val) BY <1>4, <1>5 DEF ValFits
<1>7. QED BY <1>6 DEF val

LEMMA PatchesFit ==
  ASSUME NEW t \in Tables, NEW old, ValFits(t, old),
         NEW d \in Columns(Build[t]), NEW v \in Domain[t][d] \cup {None, Junk}
  PROVE  ValFits(t, ApplyPatch(t, old, Unprotected(t, [x \in {d} |-> v])))
<1> DEFINE fields == Unprotected(t, [x \in {d} |-> v])
           val    == ApplyPatch(t, old, fields)
<1>1. /\ DOMAIN fields = {d} \ WriteProtected[t]
      /\ \A c \in DOMAIN fields : c = d /\ fields[c] = v
  BY DEF Unprotected
<1>2. DOMAIN old = Columns(Build[t]) BY DEF ValFits
<1>3. val = [c \in Columns(Build[t]) |-> val[c]] BY <1>2 DEF ApplyPatch
<1>4. \A c \in Columns(Build[t]) :
        val[c] = old[c] \/ (c = d /\ val[c] = v /\ Fits(t, c, v))
  BY <1>1, <1>2 DEF ApplyPatch
<1>5. v # Junk => v \in Good(t, d) BY DEF Good, Optional, WellTyped
<1> HIDE DEF val
<1>6. \A c \in Columns(Build[t]) :
        val[c] \in Good(t, c) /\ (val[c] = None => c \in Build[t].nullable)
  BY <1>4, <1>5 DEF ValFits, Fits
<1>7. ValFits(t, val) BY <1>3, <1>6 DEF ValFits
<1>8. QED BY <1>7 DEF val

\* The column of planned hours takes an integer and stores an integer.
LEMMA CoercionsFit ==
  ASSUME NEW t \in Tables, NEW val, ValFits(t, val)
  PROVE  /\ ValFits(t, Coerced(t, val))
         /\ \A c \in Columns(Build[t]) : c # "hours_planned" => Coerced(t, val)[c] = val[c]
<1>1. CASE t # "overtime_requests" BY <1>1 DEF Coerced
<1>2. CASE t = "overtime_requests"
  <2>1. val["hours_planned"] \in Int
    BY <1>2, NamedColumns, CrudAssumption DEF ValFits, Good, Optional
  <2>2. PICK n \in Int : n = ((val["hours_planned"] + 5) \div 10) * 10
    BY <2>1
  <2>3. Coerced(t, val) = [val EXCEPT !["hours_planned"] = n]
    BY <1>2, <2>2 DEF Coerced
  <2>4. val = [c \in Columns(Build[t]) |-> val[c]] BY DEF ValFits
  <2>5. /\ Coerced(t, val) = [c \in Columns(Build[t]) |-> Coerced(t, val)[c]]
        /\ \A c \in Columns(Build[t]) :
             Coerced(t, val)[c] = IF c = "hours_planned" THEN n ELSE val[c]
    BY <2>3, <2>4
  <2>6. n # None BY NoneAssumption
  <2>7. QED BY <2>5, <2>6 DEF ValFits, Good
<1>3. QED BY <1>1, <1>2
--------------------------------------------------------------------------------
(* The inductive invariant: what is promised, and that every stored row, in the  *)
(* trash too, fits its table and breaks none of its CHECKs.                      *)

RowsAreFunctions == rows = [t \in Tables |-> [i \in Ids[t] |-> rows[t][i]]]
RowsFit ==
  \A t \in Tables : \A i \in Stored(t) :
    RowFits(t, rows[t][i]) /\ BrokenChecks(t, rows[t][i].val) = {}
RowsInv ==
  /\ RowsAreFunctions /\ RowsFit
  /\ ReferencesResolve /\ TimelinesDisjoint /\ LiveKeysUnique
Inv == mounted \subseteq Tables /\ RowsInv /\ RulesBeforeChecks

\* A stored session is not the absence of one, whatever its columns hold.
LEMMA SessionsAreRows ==
  ASSUME NEW row, RowFits("attendance_sessions", row) PROVE row # None
<1> DEFINE Column(c) == Optional(WellTyped("attendance_sessions", c))
           val       == row.val
<1>1. val = [c \in {"employee_id", "date", "check_in", "check_out", "source",
                    "correction_reason"} |-> val[c]]
  BY NamedColumns DEF RowFits, ValFits
<1>2. \A c \in {"employee_id", "date", "check_in", "check_out", "source",
                "correction_reason"} : val[c] \in Column(c)
  BY NamedColumns DEF RowFits, ValFits, Good, Tables
<1>3. val \in [employee_id : Column("employee_id"), date : Column("date"),
               check_in : Column("check_in"), check_out : Column("check_out"),
               source : Column("source"), correction_reason : Column("correction_reason")]
  BY <1>1, <1>2
<1>4. row \in SessionRow BY <1>3 DEF RowFits, SessionRow
<1>5. QED BY <1>4, RowAssumption

\* What a write that succeeded has done.
Written(t, id, row) ==
  /\ rows' = [rows EXCEPT ![t][id] = row]
  /\ RowFits(t, row) /\ BrokenChecks(t, row.val) = {}
  /\ rows[t][id] # None => t # "attendance_clocks"
  /\ row.trashed \/ Unique(t, id, row)
  /\ Resolves(t, row)
  /\ t = "kiosk_pins" /\ rows[t][id] # None => row.val.pin_hash = rows[t][id].val.pin_hash

\* What a purge that succeeded has done.
Purged(t, ids) ==
  /\ t # "attendance_clocks" /\ ids \subseteq Trash(t)
  /\ \A id \in ids : ~Referenced(t, id)
  /\ rows' = [rows EXCEPT ![t] = [i \in Ids[t] |-> IF i \in ids THEN None ELSE @[i]]]

\* A call writes one row, or removes some from the trash, or leaves the rows alone.
RowsStep ==
  \/ UNCHANGED rows
  \/ \E t \in Tables : \E id \in Ids[t] : \E row : Written(t, id, row)
  \/ \E t \in Tables : \E ids : Purged(t, ids)

Called == RowsStep /\ UNCHANGED mounted /\ RulesBeforeChecks'

LEMMA Answered ==
  ASSUME NEW code, NEW column, Answer(code, column),
         code = "check_violation" => column = "hours_planned"
  PROVE  Called
  BY DEF Answer, Called, RowsStep, RulesBeforeChecks, End

\* A row that keeps the rules is written, or refused for another reason than a CHECK:
\* what the rules did not look at has been written, and checked, before.
LEMMA WriteKeepsRules ==
  ASSUME Inv, NEW t \in Tables, NEW id \in Ids[t], NEW new, RowFits(t, new),
         RulesHold(t, rows[t][id], new.val), Write(t, id, new),
         t = "kiosk_pins" /\ rows[t][id] # None => new.val.pin_hash = rows[t][id].val.pin_hash
  PROVE  Called
<1> DEFINE row    == [new EXCEPT !.val = Coerced(t, @)]
           broken == BrokenChecks(t, row.val)
<1>1. /\ row = [val |-> Coerced(t, new.val), trashed |-> new.trashed, unit |-> new.unit]
      /\ ValFits(t, Coerced(t, new.val))
  BY CoercionsFit DEF RowFits
<1>2. RowFits(t, row) BY <1>1 DEF RowFits
<1>3. ASSUME NEW c \in broken PROVE c = "hours_planned"
  <2>1. PICK d \in DeclaredChecks[t] : c = d.column /\ ~Holds(d, row.val[c])
    BY <1>3 DEF BrokenChecks
  <2>2. d \in RowRules[t] /\ c \in Columns(Build[t]) BY <2>1, ChecksAreRules
  <2>3. SUFFICES ASSUME c # "hours_planned" PROVE FALSE OBVIOUS
  <2>4. row.val[c] = new.val[c] BY <1>1, <2>2, <2>3, CoercionsFit DEF RowFits
  <2>5. rows[t][id] # None /\ rows[t][id].val[c] = new.val[c]
    BY <2>1, <2>2, <2>4 DEF RulesHold
  <2>6. BrokenChecks(t, rows[t][id].val) = {}
    BY <2>5 DEF Inv, RowsInv, RowsFit, Stored
  <2>7. QED BY <2>1, <2>4, <2>5, <2>6 DEF BrokenChecks
<1>4. ASSUME rows' = [rows EXCEPT ![t][id] = row], outcome' = End("ok", None),
             UNCHANGED mounted, broken = {},
             ~(rows[t][id] # None /\ Immutable(t, FALSE)),
             row.trashed \/ Unique(t, id, row), Resolves(t, row)
      PROVE  Called
  <2>1. t = "kiosk_pins" => row.val = new.val BY <1>1 DEF Coerced
  <2>2. Written(t, id, row) BY <1>2, <1>4, <2>1 DEF Written, Immutable
  <2>3. RulesBeforeChecks' BY <1>4 DEF RulesBeforeChecks, End
  <2>4. QED BY <1>4, <2>2, <2>3 DEF Called, RowsStep
<1>5. ASSUME NEW c \in broken, Answer("check_violation", c) PROVE Called
  BY <1>3, <1>5, Answered
<1>6. ASSUME Answer("database_error", None) PROVE Called
  BY <1>6, Answered
<1> HIDE DEF broken
<1>7. QED BY <1>4, <1>5, <1>6 DEF Write, broken

LEMMA GuardedKeepsRules ==
  ASSUME Inv, NEW t \in Tables, NEW id \in Ids[t], NEW new, RowFits(t, new), Guarded(t, id, new),
         t = "kiosk_pins" /\ rows[t][id] # None => new.val.pin_hash = rows[t][id].val.pin_hash
  PROVE  Called
<1>1. CASE Answer("unprocessable", None) BY <1>1, Answered
<1>2. CASE RulesHold(t, rows[t][id], new.val) /\ Write(t, id, new)
  BY <1>2, WriteKeepsRules
<1>3. QED BY <1>1, <1>2 DEF Guarded

LEMMA CreateCalled == ASSUME Inv, NEW t \in Tables, Create(t) PROVE Called
<1>1. CASE Answer("bad_request", None) BY <1>1, Answered
<1>2. ASSUME NEW body \in Edits(t, Template[t]), Decodes(Bodies[t].create, body),
             NEW id \in Ids[t] \ Stored(t),
             NEW unit \in (IF t = "kiosk_pins" THEN Units ELSE {None}),
             Guarded(t, id, [val |-> FromCreate(t, body), trashed |-> FALSE, unit |-> unit])
      PROVE  Called
  <2> DEFINE new == [val |-> FromCreate(t, body), trashed |-> FALSE, unit |-> unit]
  <2>1. ValFits(t, FromCreate(t, body)) BY <1>2, CreatesFit
  <2>2. RowFits(t, new) BY <2>1 DEF RowFits, Optional
  <2>3. rows[t][id] = None BY DEF Stored
  <2> HIDE DEF new
  <2>4. Guarded(t, id, new) BY <1>2 DEF new
  <2>5. QED BY <2>2, <2>3, <2>4, GuardedKeepsRules
<1>3. QED BY <1>1, <1>2 DEF Create

\* A live or trashed row as a call finds it.
LEMMA StoredFits ==
  ASSUME Inv, NEW t \in Tables, NEW id \in Stored(t)
  PROVE  /\ id \in Ids[t] /\ rows[t][id] # None
         /\ RowFits(t, rows[t][id]) /\ ValFits(t, rows[t][id].val)
  BY DEF Inv, RowsInv, RowsFit, Stored, RowFits

LEMMA UpdateRowFits ==
  ASSUME NEW t \in Tables, NEW row, RowFits(t, row), NEW val, ValFits(t, val)
  PROVE  RowFits(t, [row EXCEPT !.val = val]) /\ [row EXCEPT !.val = val].val = val
<1>1. [row EXCEPT !.val = val] = [val |-> val, trashed |-> row.trashed, unit |-> row.unit]
  BY DEF RowFits
<1>2. QED BY <1>1 DEF RowFits

LEMMA PutCalled == ASSUME Inv, NEW t \in Tables, NEW id \in LiveIds(t), Put(t, id) PROVE Called
<1> DEFINE row == rows[t][id]
<1>1. id \in Stored(t) BY DEF LiveIds
<1>2. CASE Answer("bad_request", None) BY <1>2, Answered
<1>3. ASSUME NEW body \in Edits(t, Response(t, row.val)), Decodes(Bodies[t].update, body),
             Guarded(t, id, [row EXCEPT !.val = ApplyUpdate(t, @, body)])
      PROVE  Called
  <2> DEFINE val == ApplyUpdate(t, row.val, body)
  <2>1. ValFits(t, val) BY <1>1, <1>3, StoredFits, UpdatesFit
  <2>2. t = "kiosk_pins" => val.pin_hash = row.val.pin_hash
    BY HashProtected DEF ApplyUpdate
  <2> HIDE DEF val
  <2>3. Guarded(t, id, [row EXCEPT !.val = val]) BY <1>3 DEF val
  <2>4. RowFits(t, [row EXCEPT !.val = val]) /\ [row EXCEPT !.val = val].val = val
    BY <1>1, <2>1, StoredFits, UpdateRowFits
  <2>5. QED BY <1>1, <2>2, <2>3, <2>4, StoredFits, GuardedKeepsRules
<1>4. QED BY <1>2, <1>3 DEF Put

LEMMA PatchCalled ==
  ASSUME Inv, NEW t \in Tables, NEW id \in LiveIds(t), Patch(t, id) PROVE Called
<1> DEFINE row == rows[t][id]
<1>1. id \in Stored(t) BY DEF LiveIds
<1>2. PICK c \in Columns(Build[t]) : \E v \in Domain[t][c] \cup {None, Junk} :
        Guarded(t, id, [row EXCEPT !.val = ApplyPatch(t, @, Unprotected(t, [x \in {c} |-> v]))])
  BY DEF Patch
<1>3. PICK v \in Domain[t][c] \cup {None, Junk} :
        Guarded(t, id, [row EXCEPT !.val = ApplyPatch(t, @, Unprotected(t, [x \in {c} |-> v]))])
  BY <1>2
<1> DEFINE fields == Unprotected(t, [x \in {c} |-> v])
           val    == ApplyPatch(t, row.val, fields)
<1>4. ValFits(t, val)
  <2>1. ValFits(t, row.val) BY <1>1, StoredFits
  <2> HIDE DEF row
  <2>2. QED BY <2>1, PatchesFit
<1>5. t = "kiosk_pins" => val.pin_hash = row.val.pin_hash
  <2>1. t = "kiosk_pins" => "pin_hash" \notin DOMAIN fields BY HashProtected DEF Unprotected
  <2>2. DOMAIN row.val = Columns(Build[t]) BY <1>1, StoredFits DEF ValFits
  <2> HIDE DEF fields
  <2>3. QED BY <2>1, <2>2, HashProtected DEF ApplyPatch
<1> HIDE DEF val
<1>6. Guarded(t, id, [row EXCEPT !.val = val]) BY <1>3 DEF val
<1>7. RowFits(t, [row EXCEPT !.val = val]) /\ [row EXCEPT !.val = val].val = val
  BY <1>1, <1>4, StoredFits, UpdateRowFits
<1>8. QED BY <1>1, <1>5, <1>6, <1>7, StoredFits, GuardedKeepsRules

\* Deleting a row softly and restoring it change no column.
LEMMA TrashCalled ==
  ASSUME Inv, NEW t \in Tables, NEW id \in Stored(t), NEW gone \in BOOLEAN,
         Write(t, id, [rows[t][id] EXCEPT !.trashed = gone])
  PROVE  Called
<1> DEFINE row == rows[t][id]
           new == [row EXCEPT !.trashed = gone]
<1>1. id \in Ids[t] /\ row # None /\ RowFits(t, row) BY StoredFits
<1>2. new = [val |-> row.val, trashed |-> gone, unit |-> row.unit] BY <1>1 DEF RowFits
<1>3. RowFits(t, new) /\ new.val = row.val BY <1>1, <1>2 DEF RowFits
<1>4. RulesHold(t, row, new.val) BY <1>1, <1>3 DEF RulesHold
<1> HIDE DEF new
<1>5. Write(t, id, new) BY DEF new
<1>6. QED BY <1>1, <1>3, <1>4, <1>5, WriteKeepsRules

LEMMA PurgeCalled ==
  ASSUME NEW t \in Tables, NEW ids, ids \subseteq Trash(t), Purge(t, ids) PROVE Called
<1>1. CASE Answer("database_error", None) BY <1>1, Answered
<1>2. CASE ~Answer("database_error", None)
  <2>1. Purged(t, ids) BY <1>2 DEF Purge, Purged, Immutable
  <2>2. UNCHANGED mounted /\ outcome' = End("ok", None) BY <1>2 DEF Purge
  <2>3. QED BY <2>1, <2>2 DEF Called, RowsStep, RulesBeforeChecks, End
<1>3. QED BY <1>1, <1>2

LEMMA NextCalled == Inv /\ [Next]_vars => Called
<1> SUFFICES ASSUME Inv, [Next]_vars PROVE Called OBVIOUS
<1>1. CASE UNCHANGED vars
  BY <1>1 DEF vars, Called, RowsStep, RulesBeforeChecks, Inv
<1>2. ASSUME NEW t \in mounted,
             \/ Create(t)
             \/ \E id \in LiveIds(t) : Put(t, id) \/ Patch(t, id) \/ SoftDelete(t, id)
             \/ \E id \in Trash(t) : Restore(t, id) \/ Purge(t, {id})
             \/ EmptyTrash(t)
      PROVE  Called
  <2>1. t \in Tables BY DEF Inv
  <2>2. CASE Create(t) BY <2>1, <2>2, CreateCalled
  <2>3. ASSUME NEW id \in LiveIds(t), Put(t, id) \/ Patch(t, id) PROVE Called
    BY <2>1, <2>3, PutCalled, PatchCalled
  <2>4. ASSUME NEW id \in LiveIds(t), SoftDelete(t, id) PROVE Called
    BY <2>1, <2>4, TrashCalled DEF SoftDelete, LiveIds
  <2>5. ASSUME NEW id \in Trash(t), Restore(t, id) PROVE Called
    BY <2>1, <2>5, TrashCalled DEF Restore, Trash
  <2>6. ASSUME NEW id \in Trash(t), Purge(t, {id}) PROVE Called
    <3>1. {id} \subseteq Trash(t) OBVIOUS
    <3>2. QED BY <2>1, <2>6, <3>1, PurgeCalled
  <2>7. CASE EmptyTrash(t) BY <2>1, <2>7, PurgeCalled DEF EmptyTrash
  <2>8. QED BY <1>2, <2>2, <2>3, <2>4, <2>5, <2>6, <2>7
<1>3. QED BY <1>1, <1>2 DEF Next
--------------------------------------------------------------------------------
(* What a write or a purge leaves in the tables.                                 *)

LEMMA WrittenReads ==
  ASSUME RowsAreFunctions, NEW t \in Tables, NEW id \in Ids[t], NEW row, Written(t, id, row)
  PROVE  /\ rows'[t][id] = row /\ RowsAreFunctions'
         /\ \A u \in Tables : \A i \in Ids[u] :
              u # t \/ i # id => rows'[u][i] = rows[u][i]
<1> USE DEF RowsAreFunctions
<1>1. DOMAIN rows = Tables /\ DOMAIN rows[t] = Ids[t] OBVIOUS
<1>2. rows' = [u \in Tables |-> IF u = t THEN [rows[t] EXCEPT ![id] = row] ELSE rows[u]]
  BY <1>1 DEF Written
<1>3. [rows[t] EXCEPT ![id] = row] = [i \in Ids[t] |-> IF i = id THEN row ELSE rows[t][i]]
  BY <1>1
<1>4. \A u \in Tables : rows[u] = [i \in Ids[u] |-> rows[u][i]] OBVIOUS
<1> HIDE DEF RowsAreFunctions
<1>5. \A u \in Tables : \A i \in Ids[u] :
        rows'[u][i] = IF u = t /\ i = id THEN row ELSE rows[u][i]
  BY <1>2, <1>3
<1>6. \A u \in Tables : rows'[u] = [i \in Ids[u] |-> rows'[u][i]]
  BY <1>2, <1>3, <1>4
<1>7. RowsAreFunctions' BY <1>2, <1>6 DEF RowsAreFunctions
<1>8. QED BY <1>5, <1>7

LEMMA PurgedReads ==
  ASSUME RowsAreFunctions, NEW t \in Tables, NEW ids, Purged(t, ids)
  PROVE  /\ RowsAreFunctions'
         /\ \A u \in Tables : \A i \in Ids[u] :
              rows'[u][i] = IF u = t /\ i \in ids THEN None ELSE rows[u][i]
<1>1. DOMAIN rows = Tables BY DEF RowsAreFunctions
<1>2. rows' = [u \in Tables |->
                 IF u = t THEN [i \in Ids[t] |-> IF i \in ids THEN None ELSE rows[t][i]]
                          ELSE rows[u]]
  BY <1>1 DEF Purged, RowsAreFunctions
<1>3. \A u \in Tables : rows[u] = [i \in Ids[u] |-> rows[u][i]] BY DEF RowsAreFunctions
<1>4. \A u \in Tables : rows'[u] = [i \in Ids[u] |-> rows'[u][i]] BY <1>2, <1>3
<1>5. RowsAreFunctions' BY <1>2, <1>4 DEF RowsAreFunctions
<1>6. QED BY <1>2, <1>5

\* What a write does to the stored and the live rows of a table.
LEMMA WrittenStored ==
  ASSUME RowsInv, NEW t \in Tables, NEW id \in Ids[t], NEW row, Written(t, id, row)
  PROVE  /\ Stored("attendance_sessions") \subseteq Stored("attendance_sessions")'
         /\ \A u \in Tables : \A i \in Stored(u)' :
              IF u = t /\ i = id THEN rows'[u][i] = row
                                 ELSE i \in Stored(u) /\ rows'[u][i] = rows[u][i]
         /\ \A u \in Tables : \A i \in LiveIds(u)' :
              IF u = t /\ i = id THEN ~row.trashed ELSE i \in LiveIds(u)
<1>1. /\ rows'[t][id] = row
      /\ \A u \in Tables : \A i \in Ids[u] :
           u # t \/ i # id => rows'[u][i] = rows[u][i]
  BY WrittenReads DEF RowsInv
<1>2. t = "attendance_sessions" => row # None BY SessionsAreRows DEF Written
<1>3. Stored("attendance_sessions") \subseteq Stored("attendance_sessions")'
  BY <1>1, <1>2 DEF Stored, Tables
<1>4. \A u \in Tables : \A i \in Stored(u)' :
        IF u = t /\ i = id THEN rows'[u][i] = row
                           ELSE i \in Stored(u) /\ rows'[u][i] = rows[u][i]
  BY <1>1 DEF Stored
<1>5. \A u \in Tables : \A i \in LiveIds(u)' :
        IF u = t /\ i = id THEN ~row.trashed ELSE i \in LiveIds(u)
  BY <1>4 DEF LiveIds
<1>6. QED BY <1>3, <1>4, <1>5

LEMMA WrittenKeepsRows ==
  ASSUME RowsInv, NEW t \in Tables, NEW id \in Ids[t], NEW row, Written(t, id, row)
  PROVE  RowsAreFunctions' /\ RowsFit' /\ ReferencesResolve'
<1>1. RowsAreFunctions' BY WrittenReads DEF RowsInv
<1>2. RowsFit'
  <2>1. SUFFICES ASSUME NEW u \in Tables, NEW i \in Stored(u)'
                 PROVE  RowFits(u, rows'[u][i]) /\ BrokenChecks(u, rows'[u][i].val) = {}
    BY DEF RowsFit
  <2>2. CASE u = t /\ i = id
    <3>1. rows'[u][i] = row BY <2>2, WrittenStored
    <3>2. RowFits(t, row) /\ BrokenChecks(t, row.val) = {} BY DEF Written
    <3>3. QED BY <2>2, <3>1, <3>2
  <2>3. CASE ~(u = t /\ i = id)
    <3>1. i \in Stored(u) /\ rows'[u][i] = rows[u][i] BY <2>3, WrittenStored
    <3>2. QED BY <3>1 DEF RowsInv, RowsFit
  <2>4. QED BY <2>2, <2>3
<1>3. ASSUME NEW u \in HasSession, NEW i \in Stored(u)' PROVE Resolves(u, rows[u][i])'
  <2>1. u \in Tables BY DEF HasSession, Tables
  <2>2. CASE u = t /\ i = id
    <3>1. rows'[u][i] = row BY <2>1, <2>2, WrittenStored
    <3>2. row.val.session_id \in Stored("attendance_sessions")
      BY <2>2 DEF Written, Resolves
    <3>3. QED BY <3>1, <3>2, WrittenStored DEF Resolves
  <2>3. CASE ~(u = t /\ i = id)
    <3>1. i \in Stored(u) /\ rows'[u][i] = rows[u][i] BY <2>1, <2>3, WrittenStored
    <3>2. rows[u][i].val.session_id \in Stored("attendance_sessions")
      BY <3>1 DEF RowsInv, ReferencesResolve, Resolves
    <3>3. QED BY <3>1, <3>2, WrittenStored DEF Resolves
  <2>4. QED BY <2>2, <2>3
<1>4. QED BY <1>1, <1>2, <1>3 DEF ReferencesResolve

\* Two sessions meet whichever is named first.
LEMMA MeetsSymmetric == ASSUME NEW a, NEW b, Meets(a, b) PROVE Meets(b, a)
  BY DEF Meets

LEMMA WrittenKeepsTimelines ==
  ASSUME RowsInv, NEW t \in Tables, NEW id \in Ids[t], NEW row, Written(t, id, row)
  PROVE  TimelinesDisjoint'
<1> DEFINE table == "attendance_sessions"
           a(i)  == rows'[table][i].val
<1> SUFFICES ASSUME NEW i \in LiveIds(table)', NEW j \in LiveIds(table)',
                    i # j, a(i).employee_id = a(j).employee_id, Meets(a(i), a(j))
             PROVE  FALSE
  BY DEF TimelinesDisjoint
<1>1. table \in Tables BY DEF Tables
<1>2. i \in Stored(table)' /\ j \in Stored(table)' BY DEF LiveIds
<1>3. ASSUME t = table, id \in LiveIds(table)', NEW k \in LiveIds(table)', k # id,
             row.val.employee_id = a(k).employee_id
      PROVE  ~Meets(a(k), row.val)
  <2>1. k \in LiveIds(table) /\ rows'[table][k] = rows[table][k]
    BY <1>1, <1>3, WrittenStored DEF LiveIds
  <2>2. ~row.trashed BY <1>1, <1>3, WrittenStored
  <2>3. ~Overlaps(id, row) BY <1>3, <2>2 DEF Written, Unique
  <2>4. rows[table][k] \in Others(table, id) BY <1>3, <2>1 DEF Others
  <2>5. QED BY <1>3, <2>1, <2>3, <2>4 DEF Overlaps
<1>4. CASE t = table /\ i = id
  <2>1. a(i) = row.val BY <1>1, <1>2, <1>4, WrittenStored
  <2>2. ~Meets(a(j), a(i)) BY <1>3, <1>4, <2>1
  <2>3. QED BY <2>2, MeetsSymmetric
<1>5. CASE t = table /\ j = id
  <2>1. a(j) = row.val BY <1>1, <1>2, <1>5, WrittenStored
  <2>2. QED BY <1>3, <1>5, <2>1
<1>6. CASE t # table \/ (i # id /\ j # id)
  <2>1. /\ i \in LiveIds(table) /\ rows'[table][i] = rows[table][i]
        /\ j \in LiveIds(table) /\ rows'[table][j] = rows[table][j]
    BY <1>1, <1>2, <1>6, WrittenStored
  <2>2. QED BY <2>1 DEF RowsInv, TimelinesDisjoint
<1>7. QED BY <1>4, <1>5, <1>6

LEMMA WrittenKeepsDays ==
  ASSUME RowsInv, NEW t \in Tables, NEW id \in Ids[t], NEW row, Written(t, id, row),
         NEW i \in LiveIds("attendances")', NEW j \in LiveIds("attendances")', i # j
  PROVE  LET a == rows'["attendances"][i].val
             b == rows'["attendances"][j].val
         IN  a.employee_id # b.employee_id \/ a.date # b.date
<1> DEFINE table == "attendances"
           a(k)  == rows'[table][k].val
<1>1. table \in Tables BY DEF Tables
<1>2. i \in Stored(table)' /\ j \in Stored(table)' BY DEF LiveIds
<1>3. ASSUME t = table, id \in LiveIds(table)', NEW k \in LiveIds(table)', k # id
      PROVE  a(k).employee_id # row.val.employee_id \/ a(k).date # row.val.date
  <2>1. k \in LiveIds(table) /\ rows'[table][k] = rows[table][k]
    BY <1>1, <1>3, WrittenStored DEF LiveIds
  <2>2. ~row.trashed BY <1>1, <1>3, WrittenStored
  <2>3. ~DayTaken(id, row) BY <1>3, <2>2 DEF Written, Unique
  <2>4. rows[table][k] \in Others(table, id) BY <1>3, <2>1 DEF Others
  <2>5. QED BY <2>1, <2>3, <2>4 DEF DayTaken
<1>4. CASE t = table /\ i = id
  <2>1. a(i) = row.val BY <1>1, <1>2, <1>4, WrittenStored
  <2>2. QED BY <1>3, <1>4, <2>1
<1>5. CASE t = table /\ j = id
  <2>1. a(j) = row.val BY <1>1, <1>2, <1>5, WrittenStored
  <2>2. QED BY <1>3, <1>5, <2>1
<1>6. CASE t # table \/ (i # id /\ j # id)
  <2>1. /\ i \in LiveIds(table) /\ rows'[table][i] = rows[table][i]
        /\ j \in LiveIds(table) /\ rows'[table][j] = rows[table][j]
    BY <1>1, <1>2, <1>6, WrittenStored
  <2>2. QED BY <2>1 DEF RowsInv, LiveKeysUnique
<1>7. QED BY <1>4, <1>5, <1>6

LEMMA WrittenKeepsPins ==
  ASSUME RowsInv, NEW t \in Tables, NEW id \in Ids[t], NEW row, Written(t, id, row),
         NEW i \in LiveIds("kiosk_pins")', NEW j \in LiveIds("kiosk_pins")', i # j,
         rows'["kiosk_pins"][i].unit = rows'["kiosk_pins"][j].unit,
         rows'["kiosk_pins"][i].unit # None
  PROVE  LET a == rows'["kiosk_pins"][i].val
             b == rows'["kiosk_pins"][j].val
         IN  a.employee_id # b.employee_id /\ a.badge_code # b.badge_code
<1> DEFINE table == "kiosk_pins"
           a(k)  == rows'[table][k]
<1>1. table \in Tables BY DEF Tables
<1>2. i \in Stored(table)' /\ j \in Stored(table)' BY DEF LiveIds
<1>3. ASSUME t = table, id \in LiveIds(table)', NEW k \in LiveIds(table)', k # id,
             row.unit # None, a(k).unit = row.unit
      PROVE  /\ a(k).val.employee_id # row.val.employee_id
             /\ a(k).val.badge_code # row.val.badge_code
  <2>1. k \in LiveIds(table) /\ rows'[table][k] = rows[table][k]
    BY <1>1, <1>3, WrittenStored DEF LiveIds
  <2>2. ~row.trashed BY <1>1, <1>3, WrittenStored
  <2>3. ~PinTaken(id, row) BY <1>3, <2>2 DEF Written, Unique
  <2>4. rows[table][k] \in Others(table, id) BY <1>3, <2>1 DEF Others
  <2>5. QED BY <1>3, <2>1, <2>3, <2>4 DEF PinTaken
<1>4. CASE t = table /\ i = id
  <2>1. a(i) = row BY <1>1, <1>2, <1>4, WrittenStored
  <2>2. QED BY <1>3, <1>4, <2>1
<1>5. CASE t = table /\ j = id
  <2>1. a(j) = row BY <1>1, <1>2, <1>5, WrittenStored
  <2>2. QED BY <1>3, <1>5, <2>1
<1>6. CASE t # table \/ (i # id /\ j # id)
  <2>1. /\ i \in LiveIds(table) /\ rows'[table][i] = rows[table][i]
        /\ j \in LiveIds(table) /\ rows'[table][j] = rows[table][j]
    BY <1>1, <1>2, <1>6, WrittenStored
  <2>2. QED BY <2>1 DEF RowsInv, LiveKeysUnique
<1>7. QED BY <1>4, <1>5, <1>6

LEMMA WrittenKeeps ==
  ASSUME RowsInv, NEW t \in Tables, NEW id \in Ids[t], NEW row, Written(t, id, row)
  PROVE  RowsInv'
<1>1. ASSUME NEW i \in LiveIds("attendances")', NEW j \in LiveIds("attendances")', i # j
      PROVE  <<rows'["attendances"][i].val.employee_id, rows'["attendances"][i].val.date>>
             # <<rows'["attendances"][j].val.employee_id, rows'["attendances"][j].val.date>>
  BY <1>1, WrittenKeepsDays
<1>2. LiveKeysUnique' BY <1>1, WrittenKeepsPins DEF LiveKeysUnique
<1>3. QED BY <1>2, WrittenKeepsRows, WrittenKeepsTimelines DEF RowsInv

\* A purge takes rows out of the trash, and nothing that refers to one is stored.
LEMMA PurgedKeeps ==
  ASSUME RowsInv, NEW t \in Tables, NEW ids, Purged(t, ids)
  PROVE  RowsInv'
<1>0. \A u \in Tables : \A i \in Ids[u] :
        rows'[u][i] = IF u = t /\ i \in ids THEN None ELSE rows[u][i]
  BY PurgedReads DEF RowsInv
<1>1. \A u \in Tables : \A i \in Stored(u)' :
        i \in Stored(u) /\ rows'[u][i] = rows[u][i] /\ ~(u = t /\ i \in ids)
  BY <1>0 DEF Stored
<1>2. \A u \in Tables : \A i \in LiveIds(u)' : i \in LiveIds(u) /\ rows'[u][i] = rows[u][i]
  BY <1>1 DEF LiveIds
<1>3. RowsAreFunctions' BY PurgedReads DEF RowsInv
<1>4. RowsFit' BY <1>1 DEF RowsInv, RowsFit
<1>5. ASSUME NEW u \in HasSession, NEW i \in Stored(u)' PROVE Resolves(u, rows[u][i])'
  <2> DEFINE s == rows[u][i].val.session_id
  <2>1. u \in Tables /\ "attendance_sessions" \in Tables BY DEF HasSession, Tables
  <2>2. i \in Stored(u) /\ rows'[u][i] = rows[u][i] BY <1>1, <1>5, <2>1
  <2>3. s \in Stored("attendance_sessions")
    BY <2>2 DEF RowsInv, ReferencesResolve, Resolves
  <2>4. ~(t = "attendance_sessions" /\ s \in ids)
    BY <2>2 DEF Purged, Referenced
  <2>5. s \in Stored("attendance_sessions")' BY <1>0, <2>1, <2>3, <2>4 DEF Stored
  <2>6. rows'[u][i].val.session_id = s BY <2>2
  <2> HIDE DEF s
  <2>7. QED BY <2>5, <2>6 DEF Resolves
<1>6. ReferencesResolve' BY <1>5 DEF ReferencesResolve
<1>7. TimelinesDisjoint' BY <1>2 DEF RowsInv, TimelinesDisjoint, Tables
<1>8. LiveKeysUnique' BY <1>2 DEF RowsInv, LiveKeysUnique, Tables
<1>9. QED BY <1>3, <1>4, <1>6, <1>7, <1>8 DEF RowsInv

LEMMA UnchangedKeeps == ASSUME RowsInv, UNCHANGED rows PROVE RowsInv'
<1>1. \A u \in Tables : Stored(u)' = Stored(u) /\ LiveIds(u)' = LiveIds(u)
  BY DEF Stored, LiveIds
<1>2. RowsAreFunctions' BY DEF RowsInv, RowsAreFunctions
<1>3. RowsFit' BY <1>1 DEF RowsInv, RowsFit
<1>4. ReferencesResolve'
  BY <1>1 DEF RowsInv, ReferencesResolve, Resolves, HasSession, Tables
<1>5. TimelinesDisjoint' BY <1>1 DEF RowsInv, TimelinesDisjoint, Tables
<1>6. LiveKeysUnique' BY <1>1 DEF RowsInv, LiveKeysUnique, Tables
<1>7. QED BY <1>2, <1>3, <1>4, <1>5, <1>6 DEF RowsInv

LEMMA InvStep == Inv /\ [Next]_vars => Inv'
<1> SUFFICES ASSUME Inv, [Next]_vars PROVE Inv' OBVIOUS
<1>1. RowsStep /\ UNCHANGED mounted /\ RulesBeforeChecks' BY NextCalled DEF Called
<1>2. RowsInv BY DEF Inv
<1>3. RowsInv' BY <1>1, <1>2, UnchangedKeeps, WrittenKeeps, PurgedKeeps DEF RowsStep
<1>4. QED BY <1>1, <1>3 DEF Inv

LEMMA InitInv == Init => Inv
<1> SUFFICES ASSUME Init PROVE Inv OBVIOUS
<1>1. mounted \subseteq Tables
  <2>1. PICK p \in Parts : mounted \subseteq p BY DEF Init
  <2>2. QED BY <2>1, CrudAssumption
<1>2. \A t \in Tables : \A i \in Ids[t] : rows[t][i] = None BY DEF Init
<1>3. \A t \in Tables : Stored(t) = {} /\ LiveIds(t) = {} BY <1>2 DEF Stored, LiveIds
<1>4. RowsAreFunctions BY DEF Init, RowsAreFunctions
<1>5. RowsFit /\ ReferencesResolve
  BY <1>3 DEF RowsFit, ReferencesResolve, HasSession, Tables
<1>6. TimelinesDisjoint /\ LiveKeysUnique
  BY <1>3 DEF TimelinesDisjoint, LiveKeysUnique, Tables
<1>7. RulesBeforeChecks BY DEF Init, End, RulesBeforeChecks
<1>8. QED BY <1>1, <1>4, <1>5, <1>6, <1>7 DEF Inv, RowsInv
--------------------------------------------------------------------------------
(* The theorems.                                                                 *)

THEOREM Invariance == Spec => []Inv
  BY InitInv, InvStep, PTL DEF Spec

\* Every stored row has every column, NULL only where the table allows it and of its
\* type elsewhere, whatever sequence of bodies and partial updates made it.
THEOREM TypeCorrect == Spec => []TypeOK
<1>1. Inv => TypeOK
  <2> SUFFICES ASSUME Inv, NEW t \in Tables, NEW i \in Stored(t)
               PROVE  /\ DOMAIN rows[t][i].val = Columns(Build[t])
                      /\ \A c \in Columns(Build[t]) :
                           /\ rows[t][i].val[c] # Junk
                           /\ rows[t][i].val[c] = None => c \in Build[t].nullable
    BY DEF TypeOK, Inv
  <2>1. ValFits(t, rows[t][i].val) BY StoredFits
  <2>2. QED BY <2>1, JunkNeverGood DEF ValFits
<1>2. QED BY <1>1, Invariance, PTL

\* No declared rule surfaces as a CHECK of the database: the row rules of a changed
\* column are asked, and an unchanged one was accepted by the CHECKs before.
THEOREM RulesAnswerFirst == Spec => []RulesBeforeChecks
<1>1. Inv => RulesBeforeChecks BY DEF Inv
<1>2. QED BY <1>1, Invariance, PTL

\* What was read and is sent back, in full or as a patch, changes nothing, and the
\* builder can make every stored row: the eight generated descriptions fit.
THEOREM RoundTrips == Spec => []RowsRoundTrip
<1>1. Inv => RowsRoundTrip
  <2> SUFFICES ASSUME Inv, NEW t \in Tables, NEW i \in Stored(t)
               PROVE  LET val == rows[t][i].val
                          set == {c \in DOMAIN val : val[c] # None}
                      IN  /\ ApplyUpdate(t, val, Response(t, val)) = val
                          /\ ApplyPatch(t, val, Response(t, val)) = val
                          /\ BuildRow(t, [c \in set |-> val[c]]) = val
    BY DEF RowsRoundTrip
  <2> DEFINE val   == rows[t][i].val
             set   == {c \in DOMAIN val : val[c] # None}
             build == Build[t]
             given == [c \in set |-> val[c]]
  <2>1. ValFits(t, val) BY StoredFits
  <2>2. Response(t, val) = val BY <2>1, ReadsAreGood
  <2>3. val = [c \in Columns(build) |-> val[c]] BY <2>1 DEF ValFits
  <2>4. \A c \in Columns(build) : c \notin set => val[c] = None /\ c \in build.nullable
    BY <2>1, <2>3 DEF ValFits
  <2> HIDE DEF val
  <2>5. ApplyUpdate(t, val, val) = val BY <2>3 DEF ApplyUpdate
  <2>6. ApplyPatch(t, val, val) = val BY <2>3 DEF ApplyPatch
  <2>7. BuildRow(t, given) = val
    <3>1. DOMAIN given = set /\ set \subseteq Columns(build) BY <2>3
    <3>2. build.needs \subseteq set BY <2>4, NullableNotMandatory DEF Mandatory, Columns
    <3>3. \A c \in Columns(build) \ set : c \notin DOMAIN build.defaults
      BY <2>4, NullableNotMandatory DEF Mandatory
    <3>4. BuildRow(t, given) =
            [c \in Columns(build) |-> IF c \in set THEN given[c]
                                      ELSE IF c \in DOMAIN build.defaults
                                           THEN build.defaults[c] ELSE None]
      BY <3>1, <3>2 DEF BuildRow
    <3>5. \A c \in set : given[c] = val[c] OBVIOUS
    <3> HIDE DEF given, set
    <3>6. QED BY <2>3, <2>4, <3>3, <3>4, <3>5
  <2>8. QED BY <2>2, <2>5, <2>6, <2>7 DEF val
<1>2. QED BY <1>1, Invariance, PTL

\* An event is never changed and never removed, by any call of any sequence.
THEOREM EventsImmutable == Spec => EventsAppendOnly
<1>1. Inv /\ [Next]_vars =>
        [\A i \in Stored("attendance_clocks") :
           rows'["attendance_clocks"][i] = rows["attendance_clocks"][i]]_vars
  <2> SUFFICES ASSUME Inv, [Next]_vars, NEW i \in Stored("attendance_clocks")
               PROVE  rows'["attendance_clocks"][i] = rows["attendance_clocks"][i]
    OBVIOUS
  <2>1. RowsStep BY NextCalled DEF Called
  <2>2. i \in Ids["attendance_clocks"] /\ rows["attendance_clocks"][i] # None
    BY DEF Stored
  <2>3. RowsAreFunctions /\ "attendance_clocks" \in Tables BY DEF Inv, RowsInv, Tables
  <2>4. ASSUME NEW t \in Tables, NEW id \in Ids[t], NEW row, Written(t, id, row)
        PROVE  rows'["attendance_clocks"][i] = rows["attendance_clocks"][i]
    <3>1. "attendance_clocks" # t \/ i # id BY <2>2, <2>4 DEF Written
    <3>2. QED BY <2>2, <2>3, <2>4, <3>1, WrittenReads
  <2>5. ASSUME NEW t \in Tables, NEW ids, Purged(t, ids)
        PROVE  rows'["attendance_clocks"][i] = rows["attendance_clocks"][i]
    <3>1. t # "attendance_clocks" BY <2>5 DEF Purged
    <3>2. QED BY <2>2, <2>3, <2>5, <3>1, PurgedReads
  <2>6. QED BY <2>1, <2>4, <2>5 DEF RowsStep
<1>2. QED BY <1>1, Invariance, PTL DEF Spec, EventsAppendOnly

\* No generated update sets a credential: a stored PIN keeps its hash or is purged.
THEOREM HashesProtected == Spec => HashesStand
<1>1. Inv /\ [Next]_vars =>
        [\A i \in Stored("kiosk_pins") :
           rows'["kiosk_pins"][i] # None =>
             rows'["kiosk_pins"][i].val.pin_hash = rows["kiosk_pins"][i].val.pin_hash]_vars
  <2> SUFFICES ASSUME Inv, [Next]_vars, NEW i \in Stored("kiosk_pins"),
                      rows'["kiosk_pins"][i] # None
               PROVE  rows'["kiosk_pins"][i].val.pin_hash =
                        rows["kiosk_pins"][i].val.pin_hash
    OBVIOUS
  <2>1. RowsStep BY NextCalled DEF Called
  <2>2. i \in Ids["kiosk_pins"] /\ rows["kiosk_pins"][i] # None BY DEF Stored
  <2>3. RowsAreFunctions /\ "kiosk_pins" \in Tables BY DEF Inv, RowsInv, Tables
  <2>4. ASSUME NEW t \in Tables, NEW id \in Ids[t], NEW row, Written(t, id, row)
        PROVE  rows'["kiosk_pins"][i].val.pin_hash = rows["kiosk_pins"][i].val.pin_hash
    <3>1. CASE t = "kiosk_pins" /\ i = id
      <4>1. row.val.pin_hash = rows["kiosk_pins"][i].val.pin_hash
        BY <2>2, <2>4, <3>1 DEF Written
      <4>2. rows'["kiosk_pins"][i] = row BY <2>3, <2>4, <3>1, WrittenReads
      <4>3. QED BY <4>1, <4>2
    <3>2. CASE "kiosk_pins" # t \/ i # id
      <4>1. rows'["kiosk_pins"][i] = rows["kiosk_pins"][i]
        BY <2>2, <2>3, <2>4, <3>2, WrittenReads
      <4>2. QED BY <4>1
    <3>3. QED BY <3>1, <3>2
  <2>5. ASSUME NEW t \in Tables, NEW ids, Purged(t, ids)
        PROVE  rows'["kiosk_pins"][i].val.pin_hash = rows["kiosk_pins"][i].val.pin_hash
    <3>1. rows'["kiosk_pins"][i] = rows["kiosk_pins"][i]
      BY <2>2, <2>3, <2>5, PurgedReads
    <3>2. QED BY <3>1
  <2>6. QED BY <2>1, <2>4, <2>5 DEF RowsStep
<1>2. QED BY <1>1, Invariance, PTL DEF Spec, HashesStand

\* An event or a correction always has its session, if only in the trash.
THEOREM ReferencesHold == Spec => []ReferencesResolve
<1>1. Inv => ReferencesResolve BY DEF Inv, RowsInv
<1>2. QED BY <1>1, Invariance, PTL

\* An employee's live sessions never overlap, deletions and restores included.
THEOREM SessionsNeverOverlap == Spec => []TimelinesDisjoint
<1>1. Inv => TimelinesDisjoint BY DEF Inv, RowsInv
<1>2. QED BY <1>1, Invariance, PTL

\* One live rollup row per employee and day, and in a unit one live PIN per employee
\* and per badge, deletions and restores included.
THEOREM KeysStayUnique == Spec => []LiveKeysUnique
<1>1. Inv => LiveKeysUnique BY DEF Inv, RowsInv
<1>2. QED BY <1>1, Invariance, PTL
================================================================================
