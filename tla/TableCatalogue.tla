---------------------------- MODULE TableCatalogue ----------------------------
(* The eight tables as the generated code describes them: what the builder      *)
(* needs, what a request body asks for, what the conversions carry over, what a *)
(* partial update may set, and the rules a write is checked against.  Each is   *)
(* generated on its own, from one schema; whether they fit is what              *)
(* GeneratedCrud checks.  A text without blanks around it is its length, and a  *)
(* blank one is 0.                                                              *)
EXTENDS Nullable

NoDefaults == <<>>

\* A builder: the columns it cannot do without, those it has a default for, and
\* those that may stay NULL.
Columns(build)   == build.needs \cup DOMAIN build.defaults \cup build.nullable
Mandatory(build) == build.needs \cup DOMAIN build.defaults

\* A body that names every column; a defaulted one has to be spelled out.
Body(build) == [required |-> Mandatory(build), optional |-> build.nullable]
SameBodies(build) == [create |-> Body(build), update |-> Body(build)]

\* Conversions that carry every column: entity to response, and bodies to entity.
CarriesAll(build) ==
  [response |-> Columns(build), create |-> Columns(build), update |-> Columns(build)]

Required(c)    == [column |-> c, rule |-> "required", limit |-> 0]
AtMost(c, max) == [column |-> c, rule |-> "max_length", limit |-> max]
Positive(c)    == [column |-> c, rule |-> "positive", limit |-> 0]
--------------------------------------------------------------------------------
AttendanceBuild ==
  [needs    |-> {"employee_id", "date"}, defaults |-> NoDefaults,
   nullable |-> {"schedule", "clockin", "clockout", "time_debt", "timeoff"}]
AttendanceBodies  == SameBodies(AttendanceBuild)
AttendanceCarries == CarriesAll(AttendanceBuild)
AttendancePatch   == Columns(AttendanceBuild)
AttendanceRules   == {Required("employee_id")}

AttendanceClockBuild ==
  [needs    |-> {"session_id", "employee_id", "date", "punched_at"},
   defaults |-> [direction |-> "in", source |-> "kiosk"],
   nullable |-> {"device_ref"}]
AttendanceClockBodies  == SameBodies(AttendanceClockBuild)
AttendanceClockCarries == CarriesAll(AttendanceClockBuild)
AttendanceClockPatch   == Columns(AttendanceClockBuild)
AttendanceClockRules   ==
  {Required("session_id"), Required("employee_id"), AtMost("device_ref", 80)}

AttendanceSessionBuild ==
  [needs    |-> {"employee_id", "date", "check_in"}, defaults |-> [source |-> "kiosk"],
   nullable |-> {"check_out", "correction_reason"}]
AttendanceSessionBodies  == SameBodies(AttendanceSessionBuild)
AttendanceSessionCarries == CarriesAll(AttendanceSessionBuild)
AttendanceSessionPatch   == Columns(AttendanceSessionBuild)
AttendanceSessionRules   == {Required("employee_id"), AtMost("correction_reason", 255)}

AttendanceCorrectionBuild ==
  [needs    |-> {"session_id", "employee_id", "check_in", "reason", "submitted_at"},
   defaults |-> [status |-> "pending"],
   nullable |-> {"check_out", "approval_request_id"}]
AttendanceCorrectionBodies  == SameBodies(AttendanceCorrectionBuild)
AttendanceCorrectionCarries == CarriesAll(AttendanceCorrectionBuild)
AttendanceCorrectionPatch   == Columns(AttendanceCorrectionBuild)
AttendanceCorrectionRules   ==
  {Required("session_id"), Required("employee_id"), Required("reason"), AtMost("reason", 500)}

KioskPinBuild ==
  [needs    |-> {"employee_id", "badge_code", "pin_hash"},
   defaults |-> [failed_attempts |-> 0],
   nullable |-> {"locked_until", "last_attempt_at", "expires_at"}]
\* A full update has no field for the hash, and a partial one may not name it.
KioskPinBodies  == [SameBodies(KioskPinBuild) EXCEPT !.update.required = @ \ {"pin_hash"}]
KioskPinCarries == [CarriesAll(KioskPinBuild) EXCEPT !.update = @ \ {"pin_hash"}]
KioskPinPatch   == Columns(KioskPinBuild)
KioskPinProtected == {"pin_hash"}
KioskPinRules   ==
  {Required("employee_id"), Required("badge_code"), AtMost("badge_code", 64),
   Required("pin_hash"), AtMost("pin_hash", 255)}

OvertimeRequestBuild ==
  [needs    |-> {"employee_id", "date", "hours_planned", "reason"},
   defaults |-> [status |-> "pending"],
   nullable |-> {"approval_request_id", "decided_at"}]
OvertimeRequestBodies  == SameBodies(OvertimeRequestBuild)
OvertimeRequestCarries == CarriesAll(OvertimeRequestBuild)
OvertimeRequestPatch   == Columns(OvertimeRequestBuild)
OvertimeRequestRules   ==
  {Required("employee_id"), Positive("hours_planned"), Required("reason"),
   AtMost("reason", 1000)}

RosterEntryBuild ==
  [needs |-> {"employee_id", "date"}, defaults |-> NoDefaults, nullable |-> {"shift_id"}]
RosterEntryBodies  == SameBodies(RosterEntryBuild)
RosterEntryCarries == CarriesAll(RosterEntryBuild)
RosterEntryPatch   == Columns(RosterEntryBuild)
RosterEntryRules   == {Required("employee_id")}

ShiftBuild ==
  [needs    |-> {"name", "code"}, defaults |-> [is_active |-> TRUE],
   nullable |-> {"start_time", "end_time", "break_minutes"}]
ShiftBodies  == SameBodies(ShiftBuild)
ShiftCarries == CarriesAll(ShiftBuild)
ShiftPatch   == Columns(ShiftBuild)
ShiftRules   == {Required("name"), Required("code")}
--------------------------------------------------------------------------------
Tables == {"attendances", "attendance_clocks", "attendance_sessions",
           "attendance_corrections", "kiosk_pins", "overtime_requests",
           "roster_entries", "shifts"}

Build ==
  [attendances |-> AttendanceBuild, attendance_clocks |-> AttendanceClockBuild,
   attendance_sessions |-> AttendanceSessionBuild,
   attendance_corrections |-> AttendanceCorrectionBuild, kiosk_pins |-> KioskPinBuild,
   overtime_requests |-> OvertimeRequestBuild, roster_entries |-> RosterEntryBuild,
   shifts |-> ShiftBuild]

Bodies ==
  [attendances |-> AttendanceBodies, attendance_clocks |-> AttendanceClockBodies,
   attendance_sessions |-> AttendanceSessionBodies,
   attendance_corrections |-> AttendanceCorrectionBodies, kiosk_pins |-> KioskPinBodies,
   overtime_requests |-> OvertimeRequestBodies, roster_entries |-> RosterEntryBodies,
   shifts |-> ShiftBodies]

Carries ==
  [attendances |-> AttendanceCarries, attendance_clocks |-> AttendanceClockCarries,
   attendance_sessions |-> AttendanceSessionCarries,
   attendance_corrections |-> AttendanceCorrectionCarries, kiosk_pins |-> KioskPinCarries,
   overtime_requests |-> OvertimeRequestCarries, roster_entries |-> RosterEntryCarries,
   shifts |-> ShiftCarries]

Patchable ==
  [attendances |-> AttendancePatch, attendance_clocks |-> AttendanceClockPatch,
   attendance_sessions |-> AttendanceSessionPatch,
   attendance_corrections |-> AttendanceCorrectionPatch, kiosk_pins |-> KioskPinPatch,
   overtime_requests |-> OvertimeRequestPatch, roster_entries |-> RosterEntryPatch,
   shifts |-> ShiftPatch]

\* The columns the framework takes out of a partial update.
WriteProtected == [t \in Tables |-> IF t = "kiosk_pins" THEN KioskPinProtected ELSE {}]

RowRules ==
  [attendances |-> AttendanceRules, attendance_clocks |-> AttendanceClockRules,
   attendance_sessions |-> AttendanceSessionRules,
   attendance_corrections |-> AttendanceCorrectionRules, kiosk_pins |-> KioskPinRules,
   overtime_requests |-> OvertimeRequestRules, roster_entries |-> RosterEntryRules,
   shifts |-> ShiftRules]

\* The CHECKs of the database, from the migration.
DeclaredChecks ==
  [attendances         |-> {Required("employee_id")},
   attendance_clocks   |-> {Required("session_id"), Required("employee_id"),
                            AtMost("device_ref", 80)},
   attendance_sessions |-> {Required("employee_id"), AtMost("correction_reason", 255)},
   attendance_corrections |-> {Required("session_id"), Required("employee_id"),
                               Required("reason"), AtMost("reason", 500)},
   kiosk_pins          |-> {Required("employee_id"), Required("badge_code"),
                            AtMost("badge_code", 64), Required("pin_hash"),
                            AtMost("pin_hash", 255)},
   overtime_requests   |-> {Required("employee_id"), Positive("hours_planned"),
                            Required("reason"), AtMost("reason", 1000)},
   roster_entries      |-> {Required("employee_id")},
   shifts              |-> {Required("name"), Required("code")}]
================================================================================
