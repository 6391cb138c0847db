------------------------------- MODULE PunchClock -------------------------------
(* Sessions, clock events and the daily rollup, written by concurrent requests. *)
(*                                                                              *)
(* Each request runs one verb of AttendanceWriteService (a punch, the punch of  *)
(* a kiosk whose PIN was already verified, a break half, or the session rewrite *)
(* an applied correction makes) on a transaction of its own, READ COMMITTED     *)
(* and without SELECT FOR UPDATE.  A step is one read of the handler, or the    *)
(* block of writes that ends in its commit: what those writes touch is locked   *)
(* to the commit, so nobody sees them apart.  A correction reads its aggregates *)
(* between its UPDATE and its rollup writes, so there the block is two steps,   *)
(* the row lock held from the first to the second.                              *)
EXTENDS BusinessDay, PunchPolicy, Sequences, FiniteSetsExt

CONSTANTS
  Employees,     \* employee ids
  SessionIds,    \* the ids gen_random_uuid() may hand out
  Shifts,        \* shifts the roster may name
  Requests,      \* requests, each of which arrives at most once
  Verbs,         \* the verbs this instance exercises
  PunchSources,  \* the sources an explicit punch may name
  MaxInFlight,   \* bound: requests in flight at the same time
  MaxTime        \* bound: where the clock stops

ASSUME PunchClockAssumption ==
  /\ MaxInFlight \in Nat /\ MaxTime \in Nat
  /\ Verbs \subseteq {"punch", "kiosk", "break", "correct"}
  /\ None \notin Shifts

VARIABLES
  now,        \* the server's clock
  timezone,   \* the locale/timezone setting: the name of a zone, or not
  roster,     \* the active shifts rostered on an employee's day
  sessions,   \* attendance_sessions: id -> live row, or None
  clocks,     \* attendance_clocks, in the order they were written
  rollup,     \* attendances: the live row of an employee's day, or None
  pc,         \* where each request is
  call,       \* the arguments a request arrived with, or None
  found,      \* the session row a request has read, or None
  pending,    \* a correction's written, uncommitted row and its aggregates
  answer,     \* what a request answered
  corrected   \* history: the sessions a correction has rewritten

tables == <<sessions, clocks, rollup>>
locals == <<pc, call, found, pending, answer>>
world  == <<now, timezone, roster>>
vars   == <<world, tables, locals, corrected>>

Directions == {"in", "out"}
Instants   == 0..(MaxTime + PunchClockSkew)
Zones      == {ParseTimezone(name) : name \in Optional(ZoneNames)}
Days       == {BusinessDate(t, z) : t \in Instants, z \in Zones}
Zone       == ParseTimezone(timezone)

SessionRow == [emp : Employees, date : Int, in : Int, out : Optional(Int)]
ASSUME RowAssumption == None \notin SessionRow

Calls ==
  [verb : {"punch"} \cap Verbs, emp : Employees, dir : Directions, at : Instants,
   source : PunchSources]
  \cup [verb : {"kiosk"} \cap Verbs, emp : Employees, at : Instants]
  \cup [verb : {"break"} \cap Verbs, emp : Employees, dir : Directions, at : Instants]
  \cup [verb : {"correct"} \cap Verbs, session : SessionIds, in : Instants,
        out : Optional(Instants)]
--------------------------------------------------------------------------------
(* Reads, and what the database enforces.                                       *)

\* The ids of the live rows.
Live == {s \in SessionIds : sessions[s] # None}

\* tstzrange(check_in, coalesce(check_out, infinity)) && the same of another row.
\* An empty range overlaps nothing.
Empty(row) == row.out # None /\ row.in = row.out
Overlap(a, b) ==
  /\ ~Empty(a) /\ ~Empty(b)
  /\ b.out # None => a.in < b.out
  /\ a.out # None => b.in < a.out

\* Mutant: an exclusion that does not see a session while it is open.
ClashesWithClosed(s, row) ==
  \E x \in Live \ {s} : /\ sessions[x].emp = row.emp /\ sessions[x].out # None
                         /\ Overlap(sessions[x], row)

\* The EXCLUDE constraint refuses `row` as the new version of session s.
Clashes(s, row) ==
  \E x \in Live \ {s} : sessions[x].emp = row.emp /\ Overlap(sessions[x], row)

\* Corrections that have written and not committed hold their session's row lock.
Uncommitted == {r \in Requests : pc[r] = "commit"}
Locked(s)   == \E r \in Uncommitted : call[r].session = s

\* Writing `row` has to wait for an uncommitted version it may conflict with.
MustWait(s, row) ==
  \/ Locked(s)
  \/ \E r \in Uncommitted :
       /\ pending[r].row.emp = row.emp
       /\ Overlap(sessions[call[r].session], row) \/ Overlap(pending[r].row, row)

\* Mutant: the employee is left out of the WHERE clause.
OpenSessionsOfAnyone(e) == {s \in Live : sessions[s].out = None}

\* find_open_session: the open session with the latest check-in, if there is one.
OpenSessions(e) == {s \in Live : sessions[s].emp = e /\ sessions[s].out = None}
FindOpenSession(e) ==
  IF OpenSessions(e) = {} THEN {None}
  ELSE {[id |-> s, row |-> sessions[s]] :
          s \in {o \in OpenSessions(e) :
                   \A x \in OpenSessions(e) : sessions[x].in <= sessions[o].in}}

\* last_clock_event: an event with the latest punched_at; ties come in any order.
LastClockEvents(e) ==
  LET mine == {i \in DOMAIN clocks : clocks[i].emp = e}
  IN  {clocks[i] : i \in {l \in mine : \A j \in mine : clocks[j].at <= clocks[l].at}}

\* resolve_schedule_snapshot: a rostered shift, or no schedule.
ScheduleSnapshots(e, d) == IF roster[e][d] = {} THEN {None} ELSE roster[e][d]

\* Mutants: the last punch-in wins; the day's row is updated, never inserted.
UpsertRollupLastIn(row, clockin, clockout, schedule) ==
  IF row = None
  THEN [in |-> clockin, out |-> clockout, schedule |-> schedule]
  ELSE [in |-> Coalesce(clockin, row.in), out |-> Coalesce(clockout, row.out),
        schedule |-> schedule]
UpdateRollup(row, clockin, clockout, schedule) ==
  IF row = None THEN None
  ELSE [in |-> Coalesce(row.in, clockin), out |-> Coalesce(clockout, row.out),
        schedule |-> schedule]

\* upsert_rollup_times: insert the day's row, or merge into the live one.
UpsertRollup(row, clockin, clockout, schedule) ==
  IF row = None
  THEN [in |-> clockin, out |-> clockout, schedule |-> schedule]
  ELSE [in       |-> Coalesce(row.in, clockin),
        out      |-> Coalesce(clockout, row.out),
        schedule |-> schedule]

\* The aggregates refresh_rollup_from_sessions reads: MIN and MAX of wall times.
DayAggregate(table, e, d) ==
  LET day     == {s \in SessionIds : table[s] # None /\ table[s].emp = e /\ table[s].date = d}
      ins     == {WallTime(table[s].in, Zone) : s \in day}
      outs    == {WallTime(table[s].out, Zone) : s \in {c \in day : table[c].out # None}}
  IN  [in  |-> IF ins = {} THEN None ELSE Min(ins),
       out |-> IF outs = {} THEN None ELSE Max(outs)]

\* Mutant: a day with no session left keeps its row.
RefreshRollupInPlace(row, agg) == UpsertRollup(row, agg.in, agg.out, None)

\* refresh_rollup_from_sessions: no session left on the day soft-deletes its row.
RefreshRollup(row, agg) ==
  IF agg.in = None THEN None ELSE UpsertRollup(row, agg.in, agg.out, None)
--------------------------------------------------------------------------------
(* Requests                                                                     *)

Busy(r)  == pc[r] \notin {"idle", "done"}
InFlight == {r \in Requests : Busy(r)}

NoAnswer == [code |-> "none", session |-> None, in |-> None, out |-> None]
Answer(code, s, in, out) == [code |-> code, session |-> s, in |-> in, out |-> out]

\* The handler returns, and what it kept goes away.
Reply(r, ans) ==
  /\ pc' = [pc EXCEPT ![r] = "done"]
  /\ answer' = [answer EXCEPT ![r] = ans]
  /\ call' = [call EXCEPT ![r] = None]
  /\ found' = [found EXCEPT ![r] = None]
  /\ pending' = [pending EXCEPT ![r] = None]

\* The transaction ends without a write: an error, a double tap, a lost client.
Rollback(r, ans) ==
  /\ Reply(r, ans)
  /\ UNCHANGED <<world, tables, corrected>>

Refuse(r, code) == Rollback(r, Answer(code, None, None, None))

\* Mutant: the bounds may be equal.
ProperRangeOrEmpty(in, out) == out # None => out >= in

\* A correction's bounds: the check-out is after the check-in.
ProperRange(in, out) == out # None => out > in

\* The verb's own validation, before it begins a transaction.
Accepted(c) ==
  CASE c.verb = "punch"   -> \E reasoned \in BOOLEAN :
                               ValidatePunchTime(c.at, reasoned, now) = "ok"
    [] c.verb \in {"kiosk", "break"} -> ValidatePunchTime(c.at, FALSE, now) = "ok"
    [] c.verb = "correct" -> c.session \in Live /\ ProperRange(c.in, c.out)

\* A call passes validation and begins its transaction.
Receive(r) ==
  /\ pc[r] = "idle"
  /\ Cardinality(InFlight) < MaxInFlight
  /\ \E c \in Calls :
       /\ Accepted(c)
       /\ call' = [call EXCEPT ![r] = c]
       /\ pc' = [pc EXCEPT ![r] = IF c.verb = "correct" THEN "session" ELSE "open"]
  /\ UNCHANGED <<world, tables, found, pending, answer, corrected>>

\* Mutant: a kiosk punch also waits for one that has yet to take the lock.
PinRowUnclaimed(r) ==
  ~\E q \in Requests \ {r} :
     Busy(q) /\ call[q].verb = "kiosk" /\ call[q].emp = call[r].emp

\* record_pin_success locked the employee's PIN row before find_open_session runs.
PinRowFree(r) ==
  ~\E q \in Requests \ {r} : /\ Busy(q) /\ pc[q] # "open"
                             /\ call[q].verb = "kiosk" /\ call[q].emp = call[r].emp

\* find_open_session: a break needs an open session, an explicit punch goes on to
\* the dedupe check, a kiosk takes its direction from the answer.
ReadOpenSession(r) ==
  /\ pc[r] = "open"
  /\ call[r].verb = "kiosk" => PinRowFree(r)
  /\ \E open \in FindOpenSession(call[r].emp) :
       /\ ~(call[r].verb = "break" /\ open = None)
       /\ found' = [found EXCEPT ![r] = open]
  /\ pc' = [pc EXCEPT ![r] = IF call[r].verb = "punch" THEN "last" ELSE "write"]
  /\ UNCHANGED <<world, tables, call, pending, answer, corrected>>

\* A break of an employee who has no open session.
BreakWithoutSession(r) ==
  /\ pc[r] = "open" /\ call[r].verb = "break"
  /\ OpenSessions(call[r].emp) = {}
  /\ Refuse(r, "no_open_session")

DoubleTap(r, last) == IsDoubleTap(last, call[r].dir, call[r].at)

\* last_clock_event, and the decision it leads to: the punch goes on to its write.
ReadLastEvent(r) ==
  /\ pc[r] = "last"
  /\ \/ LastClockEvents(call[r].emp) = {}
     \/ \E last \in LastClockEvents(call[r].emp) : ~DoubleTap(r, last)
  /\ call[r].dir = "in" <=> found[r] = None
  /\ pc' = [pc EXCEPT ![r] = "write"]
  /\ UNCHANGED <<world, tables, call, found, pending, answer, corrected>>

\* A double tap answers from the event that exists, and writes nothing.
AnswerDoubleTap(r) ==
  /\ pc[r] = "last"
  /\ \E last \in LastClockEvents(call[r].emp) :
       /\ DoubleTap(r, last)
       /\ Rollback(r, Answer("duplicate", last.session,
                             IF found[r] # None THEN found[r].row.in ELSE last.at,
                             IF found[r] = None THEN last.at ELSE None))

\* A punch-in into an open session, or a punch-out of none.
WrongDirection(r) ==
  /\ pc[r] = "last"
  /\ \/ LastClockEvents(call[r].emp) = {}
     \/ \E last \in LastClockEvents(call[r].emp) : ~DoubleTap(r, last)
  /\ ~(call[r].dir = "in" <=> found[r] = None)
  /\ Refuse(r, IF call[r].dir = "in" THEN "session_still_open" ELSE "no_open_session")
--------------------------------------------------------------------------------
(* The writes of a punch.                                                       *)

IsPunch(r) == call[r].verb \in {"punch", "kiosk"}
Opening(r) == pc[r] = "write" /\ IsPunch(r) /\ found[r] = None
Closing(r) == pc[r] = "write" /\ IsPunch(r) /\ found[r] # None

\* The source an event carries: a kiosk's punch-out is stamped "admin".
SourceOf(r, dir) ==
  IF call[r].verb = "punch" THEN call[r].source
  ELSE IF call[r].verb = "kiosk" /\ dir = "out" THEN "admin" ELSE "kiosk"

\* Mutant: the event is stamped with the row's check-out.
EventAtCheckOut(s, row, at, dir, isBreak, source) ==
  [session |-> s, emp |-> row.emp, date |-> row.date, at |-> row.out, dir |-> dir,
   isBreak |-> isBreak, source |-> source]

\* The clock event a write appends: session and date are the row's.
Event(s, row, at, dir, isBreak, source) ==
  [session |-> s, emp |-> row.emp, date |-> row.date, at |-> at, dir |-> dir,
   isBreak |-> isBreak, source |-> source]

NewRow(r) ==
  [emp |-> call[r].emp, date |-> BusinessDate(call[r].at, Zone), in |-> call[r].at, out |-> None]

\* open_session_on: the session, its event and the day's rollup.
OpenSession(r) ==
  /\ Opening(r)
  /\ \E s \in SessionIds \ Live, schedule \in ScheduleSnapshots(call[r].emp, NewRow(r).date) :
       LET row == NewRow(r) IN
       /\ ~MustWait(s, row) /\ ~Clashes(s, row)
       /\ sessions' = [sessions EXCEPT ![s] = row]
       /\ clocks' = Append(clocks, Event(s, row, row.in, "in", FALSE, SourceOf(r, "in")))
       /\ rollup' = [rollup EXCEPT ![row.emp][row.date] =
                       UpsertRollup(@, WallTime(row.in, Zone), None, schedule)]
       /\ Reply(r, Answer("ok", s, row.in, None))
  /\ UNCHANGED <<world, corrected>>

\* The EXCLUDE constraint turns the insert away (map_overlap).
OpenSessionOverlap(r) ==
  /\ Opening(r)
  /\ \E s \in SessionIds \ Live : ~MustWait(s, NewRow(r)) /\ Clashes(s, NewRow(r))
  /\ Refuse(r, "session_overlap")

\* Mutant: the UPDATE does not ask for an open row.
StillOpenUnchecked(s) == TRUE

\* close_session: UPDATE ... WHERE check_out IS NULL finds its row.
StillOpen(s) == sessions[s].out = None

\* close_session_on: the session, its event and the day's rollup.
\* The row may have changed since it was found.
CloseSession(r) ==
  /\ Closing(r)
  /\ LET s   == found[r].id
         at  == call[r].at
         row == [sessions[s] EXCEPT !.out = at]
     IN  /\ at > found[r].row.in
         /\ ~Locked(s)
         /\ StillOpen(s) /\ sessions[s].in <= at
         /\ sessions' = [sessions EXCEPT ![s] = row]
         /\ clocks' = Append(clocks, Event(s, row, at, "out", FALSE, SourceOf(r, "out")))
         /\ rollup' = [rollup EXCEPT ![row.emp][row.date] =
                         UpsertRollup(@, None, WallTime(at, Zone), None)]
         /\ Reply(r, Answer("ok", s, row.in, at))
  /\ UNCHANGED <<world, corrected>>

\* The punch-out is not after the check-in it read; the session was closed since;
\* or a correction moved the check-in past the punch-out (an inverted range).
CloseRefused(r) ==
  /\ Closing(r)
  /\ LET s == found[r].id IN
     \/ /\ call[r].at <= found[r].row.in
        /\ Refuse(r, "invalid_time_range")
     \/ /\ call[r].at > found[r].row.in /\ ~Locked(s)
        /\ ~StillOpen(s)
        /\ Refuse(r, "session_already_closed")
     \/ /\ call[r].at > found[r].row.in /\ ~Locked(s)
        /\ StillOpen(s) /\ call[r].at < sessions[s].in
        /\ Refuse(r, "database_error")

\* break_start and break_end append an event to the session they found open.
RecordBreak(r) ==
  /\ pc[r] = "write" /\ call[r].verb = "break"
  /\ LET open == found[r] IN
     /\ clocks' = Append(clocks, Event(open.id, open.row, call[r].at, call[r].dir, TRUE,
                                       SourceOf(r, call[r].dir)))
     /\ Reply(r, Answer("ok", open.id, open.row.in, None))
  /\ UNCHANGED <<world, sessions, rollup, corrected>>
--------------------------------------------------------------------------------
(* The session rewrite of a correction.                                         *)

\* get_session: the row as it is now; its date is the old business date.
ReadSession(r) ==
  /\ pc[r] = "session"
  /\ found' = [found EXCEPT ![r] = [id |-> call[r].session, row |-> sessions[call[r].session]]]
  /\ pc' = [pc EXCEPT ![r] = "update"]
  /\ UNCHANGED <<world, tables, call, pending, answer, corrected>>

CorrectedRow(r) ==
  [emp |-> sessions[call[r].session].emp, date |-> BusinessDate(call[r].in, Zone),
   in |-> call[r].in, out |-> call[r].out]

\* The UPDATE (not yet visible to others), and the aggregates of both dates, which
\* see this transaction's own row and what others have committed.
UpdateSession(r) ==
  /\ pc[r] = "update"
  /\ LET s     == call[r].session
         row   == CorrectedRow(r)
         table == [sessions EXCEPT ![s] = row]
     IN  /\ ~MustWait(s, row) /\ ~Clashes(s, row)
         /\ pending' = [pending EXCEPT ![r] =
              [row |-> row,
               old |-> DayAggregate(table, row.emp, found[r].row.date),
               new |-> DayAggregate(table, row.emp, row.date)]]
  /\ pc' = [pc EXCEPT ![r] = "commit"]
  /\ UNCHANGED <<world, tables, call, found, answer, corrected>>

\* The EXCLUDE constraint turns the UPDATE away; nothing maps the error here.
UpdateSessionOverlap(r) ==
  /\ pc[r] = "update"
  /\ ~MustWait(call[r].session, CorrectedRow(r)) /\ Clashes(call[r].session, CorrectedRow(r))
  /\ Refuse(r, "database_error")

\* The rollups of the old and the new date, and the commit.
CommitCorrection(r) ==
  /\ pc[r] = "commit"
  /\ LET s   == call[r].session
         p   == pending[r]
         day == found[r].row.date
         old == IF day = p.row.date THEN rollup[p.row.emp]
                ELSE [rollup[p.row.emp] EXCEPT ![day] = RefreshRollup(@, p.old)]
     IN  /\ sessions' = [sessions EXCEPT ![s] = p.row]
         /\ rollup' = [rollup EXCEPT ![p.row.emp] =
                         [old EXCEPT ![p.row.date] = RefreshRollup(@, p.new)]]
         /\ Reply(r, Answer("ok", s, p.row.in, p.row.out))
         /\ corrected' = corrected \cup {s}
  /\ UNCHANGED <<world, clocks>>
--------------------------------------------------------------------------------
(* The environment.                                                             *)

\* The client goes away or the process dies: the transaction is rolled back.
Abandon(r) == Busy(r) /\ Refuse(r, "dropped")

Tick ==
  /\ now < MaxTime
  /\ now' = now + 1
  /\ UNCHANGED <<timezone, roster, tables, locals, corrected>>

\* An admin changes the installation's timezone setting.
SetTimezone ==
  /\ \E name \in Optional(ZoneNames) \ {timezone} : timezone' = name
  /\ UNCHANGED <<now, roster, tables, locals, corrected>>

\* The roster is edited through its CRUD routes.
EditRoster ==
  /\ \E e \in Employees, d \in Days, shift \in Shifts :
       roster' = [roster EXCEPT ![e][d] =
                    IF shift \in @ THEN @ \ {shift} ELSE @ \cup {shift}]
  /\ UNCHANGED <<now, timezone, tables, locals, corrected>>

Init ==
  /\ now = 0
  /\ timezone = None
  /\ roster = [e \in Employees |-> [d \in Days |-> {}]]
  /\ sessions = [s \in SessionIds |-> None]
  /\ clocks = <<>>
  /\ rollup = [e \in Employees |-> [d \in Days |-> None]]
  /\ pc = [r \in Requests |-> "idle"]
  /\ call = [r \in Requests |-> None]
  /\ found = [r \in Requests |-> None]
  /\ pending = [r \in Requests |-> None]
  /\ answer = [r \in Requests |-> NoAnswer]
  /\ corrected = {}

\* A step of the handler that serves r.
Handle(r) ==
  \/ ReadOpenSession(r) \/ BreakWithoutSession(r)
  \/ ReadLastEvent(r) \/ AnswerDoubleTap(r) \/ WrongDirection(r)
  \/ OpenSession(r) \/ OpenSessionOverlap(r)
  \/ CloseSession(r) \/ CloseRefused(r) \/ RecordBreak(r)
  \/ ReadSession(r) \/ UpdateSession(r) \/ UpdateSessionOverlap(r) \/ CommitCorrection(r)

\* Every request was answered, and nobody sends another.
Quiesce == (\A r \in Requests : pc[r] = "done") /\ UNCHANGED vars

Next ==
  \/ \E r \in Requests : Receive(r) \/ Handle(r) \/ Abandon(r)
  \/ Tick \/ SetTimezone \/ EditRoster \/ Quiesce

Spec == Init /\ [][Next]_vars

\* The runtime keeps polling a handler and the database answers it.
FairSpec == Spec /\ \A r \in Requests : WF_vars(Handle(r))
--------------------------------------------------------------------------------
(* Properties                                                                   *)

EventRow ==
  [session : SessionIds, emp : Employees, date : Int, at : Int, dir : Directions,
   isBreak : BOOLEAN, source : PunchSources \cup {"kiosk", "admin"}]
Aggregate == [in : Optional(Int), out : Optional(Int)]
Reading == [id : SessionIds, row : SessionRow]
Rewrite == [row : SessionRow, old : Aggregate, new : Aggregate]
AnswerCodes ==
  {"none", "ok", "duplicate", "dropped", "no_open_session", "session_still_open",
   "session_overlap", "session_already_closed", "invalid_time_range", "database_error"}
AnswerRow ==
  [code : AnswerCodes, session : Optional(SessionIds), in : Optional(Int), out : Optional(Int)]

RollupRow == [in : Optional(Int), out : Optional(Int), schedule : Optional(Shifts)]
Interval  == [emp : Employees, in : Int, out : Optional(Int)]
ASSUME RecordAssumption == None \notin RollupRow /\ None \notin Interval

\* Every table, and what every request keeps, has its shape.
TypeOK ==
  /\ now \in 0..MaxTime
  /\ timezone \in Optional(ZoneNames)
  /\ roster \in [Employees -> [Days -> SUBSET Shifts]]
  /\ sessions \in [SessionIds -> Optional(SessionRow)]
  /\ clocks \in Seq(EventRow)
  /\ rollup \in [Employees -> [Days -> Optional(RollupRow)]]
  /\ pc \in [Requests -> {"idle", "open", "last", "write", "session", "update", "commit", "done"}]
  /\ call \in [Requests -> Optional(Calls)]
  /\ found \in [Requests -> Optional(Reading)]
  /\ pending \in [Requests -> Optional(Rewrite)]
  /\ answer \in [Requests -> AnswerRow]
  /\ corrected \subseteq SessionIds

\* What a handler keeps fits where it is: the session it has found is a live one of
\* its own employee, however long ago it was read, and a correction has read its
\* session before it writes it and keeps its owner.
HandlerStateOf(r) ==
  /\ Busy(r) => call[r] \in Calls
  /\ pc[r] \in {"open", "last", "write"} => call[r].verb \in {"punch", "kiosk", "break"}
  /\ pc[r] = "last" => call[r].verb = "punch"
  /\ pc[r] = "write" /\ call[r].verb = "break" => found[r] # None
  /\ pc[r] \in {"last", "write"} /\ found[r] # None =>
       /\ found[r].id \in Live
       /\ sessions[found[r].id].emp = call[r].emp /\ found[r].row.emp = call[r].emp
  /\ pc[r] \in {"session", "update", "commit"} =>
       call[r].verb = "correct" /\ call[r].session \in Live
  /\ pc[r] \in {"update", "commit"} => found[r] \in Reading
  /\ pc[r] = "commit" =>
       pending[r] \in Rewrite /\ pending[r].row.emp = sessions[call[r].session].emp
HandlerState == \A r \in Requests : HandlerStateOf(r)

\* A correction that has written and not committed is alone with its session, and
\* what it is about to commit overlaps no other session of the employee and nothing
\* another correction is about to commit: no commit can break NoOverlap.
LocksProtect ==
  \A r \in Uncommitted :
    /\ \A x \in Live \ {call[r].session} :
         sessions[x].emp = pending[r].row.emp => ~Overlap(sessions[x], pending[r].row)
    /\ \A q \in Uncommitted \ {r} :
         /\ call[q].session # call[r].session
         /\ pending[q].row.emp = pending[r].row.emp =>
              ~Overlap(pending[q].row, pending[r].row)

\* No two sessions of one employee overlap: punches, kiosk punches and corrections
\* in flight together cannot slip one past the EXCLUDE constraint, whatever they
\* had read before they wrote.
NoOverlap ==
  \A s, x \in Live :
    s # x /\ sessions[s].emp = sessions[x].emp => ~Overlap(sessions[s], sessions[x])

\* An employee has at most one open session, so find_open_session's answer is the
\* only one and a punch has one direction.
AtMostOneOpen == \A e \in Employees : \A s, x \in OpenSessions(e) : s = x

\* The event stream explains the sessions: a session has one punch-in event, an
\* event belongs to a session of its employee and comes after that punch-in; and a
\* session no correction touched has exactly the bounds its events record.
Punches(s, dir) ==
  {i \in DOMAIN clocks : clocks[i].session = s /\ clocks[i].dir = dir /\ ~clocks[i].isBreak}
EventsExplainSessions ==
  /\ \A i \in DOMAIN clocks :
       /\ clocks[i].session \in Live
       /\ clocks[i].emp = sessions[clocks[i].session].emp
       /\ \E j \in Punches(clocks[i].session, "in") : j <= i
  /\ \A s \in Live : Cardinality(Punches(s, "in")) = 1
  /\ \A s \in Live \ corrected :
       /\ {clocks[i].at : i \in Punches(s, "in")} = {sessions[s].in}
       /\ Cardinality(Punches(s, "out")) = Cardinality({sessions[s].out} \ {None})
       /\ {clocks[i].at : i \in Punches(s, "out")} = {sessions[s].out} \ {None}

\* An employee's punches alternate: whatever taps, retries and second terminals
\* race, no punch-in is recorded on top of one that was never punched out, and no
\* punch-out twice.  A correction may close or reopen a session without an event.
Owned(e, table) == {s \in Live : sessions[s].emp = e} \cap table
PunchesOf(e) == {i \in DOMAIN clocks : clocks[i].emp = e /\ ~clocks[i].isBreak}
Previous(e, j) == {i \in PunchesOf(e) : i < j /\ \A k \in PunchesOf(e) : k <= i \/ j <= k}
PunchesAlternate ==
  \A e \in Employees : Owned(e, corrected) = {} =>
    \A j \in PunchesOf(e) :
      IF clocks[j].dir = "in"
      THEN \A i \in Previous(e, j) : clocks[i].dir = "out"
      ELSE \E i \in Previous(e, j) :
             clocks[i].dir = "in" /\ clocks[i].session = clocks[j].session

\* Nobody gets a punch on record that lies further in the future than the clock
\* skew, however long its request took.
NoFuturePunch == \A i \in DOMAIN clocks : clocks[i].at <= now + PunchClockSkew

\* What a punch was answered stays true: its session has the check-in and, for a
\* punch-out, the check-out of the answer, until a correction rewrites it.
AnswersHold ==
  \A r \in Requests :
    answer[r].code = "ok" /\ answer[r].session \notin corrected =>
      LET row == sessions[answer[r].session]
      IN  /\ row.in = answer[r].in
          /\ answer[r].out # None => row.out = answer[r].out

\* The daily rollup payroll counts: a day has a live row exactly when a live session
\* is dated on it.
PresenceMatchesSessions ==
  \A e \in Employees, d \in Days :
    rollup[e][d] # None <=> \E s \in Live : sessions[s].emp = e /\ sessions[s].date = d

\* First-in sticks, last-out sticks: the row of a day of split shifts has the wall
\* time of the day's earliest check-in and of its latest check-out.
RollupBounds ==
  \A e \in Employees, d \in Days :
    LET day  == {s \in Live : sessions[s].emp = e /\ sessions[s].date = d}
        outs == {sessions[s].out : s \in day} \ {None}
    IN  day # {} =>
          /\ rollup[e][d].in = WallTime(Min({sessions[s].in : s \in day}), Zone)
          /\ rollup[e][d].out = IF outs = {} THEN None ELSE WallTime(Max(outs), Zone)

\* The sessions table implements the abstract ledger: a step that changes it opens,
\* closes or reshapes one session and leaves every timeline disjoint.
IntervalOf(row) == [emp |-> row.emp, in |-> row.in, out |-> row.out]
Ledger == INSTANCE SessionLedger WITH
  ledger <- [s \in SessionIds |-> IF sessions[s] = None THEN None ELSE IntervalOf(sessions[s])]
ImplementsLedger == Ledger!Spec

\* A request answers from, writes to and records events for sessions of its own
\* employee only, however requests for other people interleave with it.
Served(r) == answer'[r] # answer[r] /\ answer'[r].session # None
OwnSessionsOnly ==
  [][\A r \in Requests : Served(r) /\ call[r].verb # "correct" =>
       /\ sessions'[answer'[r].session].emp = call[r].emp
       /\ \A s \in Live : sessions'[s] # sessions[s] => sessions[s].emp = call[r].emp
       /\ clocks' # clocks => clocks'[Len(clocks')].emp = call[r].emp]_vars

\* A request that was accepted is answered: no wait on a row lock is for ever.
EveryRequestAnswered == \A r \in Requests : Busy(r) ~> pc[r] = "done"
--------------------------------------------------------------------------------
(* What comments and docs say of the code, and the code does not do.            *)

\* "frozen on the rollup row so a later roster edit never rewrites history": the
\* schedule snapshot of a day's live row does not change.
ScheduleFrozen ==
  [][\A e \in Employees, d \in Days :
       rollup[e][d] # None /\ rollup'[e][d] # None /\ rollup[e][d].schedule # None =>
         rollup'[e][d].schedule = rollup[e][d].schedule]_vars

\* "Recompute the rollup for a business date from its live sessions (post-correction
\* truth)": once a correction commits, its day's row has the aggregates of the day.
RollupIsPostCorrectionTruth ==
  [][\A r \in Requests : Served(r) /\ call[r].verb = "correct" =>
       LET row == sessions'[call[r].session]
           day == rollup'[row.emp][row.date]
       IN  [in |-> day.in, out |-> day.out] = DayAggregate(sessions', row.emp, row.date)]_vars
================================================================================
