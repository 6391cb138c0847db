----------------------------- MODULE PresenceProofs -----------------------------
(* Proofs about the daily rollup of PunchClock.  The rollup is kept in step     *)
(* with the sessions by whoever writes a session, so it has a row on exactly    *)
(* the days sessions are dated on: as long as nothing else is in flight between *)
(* the moment a correction has read its session and its commit.  The run        *)
(* presence_race shows what happens otherwise.  Until a correction commits, the *)
(* row also has the day's first check-in and last check-out.                    *)
EXTENDS PunchRecordProofs
--------------------------------------------------------------------------------
(* The days sessions are dated on.                                              *)

Dated(table, e, d) ==
  \E s \in SessionIds : table[s] # None /\ table[s].emp = e /\ table[s].date = d

SessionTable == [SessionIds -> Optional(SessionRow)]

LEMMA PresenceByDate ==
  PresenceMatchesSessions <=>
    \A e \in Employees, d \in Days : rollup[e][d] # None <=> Dated(sessions, e, d)
  BY DEF PresenceMatchesSessions, Dated, Live

\* The aggregates of a day are empty exactly when no session is dated on it.
LEMMA AggregateNone ==
  ASSUME NEW table \in SessionTable, NEW e, NEW d
  PROVE  DayAggregate(table, e, d).in = None <=> ~Dated(table, e, d)
<1> DEFINE day == {s \in SessionIds : table[s] # None /\ table[s].emp = e /\ table[s].date = d}
           ins == {WallTime(table[s].in, Zone) : s \in day}
<1>1. \A s \in day : table[s].in \in Int BY DEF SessionTable, Optional, SessionRow
<1>2. ins \in SUBSET (0..(DayLength - 1))
  BY <1>1, ZoneType, BusinessDayType DEF Zone
<1>3. ins # {} => Min(ins) \in Int BY <1>2, WallTimes, MinInSet
<1>4. ins = {} <=> ~Dated(table, e, d) BY DEF Dated
<1> HIDE DEF ins
<1>5. DayAggregate(table, e, d).in = IF ins = {} THEN None ELSE Min(ins)
  BY DEF DayAggregate, ins
<1>6. QED BY <1>3, <1>4, <1>5, NoneAssumption

\* Rewriting one session moves at most its own date.
LEMMA DatedWrite ==
  ASSUME NEW table \in SessionTable, NEW s \in SessionIds, NEW row \in SessionRow, NEW e, NEW d
  PROVE  Dated([table EXCEPT ![s] = row], e, d) <=>
           \/ row.emp = e /\ row.date = d
           \/ \E x \in SessionIds \ {s} :
                table[x] # None /\ table[x].emp = e /\ table[x].date = d
  BY RowAssumption DEF Dated, SessionTable

\* A merge always leaves a row; a refresh does unless the day has no session.
LEMMA UpsertNotNone ==
  ASSUME NEW row \in Optional(RollupRow), NEW in \in Optional(Int), NEW out \in Optional(Int),
         NEW schedule \in Optional(Shifts)
  PROVE  UpsertRollup(row, in, out, schedule) # None
  BY UpsertType, RecordAssumption

LEMMA RefreshNotNone ==
  ASSUME NEW row \in Optional(RollupRow), NEW agg \in Aggregate
  PROVE  RefreshRollup(row, agg) # None <=> agg.in # None
<1>1. agg.in \in Optional(Int) /\ agg.out \in Optional(Int) /\ None \in Optional(Shifts)
  BY DEF Aggregate, Optional
<1>2. QED BY <1>1, UpsertNotNone DEF RefreshRollup
--------------------------------------------------------------------------------
(* The rollup rows each write writes.                                           *)

\* An open merges the check-in into the row of the session's day, and touches no other.
LEMMA OpenRollup ==
  ASSUME Inv, NEW r \in Requests, OpenSession(r)
  PROVE  \E schedule \in Optional(Shifts) : \A e \in Employees, d \in Days :
           IF e = NewRow(r).emp /\ d = NewRow(r).date
           THEN /\ rollup'[e][d] # None
                /\ rollup'[e][d] =
                     UpsertRollup(rollup[e][d], WallTime(NewRow(r).in, Zone), None, schedule)
           ELSE rollup'[e][d] = rollup[e][d]
<1>1. /\ call[r] \in Calls /\ call[r].verb \in {"punch", "kiosk"}
      /\ NewRow(r) \in SessionRow
  BY OpenSessionWrites
<1>2. PICK row \in SessionRow : row = NewRow(r) BY <1>1
<1>3. row.in \in Int /\ row.emp \in Employees /\ row.emp = call[r].emp
  BY <1>2 DEF SessionRow, NewRow
<1>4. PICK schedule \in ScheduleSnapshots(row.emp, row.date) :
        rollup' = [rollup EXCEPT ![row.emp][row.date] =
                     UpsertRollup(@, WallTime(row.in, Zone), None, schedule)]
  BY <1>2, <1>3 DEF OpenSession
<1>5. PICK wall \in Optional(Int) : wall = WallTime(row.in, Zone)
  BY <1>3, ZoneType, BusinessDayType DEF Zone, Optional
<1>6. row.date \in Days BY <1>1, <1>2, NewRowDay DEF Inv
<1>7. schedule \in Optional(Shifts)
  <2>1. roster[row.emp][row.date] \subseteq Shifts BY <1>3, <1>6 DEF Inv, TypeOK
  <2>2. QED BY <1>4, <2>1 DEF ScheduleSnapshots, Optional
<1>8. rollup \in [Employees -> [Days -> Optional(RollupRow)]] BY DEF Inv, TypeOK
<1>9. None \in Optional(Int) BY DEF Optional
<1>10. UpsertRollup(rollup[row.emp][row.date], wall, None, schedule) # None
  BY <1>3, <1>6, <1>7, <1>8, <1>9, UpsertNotNone
<1>11. \A e \in Employees, d \in Days :
         IF e = row.emp /\ d = row.date
         THEN rollup'[e][d] = UpsertRollup(rollup[e][d], wall, None, schedule)
         ELSE rollup'[e][d] = rollup[e][d]
  BY <1>3, <1>4, <1>5, <1>6, <1>8
<1>12. QED BY <1>2, <1>5, <1>7, <1>10, <1>11

\* A close merges the check-out into the row of the session's day.
LEMMA CloseRollup ==
  ASSUME Inv, NEW r \in Requests, CloseSession(r), NEW s, s = found[r].id
  PROVE  \A e \in Employees, d \in Days :
           IF e = sessions[s].emp /\ d = sessions[s].date
           THEN /\ rollup'[e][d] # None
                /\ rollup'[e][d] =
                     UpsertRollup(rollup[e][d], None, WallTime(call[r].at, Zone), None)
           ELSE rollup'[e][d] = rollup[e][d]
<1>1. /\ s \in SessionIds /\ sessions[s] \in SessionRow
      /\ call[r] \in Calls /\ call[r].verb \in {"punch", "kiosk"}
  BY CloseSessionWrites
<1>2. PICK e0 \in Employees, d0 \in Int : e0 = sessions[s].emp /\ d0 = sessions[s].date
  BY <1>1 DEF SessionRow
<1>3. PICK wall \in Optional(Int) : wall = WallTime(call[r].at, Zone)
  BY <1>1, CallType, ZoneType, BusinessDayType DEF Zone, Optional
<1>4. rollup' = [rollup EXCEPT ![e0][d0] = UpsertRollup(@, None, wall, None)]
  <2>1. rollup' = [rollup EXCEPT ![[sessions[s] EXCEPT !.out = call[r].at].emp]
                                  [[sessions[s] EXCEPT !.out = call[r].at].date] =
                     UpsertRollup(@, None, wall, None)]
    BY <1>3 DEF CloseSession
  <2>2. /\ [sessions[s] EXCEPT !.out = call[r].at].emp = e0
        /\ [sessions[s] EXCEPT !.out = call[r].at].date = d0
    BY <1>1, <1>2 DEF SessionRow
  <2>3. QED BY <2>1, <2>2
<1>5. rollup \in [Employees -> [Days -> Optional(RollupRow)]] BY DEF Inv, TypeOK
<1>6. None \in Optional(Int) /\ None \in Optional(Shifts) BY DEF Optional
<1>7. d0 \in Days => UpsertRollup(rollup[e0][d0], None, wall, None) # None
  BY <1>2, <1>3, <1>5, <1>6, UpsertNotNone
<1>8. \A e \in Employees, d \in Days :
        IF e = e0 /\ d = d0
        THEN rollup'[e][d] = UpsertRollup(rollup[e][d], None, wall, None)
        ELSE rollup'[e][d] = rollup[e][d]
  BY <1>2, <1>4, <1>5
<1>9. QED BY <1>2, <1>3, <1>7, <1>8

\* A commit refreshes the day the session was on and the day it is on now.
LEMMA CommitRollup ==
  ASSUME Inv, NEW r \in Requests, CommitCorrection(r)
  PROVE  \A e \in Employees, d \in Days :
           rollup'[e][d] # None <=>
             IF e # pending[r].row.emp THEN rollup[e][d] # None
             ELSE IF d = pending[r].row.date THEN pending[r].new.in # None
             ELSE IF d = found[r].row.date THEN pending[r].old.in # None
             ELSE rollup[e][d] # None
<1>1. PICK p \in Rewrite : p = pending[r] BY CommitCorrectionWrites
<1> DEFINE day == found[r].row.date
<1>2. /\ p.row.emp \in Employees /\ p.old \in Aggregate /\ p.new \in Aggregate
  BY DEF Rewrite, SessionRow
<1>3. PICK old : old = IF day = p.row.date THEN rollup[p.row.emp]
                       ELSE [rollup[p.row.emp] EXCEPT ![day] = RefreshRollup(@, p.old)]
  OBVIOUS
<1>4. rollup' = [rollup EXCEPT ![p.row.emp] =
                   [old EXCEPT ![p.row.date] = RefreshRollup(@, p.new)]]
  BY <1>1, <1>3 DEF CommitCorrection
<1>5. rollup \in [Employees -> [Days -> Optional(RollupRow)]] BY DEF Inv, TypeOK
<1>6. /\ old \in [Days -> Optional(RollupRow)]
      /\ \A d \in Days : old[d] # None <=>
           IF d = day /\ day # p.row.date THEN p.old.in # None
           ELSE rollup[p.row.emp][d] # None
  <2>1. rollup[p.row.emp] \in [Days -> Optional(RollupRow)] BY <1>2, <1>5
  <2>2. \A d \in Days :
          /\ RefreshRollup(rollup[p.row.emp][d], p.old) \in Optional(RollupRow)
          /\ RefreshRollup(rollup[p.row.emp][d], p.old) # None <=> p.old.in # None
    BY <1>2, <2>1, RefreshType, RefreshNotNone
  <2>3. QED BY <1>3, <2>1, <2>2
<1>7. \A d \in Days : RefreshRollup(old[d], p.new) # None <=> p.new.in # None
  BY <1>2, <1>6, RefreshNotNone
<1>8. QED BY <1>1, <1>2, <1>4, <1>5, <1>6, <1>7
--------------------------------------------------------------------------------
(* Presence.                                                                    *)

\* From the moment a correction has read its session to its commit, no other
\* request is in flight.
CorrectionsUndisturbed ==
  \A r \in Requests : pc[r] \in {"update", "commit"} =>
    \A q \in Requests \ {r} : ~Busy(q)

\* What a correction has read and aggregated is true when it commits.
FreshDay(r) == found[r].row.date = sessions[call[r].session].date
FreshAggregates(r) ==
  /\ pending[r].new.in # None
  /\ pending[r].old.in = None <=>
       ~Dated([sessions EXCEPT ![call[r].session] = pending[r].row],
              pending[r].row.emp, found[r].row.date)
CorrectionsFresh ==
  \A r \in Requests :
    /\ pc[r] \in {"update", "commit"} => FreshDay(r)
    /\ pc[r] = "commit" => FreshAggregates(r)

\* A request's steps are its own: they move no other request.
LEMMA OwnSteps ==
  ASSUME TypeOK, NEW q \in Requests, Receive(q) \/ Handle(q) \/ Abandon(q)
  PROVE  /\ \A r \in Requests \ {q} : pc'[r] = pc[r]
         /\ pc[q] # "done" /\ pc'[q] # "idle"
         /\ Receive(q) \/ Busy(q)
         /\ Receive(q) => Busy(q)'
         /\ pc'[q] \in {"update", "commit"} => ReadSession(q) \/ UpdateSession(q)
<1>1. ASSUME NEW ans, Reply(q, ans)
      PROVE  pc'[q] = "done" /\ \A r \in Requests \ {q} : pc'[r] = pc[r]
  BY <1>1 DEF Reply, TypeOK
<1>2. CASE Receive(q)
  BY <1>2 DEF Receive, TypeOK, Busy
<1>3. CASE ReadOpenSession(q) \/ ReadLastEvent(q)
  BY <1>3 DEF ReadOpenSession, ReadLastEvent, Receive, TypeOK, Busy
<1>4. CASE ReadSession(q) \/ UpdateSession(q)
  BY <1>4 DEF ReadSession, UpdateSession, Receive, TypeOK, Busy
<1>5. CASE Abandon(q) \/ BreakWithoutSession(q) \/ AnswerDoubleTap(q) \/ WrongDirection(q)
           \/ OpenSessionOverlap(q) \/ CloseRefused(q) \/ UpdateSessionOverlap(q)
  <2>1. PICK ans : Reply(q, ans)
    BY <1>5 DEF Abandon, BreakWithoutSession, AnswerDoubleTap, WrongDirection,
                OpenSessionOverlap, CloseRefused, UpdateSessionOverlap, Refuse, Rollback
  <2>2. Busy(q)
    BY <1>5 DEF Abandon, BreakWithoutSession, AnswerDoubleTap, WrongDirection,
                OpenSessionOverlap, Opening, CloseRefused, Closing, UpdateSessionOverlap, Busy
  <2>3. QED BY <1>1, <2>1, <2>2 DEF Receive, Busy
<1>6. CASE OpenSession(q) \/ CloseSession(q) \/ RecordBreak(q) \/ CommitCorrection(q)
  <2>1. PICK ans : Reply(q, ans)
    BY <1>6 DEF OpenSession, CloseSession, RecordBreak, CommitCorrection
  <2>2. Busy(q)
    BY <1>6 DEF OpenSession, Opening, CloseSession, Closing, RecordBreak, CommitCorrection, Busy
  <2>3. QED BY <1>1, <2>1, <2>2 DEF Receive, Busy
<1>7. QED BY <1>2, <1>3, <1>4, <1>5, <1>6 DEF Handle

\* A correction that has read its session was brought there by the step, or stands
\* still and nobody writes.
LEMMA CorrectionSteps ==
  ASSUME Inv, CorrectionsUndisturbed, CorrectionsUndisturbed', [Next]_vars,
         NEW r \in Requests, pc'[r] \in {"update", "commit"}
  PROVE  \/ ReadSession(r) \/ UpdateSession(r)
         \/ pc'[r] = pc[r] /\ UNCHANGED <<sessions, locals>>
<1>1. TypeOK BY DEF Inv
<1>2. ASSUME NEW q \in Requests, q # r, Receive(q) \/ Handle(q) \/ Abandon(q) PROVE FALSE
  <2>1. pc[r] = pc'[r] BY <1>1, <1>2, OwnSteps
  <2>2. ~Busy(q) /\ ~Busy(q)' BY <1>2, <2>1 DEF CorrectionsUndisturbed
  <2>3. QED BY <1>1, <1>2, <2>2, OwnSteps
<1>3. ASSUME Receive(r) \/ Handle(r) \/ Abandon(r) PROVE ReadSession(r) \/ UpdateSession(r)
  BY <1>1, <1>3, OwnSteps
<1>4. CASE Tick \/ SetTimezone \/ EditRoster \/ UNCHANGED vars
  BY <1>4 DEF Tick, SetTimezone, EditRoster, vars, tables, locals
<1>5. QED BY <1>2, <1>3, <1>4 DEF Next, Quiesce

LEMMA CorrectionsFreshStep ==
  ASSUME Inv, CorrectionsFresh, CorrectionsUndisturbed, CorrectionsUndisturbed', [Next]_vars
  PROVE  CorrectionsFresh'
<1> SUFFICES ASSUME NEW r \in Requests, pc'[r] \in {"update", "commit"}
             PROVE  FreshDay(r)' /\ (pc'[r] = "commit" => FreshAggregates(r)')
  BY DEF CorrectionsFresh
<1>1. CASE ReadSession(r)
  <2>1. found'[r].row = sessions[call[r].session] /\ pc'[r] = "update"
    BY <1>1 DEF ReadSession, Inv, TypeOK
  <2>2. QED BY <1>1, <2>1 DEF ReadSession, FreshDay, tables
<1>2. CASE UpdateSession(r)
  <2>1. PICK s \in SessionIds, row \in SessionRow :
          s = call[r].session /\ row = CorrectedRow(r)
    <3>1. call[r] \in Calls /\ call[r].verb = "correct" /\ call[r].session \in Live
      BY <1>2 DEF UpdateSession, Inv, HandlerState, HandlerStateOf, Busy
    <3>2. QED BY <3>1, CorrectedRowType DEF Inv, Live
  <2>2. PICK table \in SessionTable : table = [sessions EXCEPT ![s] = row]
    BY <2>1 DEF SessionTable, Inv, TypeOK, Optional
  <2>3. pending'[r] = [row |-> row, old |-> DayAggregate(table, row.emp, found[r].row.date),
                       new |-> DayAggregate(table, row.emp, row.date)]
    BY <1>2, <2>1, <2>2 DEF UpdateSession, Inv, TypeOK
  <2>4. UNCHANGED <<sessions, call, found>> BY <1>2 DEF UpdateSession, tables
  <2>5. sessions \in SessionTable BY DEF Inv, TypeOK, SessionTable
  <2>6. Dated(table, row.emp, row.date) BY <2>2, <2>5, DatedWrite
  <2>7. DayAggregate(table, row.emp, row.date).in # None BY <2>6, AggregateNone
  <2>8. DayAggregate(table, row.emp, found[r].row.date).in = None <=>
          ~Dated(table, row.emp, found[r].row.date)
    BY AggregateNone
  <2>9. FreshAggregates(r)'
    BY <2>1, <2>2, <2>3, <2>4, <2>7, <2>8 DEF FreshAggregates, Dated
  <2>10. FreshDay(r) BY <1>2 DEF UpdateSession, CorrectionsFresh
  <2>11. QED BY <2>4, <2>9, <2>10 DEF FreshDay
<1>3. CASE pc'[r] = pc[r] /\ UNCHANGED <<sessions, locals>>
  BY <1>3 DEF CorrectionsFresh, FreshDay, FreshAggregates, Dated, locals
<1>4. QED BY <1>1, <1>2, <1>3, CorrectionSteps

\* Who writes a session keeps the rollup of its days in step, and a correction does
\* if what it has read is still true.
LEMMA PresenceStep ==
  ASSUME Inv, CorrectionsFresh \/ corrected' = {}, PresenceMatchesSessions, [Next]_vars
  PROVE  PresenceMatchesSessions'
<1>1. sessions \in SessionTable BY DEF Inv, TypeOK, SessionTable
<1> SUFFICES ASSUME NEW e \in Employees, NEW d \in Days
             PROVE  rollup'[e][d] # None <=> Dated(sessions', e, d)
  BY DEF PresenceMatchesSessions, Dated, Live
<1>2. rollup[e][d] # None <=> Dated(sessions, e, d) BY PresenceByDate
<1>3. ASSUME NEW r \in Requests, OpenSession(r)
      PROVE  rollup'[e][d] # None <=> Dated(sessions', e, d)
  <2>1. PICK s \in SessionIds \ Live, row \in SessionRow :
          row = NewRow(r) /\ sessions' = [sessions EXCEPT ![s] = row]
    <3>1. PICK s \in SessionIds \ Live :
            NewRow(r) \in SessionRow /\ sessions' = [sessions EXCEPT ![s] = NewRow(r)]
      BY <1>3, OpenSessionWrites
    <3>2. QED BY <3>1
  <2>2. Dated(sessions', e, d) <=> (row.emp = e /\ row.date = d) \/ Dated(sessions, e, d)
    BY <1>1, <2>1, DatedWrite DEF Dated, Live
  <2>3. QED BY <1>2, <1>3, <2>1, <2>2, OpenRollup
<1>4. ASSUME NEW r \in Requests, CloseSession(r)
      PROVE  rollup'[e][d] # None <=> Dated(sessions', e, d)
  <2>1. PICK s \in SessionIds, row \in SessionRow :
          /\ s = found[r].id /\ sessions[s] # None
          /\ row.emp = sessions[s].emp /\ row.date = sessions[s].date
          /\ sessions' = [sessions EXCEPT ![s] = row]
    <3> DEFINE s   == found[r].id
               row == [sessions[s] EXCEPT !.out = call[r].at]
    <3>1. /\ s \in SessionIds /\ s \in Live /\ sessions[s] \in SessionRow /\ row \in SessionRow
          /\ sessions' = [sessions EXCEPT ![s] = row]
      BY <1>4, CloseSessionWrites
    <3>2. row.emp = sessions[s].emp /\ row.date = sessions[s].date BY <3>1 DEF SessionRow
    <3> HIDE DEF row
    <3>3. QED BY <3>1, <3>2 DEF Live
  <2>2. Dated(sessions', e, d) <=> Dated(sessions, e, d)
    <3>1. Dated([sessions EXCEPT ![s] = row], e, d) <=>
            \/ row.emp = e /\ row.date = d
            \/ \E x \in SessionIds \ {s} :
                 sessions[x] # None /\ sessions[x].emp = e /\ sessions[x].date = d
      BY <1>1, DatedWrite
    <3>2. sessions' = [sessions EXCEPT ![s] = row] BY <2>1
    <3>3. QED BY <2>1, <3>1, <3>2 DEF Dated
  <2>3. (e = row.emp /\ d = row.date) => Dated(sessions, e, d) BY <2>1 DEF Dated
  <2>4. QED BY <1>2, <1>4, <2>1, <2>2, <2>3, CloseRollup
<1>5. ASSUME NEW r \in Requests, CommitCorrection(r)
      PROVE  rollup'[e][d] # None <=> Dated(sessions', e, d)
  <2>1. PICK s \in SessionIds, p \in Rewrite, row \in SessionRow, day \in Int :
          /\ s = call[r].session /\ sessions[s] # None /\ p = pending[r] /\ row = p.row
          /\ day = found[r].row.date /\ row.emp = sessions[s].emp
          /\ sessions' = [sessions EXCEPT ![s] = row] /\ pc[r] = "commit"
    <3>1. /\ call[r].session \in SessionIds /\ sessions[call[r].session] # None
          /\ pending[r] \in Rewrite /\ pending[r].row \in SessionRow /\ pc[r] = "commit"
          /\ pending[r].row.emp = sessions[call[r].session].emp
          /\ sessions' = [sessions EXCEPT ![call[r].session] = pending[r].row]
      BY <1>5, CommitCorrectionWrites DEF Live
    <3>2. found[r].row.date \in Int
      BY <3>1 DEF Inv, HandlerState, HandlerStateOf, Reading, SessionRow
    <3>3. QED BY <3>1, <3>2
  <2>2. day = sessions[s].date /\ p.new.in # None
        /\ (p.old.in = None <=> ~Dated(sessions', row.emp, day))
    <3>1. corrected' # {} BY <1>5, CommitCorrectionWrites
    <3>2. QED BY <2>1, <3>1 DEF CorrectionsFresh, FreshDay, FreshAggregates
  <2>3. Dated(sessions', e, d) <=>
          \/ row.emp = e /\ row.date = d
          \/ \E x \in SessionIds \ {s} :
               sessions[x] # None /\ sessions[x].emp = e /\ sessions[x].date = d
    <3>1. sessions' = [sessions EXCEPT ![s] = row] BY <2>1
    <3>2. Dated([sessions EXCEPT ![s] = row], e, d) <=>
            \/ row.emp = e /\ row.date = d
            \/ \E x \in SessionIds \ {s} :
                 sessions[x] # None /\ sessions[x].emp = e /\ sessions[x].date = d
      BY <1>1, DatedWrite
    <3>3. QED BY <3>1, <3>2
  <2>4. e # row.emp \/ (d # day /\ d # row.date) =>
          (Dated(sessions', e, d) <=> Dated(sessions, e, d))
    BY <2>1, <2>2, <2>3 DEF Dated
  <2>5. rollup'[e][d] # None <=>
          IF e # row.emp THEN rollup[e][d] # None
          ELSE IF d = row.date THEN p.new.in # None
          ELSE IF d = day THEN p.old.in # None
          ELSE rollup[e][d] # None
    BY <1>5, <2>1, CommitRollup
  <2>6. QED BY <1>2, <2>2, <2>3, <2>4, <2>5
<1>6. CASE UNCHANGED <<sessions, rollup>> BY <1>2, <1>6
<1>7. QED
  BY <1>3, <1>4, <1>5, <1>6, RecordBreakWrites, QuietStep DEF Writes, tables

\* The inductive invariant: presence alone is not inductive, because a correction
\* commits aggregates it has read an action earlier, for a day an action before that.
PresenceInv == Inv /\ CorrectionsFresh /\ PresenceMatchesSessions

LEMMA InitPresenceInv == Init => PresenceInv
<1> SUFFICES ASSUME Init PROVE PresenceInv OBVIOUS
<1>1. CorrectionsFresh BY DEF Init, CorrectionsFresh
<1>2. PresenceMatchesSessions BY DEF Init, PresenceMatchesSessions, Live
<1>3. QED BY <1>1, <1>2, InitInv DEF PresenceInv

LEMMA PresenceInvStep ==
  PresenceInv /\ CorrectionsUndisturbed /\ CorrectionsUndisturbed' /\ [Next]_vars =>
    PresenceInv'
  BY InvStep, CorrectionsFreshStep, PresenceStep DEF PresenceInv

\* The rollup has a row on exactly the days the employee's sessions are dated on, for
\* any number of punches, kiosks and breaks that interleave, and for corrections that
\* run while nothing else does.
THEOREM PresenceUndisturbed ==
  Spec /\ []CorrectionsUndisturbed => []PresenceMatchesSessions
<1>1. PresenceInv => PresenceMatchesSessions BY DEF PresenceInv
<1>2. QED BY <1>1, InitPresenceInv, PresenceInvStep, PTL DEF Spec

\* With one request in flight at a time, nothing disturbs a correction.
OneAtATime == \A r, q \in Requests : Busy(r) /\ Busy(q) => r = q

LEMMA OneAtATimeStep ==
  ASSUME MaxInFlight = 1, TypeOK, OneAtATime, [Next]_vars
  PROVE  OneAtATime'
<1>1. ASSUME NEW q \in Requests, Receive(q) PROVE OneAtATime'
  <2>1. ASSUME NEW r \in Requests, Busy(r) PROVE FALSE
    <3>1. InFlight = {r} BY <2>1 DEF InFlight, OneAtATime
    <3>2. Cardinality(InFlight) = 1 BY <3>1, FS_Singleton
    <3>3. QED BY <1>1, <3>2 DEF Receive
  <2>2. \A r \in Requests \ {q} : ~Busy(r)' BY <1>1, <2>1, OwnSteps DEF Busy
  <2>3. QED BY <2>2 DEF OneAtATime
<1>2. ASSUME NEW q \in Requests, Handle(q) \/ Abandon(q), ~Receive(q) PROVE OneAtATime'
  <2>1. Busy(q) BY <1>2, OwnSteps
  <2>2. \A r \in Requests \ {q} : ~Busy(r)' BY <1>2, <2>1, OwnSteps DEF Busy, OneAtATime
  <2>3. QED BY <2>2 DEF OneAtATime
<1>3. CASE Tick \/ SetTimezone \/ EditRoster \/ UNCHANGED vars
  BY <1>3 DEF Tick, SetTimezone, EditRoster, vars, locals, OneAtATime, Busy
<1>4. QED BY <1>1, <1>2, <1>3 DEF Next, Quiesce

\* Where no correction is applied, and where requests come one at a time, the rollup
\* is in step with the sessions without any hypothesis on the interleaving.
THEOREM PresenceWithoutRaces ==
  ASSUME "correct" \notin Verbs \/ MaxInFlight = 1
  PROVE  Spec => []PresenceMatchesSessions
<1>1. CASE "correct" \notin Verbs
  <2>1. Inv => CorrectionsUndisturbed
    <3>1. \A c \in Calls : c.verb # "correct" BY <1>1 DEF Calls
    <3>2. QED BY <3>1 DEF Inv, HandlerState, HandlerStateOf, CorrectionsUndisturbed, Busy
  <2>2. QED BY <2>1, Invariance, PresenceUndisturbed, PTL
<1>2. CASE MaxInFlight = 1
  <2>1. Init => OneAtATime BY DEF Init, OneAtATime, Busy
  <2>2. TypeOK /\ OneAtATime /\ [Next]_vars => OneAtATime' BY <1>2, OneAtATimeStep
  <2>3. OneAtATime => CorrectionsUndisturbed
    BY DEF OneAtATime, CorrectionsUndisturbed, Busy
  <2>4. QED BY <2>1, <2>2, <2>3, TypeCorrect, PresenceUndisturbed, PTL DEF Spec
<1>3. QED BY <1>1, <1>2
--------------------------------------------------------------------------------
(* First-in sticks, last-out sticks, until a correction is applied.             *)

\* RollupBounds with the sessions that hold the bounds named.
DayOf(e, d) == {s \in Live : sessions[s].emp = e /\ sessions[s].date = d}
FirstIn(e, d) ==
  \E f \in DayOf(e, d) :
    /\ \A x \in DayOf(e, d) : sessions[f].in <= sessions[x].in
    /\ rollup[e][d].in = WallTime(sessions[f].in, Zone)
LastOut(e, d) ==
  \/ /\ \A x \in DayOf(e, d) : sessions[x].out = None
     /\ rollup[e][d].out = None
  \/ \E l \in DayOf(e, d) :
       /\ sessions[l].out # None
       /\ \A x \in DayOf(e, d) :
            sessions[x].out # None => sessions[x].out <= sessions[l].out
       /\ rollup[e][d].out = WallTime(sessions[l].out, Zone)
DayBounds ==
  \A e \in Employees, d \in Days : DayOf(e, d) # {} => FirstIn(e, d) /\ LastOut(e, d)

\* No session is empty: a punch-out is after the check-in of its session.
NoneEmpty == \A s \in Live : sessions[s].out # None => sessions[s].in < sessions[s].out

LEMMA MinIs ==
  ASSUME NEW S \in SUBSET Int, NEW m \in S, \A y \in S : m <= y
  PROVE  Min(S) = m
<1>1. \A x \in S : (\A y \in S : x <= y) => x = m OBVIOUS
<1>2. QED BY <1>1 DEF Min

LEMMA MaxIs ==
  ASSUME NEW S \in SUBSET Int, NEW m \in S, \A y \in S : m >= y
  PROVE  Max(S) = m
<1>1. \A x \in S : (\A y \in S : x >= y) => x = m OBVIOUS
<1>2. QED BY <1>1 DEF Max

LEMMA LiveTyped ==
  ASSUME TypeOK
  PROVE  \A s \in Live : /\ s \in SessionIds /\ sessions[s] \in SessionRow
                         /\ sessions[s].in \in Int /\ sessions[s].out \in Optional(Int)
  BY DEF TypeOK, Live, Optional, SessionRow

LEMMA DayBoundsSuffice ==
  ASSUME TypeOK, DayBounds
  PROVE  RollupBounds
<1> SUFFICES ASSUME NEW e \in Employees, NEW d \in Days, DayOf(e, d) # {}
             PROVE  LET outs == {sessions[s].out : s \in DayOf(e, d)} \ {None}
                    IN  /\ rollup[e][d].in =
                             WallTime(Min({sessions[s].in : s \in DayOf(e, d)}), Zone)
                        /\ rollup[e][d].out = IF outs = {} THEN None
                                              ELSE WallTime(Max(outs), Zone)
  BY DEF RollupBounds, DayOf
<1> DEFINE ins  == {sessions[s].in : s \in DayOf(e, d)}
           outs == {sessions[s].out : s \in DayOf(e, d)} \ {None}
<1>1. ins \subseteq Int /\ outs \subseteq Int BY LiveTyped DEF DayOf, Optional
<1>2. rollup[e][d].in = WallTime(Min(ins), Zone)
  <2>1. PICK f \in DayOf(e, d) :
          /\ \A x \in DayOf(e, d) : sessions[f].in <= sessions[x].in
          /\ rollup[e][d].in = WallTime(sessions[f].in, Zone)
    BY DEF DayBounds, FirstIn
  <2>2. sessions[f].in \in ins /\ \A y \in ins : sessions[f].in <= y BY <2>1
  <2> HIDE DEF ins
  <2>3. Min(ins) = sessions[f].in BY <1>1, <2>2, MinIs
  <2>4. QED BY <2>1, <2>3
<1>3. rollup[e][d].out = IF outs = {} THEN None ELSE WallTime(Max(outs), Zone)
  <2>1. LastOut(e, d) BY DEF DayBounds
  <2>2. CASE /\ \A x \in DayOf(e, d) : sessions[x].out = None
             /\ rollup[e][d].out = None
    <3>1. outs = {} BY <2>2
    <3>2. QED BY <2>2, <3>1
  <2>3. ASSUME NEW l \in DayOf(e, d), sessions[l].out # None,
               \A x \in DayOf(e, d) :
                 sessions[x].out # None => sessions[x].out <= sessions[l].out,
               rollup[e][d].out = WallTime(sessions[l].out, Zone)
        PROVE  rollup[e][d].out = IF outs = {} THEN None ELSE WallTime(Max(outs), Zone)
    <3>1. sessions[l].out \in outs BY <2>3
    <3>2. \A y \in outs : y <= sessions[l].out BY <2>3
    <3> HIDE DEF outs
    <3>3. \A y \in outs : sessions[l].out >= y BY <1>1, <3>1, <3>2
    <3>4. Max(outs) = sessions[l].out BY <1>1, <3>1, <3>3, MaxIs
    <3>5. QED BY <2>3, <3>1, <3>4
  <2>4. QED BY <2>1, <2>2, <2>3 DEF LastOut
<1>4. QED BY <1>2, <1>3

\* An interval without an end is after everything it does not overlap.
LEMMA OpenIsLast ==
  ASSUME NEW a \in SessionRow, NEW b \in SessionRow, b.out = None, ~Overlap(a, b),
         a.out # None => a.in < a.out
  PROVE  a.out # None /\ a.in < b.in /\ a.out <= b.in
<1>1. a.in \in Int /\ b.in \in Int /\ (a.out # None => a.out \in Int)
  BY DEF SessionRow, Optional
<1>2. QED BY <1>1 DEF Overlap, Empty

\* A new session starts after all the employee has, so only the first of a day sets
\* the day's check-in.
LEMMA OpenKeepsBounds ==
  ASSUME Inv, PresenceMatchesSessions, NoneEmpty, DayBounds, Zone' = Zone,
         NEW r \in Requests, OpenSession(r)
  PROVE  NoneEmpty' /\ DayBounds'
<1>1. PICK s \in SessionIds \ Live, row \in SessionRow, schedule \in Optional(Shifts) :
        /\ row.out = None /\ sessions' = [sessions EXCEPT ![s] = row] /\ ~Clashes(s, row)
        /\ row # None
        /\ \A e \in Employees, d \in Days :
             IF e = row.emp /\ d = row.date
             THEN rollup'[e][d] =
                    UpsertRollup(rollup[e][d], WallTime(row.in, Zone), None, schedule)
             ELSE rollup'[e][d] = rollup[e][d]
  <2>1. PICK s \in SessionIds \ Live :
          /\ NewRow(r) \in SessionRow /\ NewRow(r) # None
          /\ sessions' = [sessions EXCEPT ![s] = NewRow(r)] /\ ~Clashes(s, NewRow(r))
    BY OpenSessionWrites
  <2>2. NewRow(r).out = None BY DEF NewRow
  <2>3. PICK schedule \in Optional(Shifts) : \A e \in Employees, d \in Days :
          IF e = NewRow(r).emp /\ d = NewRow(r).date
          THEN rollup'[e][d] =
                 UpsertRollup(rollup[e][d], WallTime(NewRow(r).in, Zone), None, schedule)
          ELSE rollup'[e][d] = rollup[e][d]
    BY OpenRollup
  <2>4. PICK row \in SessionRow : row = NewRow(r) BY <2>1
  <2>5. QED BY <2>1, <2>2, <2>3, <2>4
<1>2. TypeOK BY DEF Inv
<1>3. /\ Live' = Live \cup {s} /\ sessions'[s] = row
      /\ \A x \in Live : x # s /\ sessions'[x] = sessions[x]
  BY <1>1, <1>2 DEF Live, TypeOK
<1>4. ASSUME NEW x \in Live, sessions[x].emp = row.emp
      PROVE  sessions[x].out # None /\ sessions[x].in < row.in
  <2>1. sessions[x] \in SessionRow /\ ~Overlap(sessions[x], row)
    BY <1>1, <1>2, <1>3, <1>4, LiveTyped DEF Clashes
  <2>2. QED BY <1>1, <2>1, OpenIsLast DEF NoneEmpty
<1>5. NoneEmpty' BY <1>1, <1>3 DEF NoneEmpty
<1>6. ASSUME NEW e \in Employees, NEW d \in Days, DayOf(e, d)' # {}
      PROVE  FirstIn(e, d)' /\ LastOut(e, d)'
  <2>1. CASE ~(e = row.emp /\ d = row.date)
    <3>1. DayOf(e, d)' = DayOf(e, d) BY <1>3, <2>1 DEF DayOf
    <3>2. rollup'[e][d] = rollup[e][d] BY <1>1, <2>1
    <3>3. \A x \in DayOf(e, d) : sessions'[x] = sessions[x] BY <1>3 DEF DayOf
    <3>4. FirstIn(e, d) /\ LastOut(e, d) BY <1>6, <3>1 DEF DayBounds
    <3>5. FirstIn(e, d)' BY <3>1, <3>2, <3>3, <3>4 DEF FirstIn
    <3>6. LastOut(e, d)' BY <3>1, <3>2, <3>3, <3>4 DEF LastOut
    <3>7. QED BY <3>5, <3>6
  <2>2. CASE e = row.emp /\ d = row.date
    <3>1. DayOf(e, d)' = DayOf(e, d) \cup {s} BY <1>3, <2>2 DEF DayOf
    <3>2. rollup'[e][d] = UpsertRollup(rollup[e][d], WallTime(row.in, Zone), None, schedule)
      BY <1>1, <2>2
    <3>3. rollup[e][d] = None <=> DayOf(e, d) = {}
      BY DEF PresenceMatchesSessions, DayOf
    <3>4. \A x \in DayOf(e, d) : /\ sessions'[x] = sessions[x] /\ sessions[x].in \in Int
                                 /\ sessions[x].out # None /\ sessions[x].in < row.in
      BY <1>2, <1>3, <1>4, <2>2, LiveTyped DEF DayOf
    <3>5. row.in \in Int BY DEF SessionRow
    <3>6. CASE DayOf(e, d) = {}
      <4>1. rollup'[e][d].in = WallTime(row.in, Zone) /\ rollup'[e][d].out = None
        BY <3>2, <3>3, <3>6 DEF UpsertRollup
      <4>2. FirstIn(e, d)' BY <1>3, <3>1, <3>5, <3>6, <4>1 DEF FirstIn
      <4>3. LastOut(e, d)' BY <1>1, <1>3, <3>1, <3>6, <4>1 DEF LastOut
      <4>4. QED BY <4>2, <4>3
    <3>7. CASE DayOf(e, d) # {}
      <4>1. PICK f \in DayOf(e, d) :
              /\ \A x \in DayOf(e, d) : sessions[f].in <= sessions[x].in
              /\ rollup[e][d].in = WallTime(sessions[f].in, Zone)
        BY <3>7 DEF DayBounds, FirstIn
      <4>2. rollup[e][d].in # None
        BY <3>4, <4>1, ZoneType, BusinessDayType, NoneAssumption DEF Zone
      <4>3. rollup'[e][d].in = rollup[e][d].in /\ rollup'[e][d].out = rollup[e][d].out
        BY <3>2, <3>3, <3>7, <4>2 DEF UpsertRollup, Coalesce
      <4>4. FirstIn(e, d)'
        <5>1. \A x \in DayOf(e, d)' : sessions'[f].in <= sessions'[x].in
          BY <1>3, <3>1, <3>4, <3>5, <4>1
        <5>2. f \in DayOf(e, d)' /\ sessions'[f] = sessions[f] BY <3>1, <3>4
        <5>3. QED BY <4>1, <4>3, <5>1, <5>2 DEF FirstIn
      <4>5. LastOut(e, d)'
        <5>1. PICK l \in DayOf(e, d) :
                /\ sessions[l].out # None
                /\ \A x \in DayOf(e, d) :
                     sessions[x].out # None => sessions[x].out <= sessions[l].out
                /\ rollup[e][d].out = WallTime(sessions[l].out, Zone)
          BY <3>4, <3>7 DEF DayBounds, LastOut
        <5>2. l \in DayOf(e, d)' /\ sessions'[l] = sessions[l] BY <3>1, <3>4
        <5>3. \A x \in DayOf(e, d)' :
                sessions'[x].out # None => sessions'[x].out <= sessions'[l].out
          BY <1>1, <1>3, <3>1, <3>4, <5>1
        <5>4. QED BY <4>3, <5>1, <5>2, <5>3 DEF LastOut
      <4>6. QED BY <4>4, <4>5
    <3>8. QED BY <3>6, <3>7
  <2>3. QED BY <2>1, <2>2
<1>7. QED BY <1>5, <1>6 DEF DayBounds

\* A punch-out is after all the employee has, so it is the day's check-out.
LEMMA CloseKeepsBounds ==
  ASSUME Inv, FreshReads, corrected = {}, PresenceMatchesSessions, NoneEmpty, DayBounds,
         Zone' = Zone, NEW r \in Requests, CloseSession(r)
  PROVE  NoneEmpty' /\ DayBounds'
<1>1. PICK s \in Live, row \in SessionRow, at \in Int :
        /\ row.emp = sessions[s].emp /\ row.date = sessions[s].date
        /\ row.in = sessions[s].in /\ row.out = at /\ row.in < at
        /\ row # None /\ sessions[s].out = None
        /\ sessions' = [sessions EXCEPT ![s] = row]
        /\ \A e \in Employees, d \in Days :
             IF e = row.emp /\ d = row.date
             THEN rollup'[e][d] = UpsertRollup(rollup[e][d], None, WallTime(at, Zone), None)
             ELSE rollup'[e][d] = rollup[e][d]
  <2> DEFINE s   == found[r].id
             row == [sessions[s] EXCEPT !.out = call[r].at]
  <2>1. /\ s \in Live /\ sessions[s] \in SessionRow /\ row \in SessionRow /\ row # None
        /\ sessions[s].out = None /\ found[r].row.in < call[r].at /\ found[r] # None
        /\ call[r] \in Calls /\ call[r].verb \in {"punch", "kiosk"} /\ pc[r] = "write"
        /\ sessions' = [sessions EXCEPT ![s] = row]
    BY CloseSessionWrites
  <2>2. /\ row.emp = sessions[s].emp /\ row.date = sessions[s].date
        /\ row.in = sessions[s].in /\ row.out = call[r].at
    BY <2>1 DEF SessionRow
  <2>3. found[r].row.in = sessions[s].in BY <2>1 DEF FreshReads
  <2>4. call[r].at \in Int BY <2>1, CallType
  <2>5. \A e \in Employees, d \in Days :
          IF e = sessions[s].emp /\ d = sessions[s].date
          THEN rollup'[e][d] =
                 UpsertRollup(rollup[e][d], None, WallTime(call[r].at, Zone), None)
          ELSE rollup'[e][d] = rollup[e][d]
    BY CloseRollup
  <2> HIDE DEF row, s
  <2>6. row.in < call[r].at BY <2>1, <2>2, <2>3
  <2>7. PICK at \in Int : at = call[r].at BY <2>4
  <2>8. \A e \in Employees, d \in Days :
          IF e = row.emp /\ d = row.date
          THEN rollup'[e][d] = UpsertRollup(rollup[e][d], None, WallTime(at, Zone), None)
          ELSE rollup'[e][d] = rollup[e][d]
    BY <2>2, <2>5, <2>7
  <2>9. s \in Live /\ row \in SessionRow BY <2>1
  <2>10. QED BY <2>1, <2>2, <2>6, <2>7, <2>8, <2>9
<1>2. TypeOK BY DEF Inv
<1>3. /\ Live' = Live /\ sessions'[s] = row
      /\ \A x \in Live \ {s} : sessions'[x] = sessions[x]
  BY <1>1, <1>2 DEF Live, TypeOK
<1>4. ASSUME NEW x \in Live \ {s}, sessions[x].emp = row.emp
      PROVE  sessions[x].out # None /\ sessions[x].out <= at
  <2>1. /\ sessions[x] \in SessionRow /\ sessions[s] \in SessionRow
        /\ ~Overlap(sessions[x], sessions[s])
    BY <1>1, <1>2, <1>4, LiveTyped DEF Inv, NoOverlap
  <2>2. sessions[x].out # None /\ sessions[x].out <= sessions[s].in
    BY <1>1, <2>1, OpenIsLast DEF NoneEmpty
  <2>3. sessions[x].out \in Int /\ sessions[s].in \in Int
    BY <1>2, <2>2, LiveTyped DEF Optional
  <2>4. QED BY <1>1, <2>2, <2>3
<1>5. NoneEmpty' BY <1>1, <1>3 DEF NoneEmpty
<1>6. \A x \in Live : sessions'[x].in = sessions[x].in BY <1>1, <1>3
<1>7. \A e, d : DayOf(e, d)' = DayOf(e, d) BY <1>1, <1>3 DEF DayOf
<1>8. ASSUME NEW e \in Employees, NEW d \in Days, DayOf(e, d) # {}
      PROVE  FirstIn(e, d)' /\ LastOut(e, d)'
  <2>1. FirstIn(e, d) /\ LastOut(e, d) BY <1>8 DEF DayBounds
  <2>2. CASE ~(e = row.emp /\ d = row.date)
    <3>1. rollup'[e][d] = rollup[e][d] BY <1>1, <2>2
    <3>2. \A x \in DayOf(e, d) : sessions'[x] = sessions[x]
      BY <1>1, <1>3, <2>2 DEF DayOf
    <3>3. FirstIn(e, d)' BY <1>7, <2>1, <3>1, <3>2 DEF FirstIn
    <3>4. LastOut(e, d)' BY <1>7, <2>1, <3>1, <3>2 DEF LastOut
    <3>5. QED BY <3>3, <3>4
  <2>3. CASE e = row.emp /\ d = row.date
    <3>1. rollup'[e][d] = UpsertRollup(rollup[e][d], None, WallTime(at, Zone), None)
      BY <1>1, <2>3
    <3>2. rollup[e][d] # None BY <1>8 DEF PresenceMatchesSessions, DayOf
    <3>3. WallTime(at, Zone) # None BY ZoneType, BusinessDayType, NoneAssumption DEF Zone
    <3>4. PICK f \in DayOf(e, d) :
            /\ \A x \in DayOf(e, d) : sessions[f].in <= sessions[x].in
            /\ rollup[e][d].in = WallTime(sessions[f].in, Zone)
      BY <2>1 DEF FirstIn
    <3>5. rollup[e][d].in # None
      BY <1>2, <3>4, LiveTyped, ZoneType, BusinessDayType, NoneAssumption DEF Zone, DayOf
    <3>6. rollup'[e][d].in = rollup[e][d].in /\ rollup'[e][d].out = WallTime(at, Zone)
      BY <3>1, <3>2, <3>3, <3>5 DEF UpsertRollup, Coalesce
    <3>7. FirstIn(e, d)'
      <4>1. \A x \in DayOf(e, d) : sessions'[x].in = sessions[x].in BY <1>6 DEF DayOf
      <4>2. QED BY <1>7, <3>4, <3>6, <4>1 DEF FirstIn
    <3>8. LastOut(e, d)'
      <4>1. s \in DayOf(e, d)' /\ sessions'[s].out = at /\ at # None
        BY <1>1, <1>3, <1>7, <2>3, NoneAssumption DEF DayOf
      <4>2. \A x \in DayOf(e, d)' : sessions'[x].out # None => sessions'[x].out <= at
        BY <1>1, <1>3, <1>4, <1>7, <2>3, <4>1 DEF DayOf
      <4>3. QED BY <3>6, <4>1, <4>2 DEF LastOut
    <3>9. QED BY <3>7, <3>8
  <2>4. QED BY <2>2, <2>3
<1>9. QED BY <1>5, <1>7, <1>8 DEF DayBounds

\* Until the first correction commits, presence and both bounds hold together.
UncorrectedInv ==
  RecordInv /\ (corrected = {} => PresenceMatchesSessions /\ NoneEmpty /\ DayBounds)

LEMMA InitUncorrectedInv == Init => UncorrectedInv
<1> SUFFICES ASSUME Init PROVE UncorrectedInv OBVIOUS
<1>1. Live = {} BY DEF Init, Live
<1>2. NoneEmpty /\ DayBounds BY <1>1 DEF NoneEmpty, DayBounds, DayOf
<1>3. QED BY <1>2, InitRecordInv, InitPresenceInv DEF UncorrectedInv, PresenceInv

LEMMA UncorrectedInvStep ==
  ASSUME UncorrectedInv, [Next]_vars, Zone' = Zone
  PROVE  UncorrectedInv'
<1>1. RecordInv' BY RecordInvStep DEF UncorrectedInv
<1>2. Inv /\ FreshReads BY DEF UncorrectedInv, RecordInv
<1> SUFFICES ASSUME corrected' = {}
             PROVE  PresenceMatchesSessions' /\ NoneEmpty' /\ DayBounds'
  BY <1>1 DEF UncorrectedInv
<1>3. corrected = {} BY <1>2, BoundsStandStep DEF BoundsStand
<1>4. PresenceMatchesSessions /\ NoneEmpty /\ DayBounds BY <1>3 DEF UncorrectedInv
<1>5. PresenceMatchesSessions' BY <1>2, <1>4, PresenceStep
<1>6. ASSUME NEW r \in Requests, OpenSession(r) PROVE NoneEmpty' /\ DayBounds'
  BY <1>2, <1>4, <1>6, OpenKeepsBounds
<1>7. ASSUME NEW r \in Requests, CloseSession(r) PROVE NoneEmpty' /\ DayBounds'
  BY <1>2, <1>3, <1>4, <1>7, CloseKeepsBounds
<1>8. ASSUME NEW r \in Requests, CommitCorrection(r) PROVE FALSE
  BY <1>2, <1>8, CommitCorrectionWrites
<1>9. ASSUME UNCHANGED <<sessions, rollup>> PROVE NoneEmpty' /\ DayBounds'
  <2>1. Live' = Live /\ \A e, d : DayOf(e, d)' = DayOf(e, d) BY <1>9 DEF Live, DayOf
  <2>2. \A e, d : (FirstIn(e, d) => FirstIn(e, d)') /\ (LastOut(e, d) => LastOut(e, d)')
    BY <1>9, <2>1 DEF FirstIn, LastOut
  <2>3. QED BY <1>4, <1>9, <2>1, <2>2 DEF NoneEmpty, DayBounds
<1>10. NoneEmpty' /\ DayBounds'
  BY <1>2, <1>6, <1>7, <1>8, <1>9, RecordBreakWrites, QuietStep DEF Writes, tables
<1>11. QED BY <1>5, <1>10

\* The zone the setting names stays the same; the name may change.
ZoneStands == [][Zone' = Zone]_vars

\* Until a correction commits, the row of a day has the wall times of its earliest
\* check-in and of its latest check-out, as long as the installation's zone stands:
\* a row keeps the wall times of the zone it was written in.
THEOREM BoundsUntilCorrected ==
  Spec /\ ZoneStands => [](corrected = {} => RollupBounds /\ PresenceMatchesSessions)
<1>1. UncorrectedInv => (corrected = {} => RollupBounds /\ PresenceMatchesSessions)
  BY DayBoundsSuffice DEF UncorrectedInv, RecordInv, Inv
<1>2. UncorrectedInv /\ [Next]_vars /\ [Zone' = Zone]_vars => UncorrectedInv'
  <2>1. UNCHANGED vars => Zone' = Zone BY DEF vars, world, Zone
  <2>2. QED BY <2>1, UncorrectedInvStep
<1>3. QED BY <1>1, <1>2, InitUncorrectedInv, PTL DEF Spec, ZoneStands

\* Where no correction is applied and no name is a zone but UTC, the bounds always hold.
THEOREM BoundsOfPunches ==
  ASSUME "correct" \notin Verbs, ZoneNames = {}
  PROVE  Spec => []RollupBounds
<1>1. Inv /\ corrected = {} /\ [Next]_vars => (corrected = {})'
  <2> SUFFICES ASSUME Inv, corrected = {}, [Next]_vars PROVE corrected' = {} OBVIOUS
  <2>1. ASSUME NEW r \in Requests, CommitCorrection(r) PROVE FALSE
    <3>1. call[r] \in Calls /\ call[r].verb = "correct"
      BY <2>1, CommitCorrectionWrites DEF Inv, HandlerState, HandlerStateOf, Busy
    <3>2. QED BY <3>1 DEF Calls
  <2>2. QED
    BY <2>1, OpenSessionWrites, CloseSessionWrites, RecordBreakWrites, QuietStep DEF Writes
<1>2. Init => corrected = {} BY DEF Init
<1>3. [Zone' = Zone]_vars BY DEF Zone, ParseTimezone
<1>4. QED BY <1>1, <1>2, <1>3, Invariance, BoundsUntilCorrected, PTL DEF Spec, ZoneStands
================================================================================
