---------------------------- MODULE PunchClockProofs ----------------------------
(* Proofs about PunchClock: its type invariant, and that the sessions of an     *)
(* employee never overlap, for every set of requests, sessions and employees.   *)
EXTENDS PunchClock, FiniteSetTheorems, WellFoundedInduction, TLAPS
--------------------------------------------------------------------------------
(* The extremes of a finite set of integers, by well-foundedness of strict      *)
(* inclusion among its initial (final) segments.                                *)

\* The smallest element of a finite, non-empty set of integers is one of its own.
LEMMA MinInSet ==
  ASSUME NEW S \in SUBSET Int, IsFiniteSet(S), S # {}
  PROVE  Min(S) \in S /\ \A y \in S : Min(S) <= y
<1> DEFINE Upto(x) == {y \in S : y <= x}
           Segments == {Upto(x) : x \in S}
<1>1. IsWellFoundedOn(StrictSubsetOrdering(S), FiniteSubsetsOf(S))
  BY FS_StrictSubsetOrderingWellFounded
<1>2. Segments \subseteq FiniteSubsetsOf(S) /\ Segments # {}
  <2>1. \A x \in S : Upto(x) \subseteq S /\ IsFiniteSet(Upto(x))
    BY FS_Subset
  <2>2. QED BY <2>1 DEF FiniteSubsetsOf
<1>3. PICK B \in Segments : \A C \in Segments : <<C, B>> \notin StrictSubsetOrdering(S)
  BY <1>1, <1>2, WFMin
<1>4. PICK m \in S : B = Upto(m) OBVIOUS
<1>5. ASSUME NEW y \in S, ~(m <= y) PROVE FALSE
  <2>1. y < m /\ y \in Int /\ m \in Int BY <1>5
  <2>2. \A z \in S : z <= y => z <= m BY <2>1
  <2>3. m \in Upto(m) /\ m \notin Upto(y) BY <2>1
  <2>4. <<Upto(y), Upto(m)>> \in StrictSubsetOrdering(S)
    BY <2>2, <2>3 DEF StrictSubsetOrdering
  <2>5. QED BY <1>3, <1>4, <2>4
<1>6. QED BY <1>5 DEF Min

\* So is the largest.
LEMMA MaxInSet ==
  ASSUME NEW S \in SUBSET Int, IsFiniteSet(S), S # {}
  PROVE  Max(S) \in S /\ \A y \in S : Max(S) >= y
<1> DEFINE From(x) == {y \in S : y >= x}
           Segments == {From(x) : x \in S}
<1>1. IsWellFoundedOn(StrictSubsetOrdering(S), FiniteSubsetsOf(S))
  BY FS_StrictSubsetOrderingWellFounded
<1>2. Segments \subseteq FiniteSubsetsOf(S) /\ Segments # {}
  <2>1. \A x \in S : From(x) \subseteq S /\ IsFiniteSet(From(x))
    BY FS_Subset
  <2>2. QED BY <2>1 DEF FiniteSubsetsOf
<1>3. PICK B \in Segments : \A C \in Segments : <<C, B>> \notin StrictSubsetOrdering(S)
  BY <1>1, <1>2, WFMin
<1>4. PICK m \in S : B = From(m) OBVIOUS
<1>5. ASSUME NEW y \in S, ~(m >= y) PROVE FALSE
  <2>1. m < y /\ y \in Int /\ m \in Int BY <1>5
  <2>2. \A z \in S : z >= y => z >= m BY <2>1
  <2>3. m \in From(m) /\ m \notin From(y) BY <2>1
  <2>4. <<From(y), From(m)>> \in StrictSubsetOrdering(S)
    BY <2>2, <2>3 DEF StrictSubsetOrdering
  <2>5. QED BY <1>3, <1>4, <2>4
<1>6. QED BY <1>5 DEF Max
--------------------------------------------------------------------------------
(* The helpers of the model, each by its type.                                  *)

LEMMA ZoneType == \A name : ParseTimezone(name) \in Int
  BY ZoneAssumption DEF ParseTimezone, UTC

LEMMA BusinessDayType ==
  ASSUME NEW at \in Int, NEW zone \in Int
  PROVE  BusinessDate(at, zone) \in Int /\ WallTime(at, zone) \in Int \cap 0..(DayLength - 1)
<1>1. at + zone \in Int OBVIOUS
<1>2. QED BY <1>1, DayLengthAssumption DEF BusinessDate, WallTime

LEMMA InstantsType == Instants \subseteq Int /\ None \notin Int
  BY PunchClockAssumption, PunchPolicyAssumption, NoneAssumption DEF Instants

LEMMA WallTimes ==
  ASSUME NEW S \in SUBSET (0..(DayLength - 1))
  PROVE  S \in SUBSET Int /\ IsFiniteSet(S)
<1>1. DayLength - 1 \in Int BY DayLengthAssumption
<1>2. IsFiniteSet(0..(DayLength - 1)) BY <1>1, FS_Interval
<1>3. IsFiniteSet(S) BY <1>2, FS_Subset
<1>4. QED BY <1>1, <1>3

LEMMA AggregateType ==
  ASSUME NEW table \in [SessionIds -> Optional(SessionRow)], NEW e, NEW d
  PROVE  DayAggregate(table, e, d) \in Aggregate
<1> DEFINE day  == {s \in SessionIds : table[s] # None /\ table[s].emp = e /\ table[s].date = d}
           ins  == {WallTime(table[s].in, Zone) : s \in day}
           outs == {WallTime(table[s].out, Zone) : s \in {c \in day : table[c].out # None}}
<1>1. \A s \in day : table[s].in \in Int /\ table[s].out \in Optional(Int)
  BY DEF Optional, SessionRow
<1>2. ins \in SUBSET (0..(DayLength - 1)) /\ outs \in SUBSET (0..(DayLength - 1))
  <2>1. Zone \in Int BY ZoneType DEF Zone
  <2>2. \A t \in Int : WallTime(t, Zone) \in 0..(DayLength - 1)
    BY <2>1, BusinessDayType
  <2>3. QED BY <1>1, <2>2 DEF Optional
<1>3. ins # {} => Min(ins) \in Int
  BY <1>2, WallTimes, MinInSet
<1>4. outs # {} => Max(outs) \in Int
  BY <1>2, WallTimes, MaxInSet
<1> HIDE DEF ins, outs
<1>5. [in  |-> IF ins = {} THEN None ELSE Min(ins),
       out |-> IF outs = {} THEN None ELSE Max(outs)] \in Aggregate
  BY <1>3, <1>4 DEF Aggregate, Optional
<1>6. QED BY <1>5 DEF DayAggregate, ins, outs

\* The part of TypeOK that speaks of the requests.
LocalsType ==
  /\ pc \in [Requests -> {"idle", "open", "last", "write", "session", "update", "commit", "done"}]
  /\ call \in [Requests -> Optional(Calls)]
  /\ found \in [Requests -> Optional(Reading)]
  /\ pending \in [Requests -> Optional(Rewrite)]
  /\ answer \in [Requests -> AnswerRow]

\* The arguments of a call, by verb.
LEMMA CallType ==
  ASSUME NEW c \in Calls
  PROVE  /\ c.verb \in {"punch", "kiosk", "break", "correct"}
         /\ c.verb \in {"punch", "kiosk", "break"} =>
              c.emp \in Employees /\ c.at \in Instants /\ c.at \in Int
         /\ c.verb \in {"punch", "break"} => c.dir \in Directions
         /\ c.verb = "punch" => c.source \in PunchSources
         /\ c.verb = "correct" => /\ c.session \in SessionIds
                                  /\ c.in \in Int /\ c.out \in Optional(Int)
  BY InstantsType DEF Calls, Optional

\* A correction's row and a punch's row are rows of the sessions table.
LEMMA NewRowType ==
  ASSUME NEW r, call[r] \in Calls, call[r].verb \in {"punch", "kiosk"}
  PROVE  NewRow(r) \in SessionRow /\ NewRow(r) # None /\ NewRow(r).in = call[r].at
<1>1. call[r].emp \in Employees /\ call[r].at \in Int BY CallType
<1>2. BusinessDate(call[r].at, Zone) \in Int BY <1>1, ZoneType, BusinessDayType DEF Zone
<1>3. NewRow(r) \in SessionRow BY <1>1, <1>2 DEF NewRow, SessionRow, Optional
<1>4. QED BY <1>3, RowAssumption DEF NewRow

\* The day of a punch is one the roster is kept for.
LEMMA NewRowDay ==
  ASSUME TypeOK, NEW r, call[r] \in Calls, call[r].verb \in {"punch", "kiosk"}
  PROVE  NewRow(r).date \in Days
<1>1. call[r].at \in Instants BY CallType
<1>2. Zone \in Zones BY DEF TypeOK, Zone, Zones
<1>3. QED BY <1>1, <1>2 DEF NewRow, Days

LEMMA CorrectedRowType ==
  ASSUME TypeOK, NEW r, call[r] \in Calls, call[r].verb = "correct", call[r].session \in Live
  PROVE  /\ CorrectedRow(r) \in SessionRow
         /\ CorrectedRow(r).emp = sessions[call[r].session].emp
<1>1. call[r].in \in Int /\ call[r].out \in Optional(Int) BY CallType
<1>2. sessions[call[r].session].emp \in Employees
  BY DEF TypeOK, Live, Optional, SessionRow
<1>3. BusinessDate(call[r].in, Zone) \in Int BY <1>1, ZoneType, BusinessDayType DEF Zone
<1>4. QED BY <1>1, <1>2, <1>3 DEF CorrectedRow, SessionRow

\* What find_open_session answers with.
LEMMA FindOpenType ==
  ASSUME TypeOK, NEW e, NEW open \in FindOpenSession(e), open # None
  PROVE  /\ open \in Reading /\ open.id \in Live
         /\ sessions[open.id] = open.row /\ open.row.emp = e
  BY DEF FindOpenSession, OpenSessions, TypeOK, Live, Optional, Reading

LEMMA UpsertType ==
  ASSUME NEW row \in Optional(RollupRow), NEW in \in Optional(Int), NEW out \in Optional(Int),
         NEW schedule \in Optional(Shifts)
  PROVE  UpsertRollup(row, in, out, schedule) \in RollupRow
  BY DEF UpsertRollup, Coalesce, RollupRow, Optional

LEMMA RefreshType ==
  ASSUME NEW row \in Optional(RollupRow), NEW agg \in Aggregate
  PROVE  RefreshRollup(row, agg) \in Optional(RollupRow)
  BY UpsertType DEF RefreshRollup, Aggregate, Optional

\* Writing one day's row keeps the shape of the rollup table.
RollupTable == [Employees -> [Days -> Optional(RollupRow)]]
LEMMA RollupWrite ==
  ASSUME NEW table \in RollupTable, NEW e \in Employees, NEW d, NEW row,
         d \in Days => row \in Optional(RollupRow)
  PROVE  [table EXCEPT ![e][d] = row] \in RollupTable
  BY DEF RollupTable

LEMMA RollupUpsert ==
  ASSUME NEW table \in RollupTable, NEW e \in Employees, NEW d, NEW in \in Optional(Int),
         NEW out \in Optional(Int), NEW schedule \in Optional(Shifts)
  PROVE  [table EXCEPT ![e][d] = UpsertRollup(@, in, out, schedule)] \in RollupTable
<1>1. d \in Days => UpsertRollup(table[e][d], in, out, schedule) \in Optional(RollupRow)
  BY UpsertType DEF RollupTable, Optional
<1>2. QED BY <1>1, RollupWrite

LEMMA EventType ==
  ASSUME NEW s \in SessionIds, NEW row \in SessionRow, NEW at \in Int, NEW dir \in Directions,
         NEW isBreak \in BOOLEAN, NEW source \in PunchSources \cup {"kiosk", "admin"}
  PROVE  Event(s, row, at, dir, isBreak, source) \in EventRow
  BY DEF Event, EventRow, SessionRow

LEMMA ReplyType ==
  ASSUME TypeOK, NEW r \in Requests, NEW ans \in AnswerRow, Reply(r, ans)
  PROVE  LocalsType'
  BY DEF TypeOK, Reply, Optional, LocalsType

\* An answer without a session is of its type; so is one of the session that was served.
LEMMA AnswerType ==
  ASSUME NEW code \in AnswerCodes, NEW s \in Optional(SessionIds),
         NEW in \in Optional(Int), NEW out \in Optional(Int)
  PROVE  Answer(code, s, in, out) \in AnswerRow
  BY DEF Answer, AnswerRow

LEMMA RefuseType ==
  ASSUME TypeOK, NEW r \in Requests, NEW code \in AnswerCodes, Refuse(r, code)
  PROVE  TypeOK'
<1>1. Answer(code, None, None, None) \in AnswerRow BY AnswerType DEF Optional
<1>2. Reply(r, Answer(code, None, None, None)) BY DEF Refuse, Rollback
<1>3. LocalsType' BY <1>1, <1>2, ReplyType
<1>4. UNCHANGED <<now, timezone, roster, sessions, clocks, rollup, corrected>>
  BY DEF Refuse, Rollback, world, tables
<1>5. QED BY <1>3, <1>4 DEF TypeOK, LocalsType
\* What a correction writes before its commit.
LEMMA RewriteType ==
  ASSUME TypeOK, HandlerState, NEW r \in Requests, UpdateSession(r)
  PROVE  \E write \in Rewrite :
           write.row = CorrectedRow(r) /\ pending' = [pending EXCEPT ![r] = write]
<1> DEFINE row   == CorrectedRow(r)
           table == [sessions EXCEPT ![call[r].session] = row]
           write == [row |-> row,
                     old |-> DayAggregate(table, row.emp, found[r].row.date),
                     new |-> DayAggregate(table, row.emp, row.date)]
<1>1. pending' = [pending EXCEPT ![r] = write] BY DEF UpdateSession
<1>2. call[r] \in Calls /\ call[r].verb = "correct" /\ call[r].session \in Live
  BY DEF UpdateSession, HandlerState, HandlerStateOf, Busy
<1>3. row \in SessionRow BY <1>2, CorrectedRowType
<1> HIDE DEF row
<1>4. table \in [SessionIds -> Optional(SessionRow)] BY <1>3 DEF TypeOK, Optional
<1> HIDE DEF table
<1>5. write \in Rewrite /\ write.row = row BY <1>3, <1>4, AggregateType DEF Rewrite
<1> HIDE DEF write
<1>6. QED BY <1>1, <1>5 DEF row
--------------------------------------------------------------------------------
(* Type correctness.                                                            *)

\* Every step keeps every table, and what every request keeps, in its shape.
LEMMA TypeOKStep ==
  ASSUME TypeOK, HandlerState, [Next]_vars
  PROVE  TypeOK'
<1>1. ASSUME NEW r \in Requests, Receive(r) PROVE TypeOK'
  <2>1. call' \in [Requests -> Optional(Calls)] BY <1>1 DEF Receive, TypeOK, Optional
  <2>2. pc' \in [Requests -> {"idle", "open", "last", "write", "session", "update",
                             "commit", "done"}]
    BY <1>1 DEF Receive, TypeOK
  <2>3. QED BY <1>1, <2>1, <2>2 DEF Receive, TypeOK, world, tables
<1>2. ASSUME NEW r \in Requests, ReadOpenSession(r) PROVE TypeOK'
  <2>1. found' \in [Requests -> Optional(Reading)]
    BY <1>2, FindOpenType DEF ReadOpenSession, TypeOK, Optional
  <2>2. pc' \in [Requests -> {"idle", "open", "last", "write", "session", "update",
                             "commit", "done"}]
    BY <1>2 DEF ReadOpenSession, TypeOK
  <2>3. QED BY <1>2, <2>1, <2>2 DEF ReadOpenSession, TypeOK, world, tables
<1>3. ASSUME NEW r \in Requests, BreakWithoutSession(r) PROVE TypeOK'
  BY <1>3, RefuseType DEF BreakWithoutSession, AnswerCodes
<1>4. ASSUME NEW r \in Requests, ReadLastEvent(r) PROVE TypeOK'
  BY <1>4 DEF ReadLastEvent, TypeOK, world, tables
<1>5. ASSUME NEW r \in Requests, AnswerDoubleTap(r) PROVE TypeOK'
  <2>1. PICK last \in LastClockEvents(call[r].emp) :
          Rollback(r, Answer("duplicate", last.session,
                             IF found[r] # None THEN found[r].row.in ELSE last.at,
                             IF found[r] = None THEN last.at ELSE None))
    BY <1>5 DEF AnswerDoubleTap
  <2>2. last \in EventRow BY DEF LastClockEvents, TypeOK
  <2>3. last.session \in Optional(SessionIds) /\ last.at \in Int
    BY <2>2 DEF EventRow, Optional
  <2>4. found[r] # None => found[r].row.in \in Int
    BY DEF TypeOK, Optional, Reading, SessionRow
  <2> DEFINE ans == Answer("duplicate", last.session,
                           IF found[r] # None THEN found[r].row.in ELSE last.at,
                           IF found[r] = None THEN last.at ELSE None)
  <2>5. ans \in AnswerRow BY <2>3, <2>4 DEF Answer, AnswerRow, AnswerCodes, Optional
  <2>6. Reply(r, ans) /\ UNCHANGED <<world, tables, corrected>> BY <2>1 DEF Rollback
  <2> HIDE DEF ans
  <2>7. LocalsType' BY <2>5, <2>6, ReplyType
  <2>8. QED BY <2>6, <2>7 DEF TypeOK, LocalsType, world, tables
<1>6. ASSUME NEW r \in Requests, WrongDirection(r) PROVE TypeOK'
  <2> DEFINE code == IF call[r].dir = "in" THEN "session_still_open" ELSE "no_open_session"
  <2>1. Refuse(r, code) /\ code \in AnswerCodes BY <1>6 DEF WrongDirection, AnswerCodes
  <2> HIDE DEF code
  <2>2. QED BY <2>1, RefuseType
<1>7. ASSUME NEW r \in Requests, OpenSession(r) PROVE TypeOK'
  <2> DEFINE row == NewRow(r)
  <2>1. PICK s \in SessionIds \ Live, schedule \in ScheduleSnapshots(call[r].emp, row.date) :
          /\ sessions' = [sessions EXCEPT ![s] = row]
          /\ clocks' = Append(clocks, Event(s, row, row.in, "in", FALSE, SourceOf(r, "in")))
          /\ rollup' = [rollup EXCEPT ![row.emp][row.date] =
                          UpsertRollup(@, WallTime(row.in, Zone), None, schedule)]
          /\ Reply(r, Answer("ok", s, row.in, None))
    BY <1>7 DEF OpenSession
  <2>2. call[r] \in Calls /\ call[r].verb \in {"punch", "kiosk"}
    BY <1>7 DEF OpenSession, Opening, IsPunch, HandlerState, HandlerStateOf, Busy
  <2>3. row \in SessionRow BY <2>2, NewRowType
  <2>4. row.in \in Int /\ row.emp \in Employees BY <2>3 DEF SessionRow
  <2>5. SourceOf(r, "in") \in PunchSources \cup {"kiosk", "admin"}
    BY <2>2, CallType DEF SourceOf
  <2>6. Event(s, row, row.in, "in", FALSE, SourceOf(r, "in")) \in EventRow
    BY <2>3, <2>4, <2>5, EventType DEF Directions
  <2>7. WallTime(row.in, Zone) \in Optional(Int) BY <2>4, ZoneType, BusinessDayType DEF Zone, Optional
  <2>8. Answer("ok", s, row.in, None) \in AnswerRow
    BY <2>4 DEF Answer, AnswerRow, AnswerCodes, Optional
  <2>9. schedule \in Optional(Shifts)
    <3>1. roster[row.emp][row.date] \subseteq Shifts
      BY <2>2, <2>4, NewRowDay DEF TypeOK, row
    <3>2. row.emp = call[r].emp BY DEF row, NewRow
    <3>3. QED BY <3>1, <3>2 DEF ScheduleSnapshots, Optional
  <2> HIDE DEF row
  <2>10. rollup' \in RollupTable
    <3>1. None \in Optional(Int) BY DEF Optional
    <3>2. rollup \in RollupTable BY DEF TypeOK, RollupTable
    <3>3. QED BY <2>1, <2>4, <2>7, <2>9, <3>1, <3>2, RollupUpsert
  <2>11. sessions' \in [SessionIds -> Optional(SessionRow)]
    <3>1. sessions' = [sessions EXCEPT ![s] = row] BY <2>1
    <3>2. QED BY <3>1, <2>3 DEF TypeOK, Optional
  <2>12. clocks' \in Seq(EventRow)
    <3> DEFINE event == Event(s, row, row.in, "in", FALSE, SourceOf(r, "in"))
    <3>1. clocks' = Append(clocks, event) /\ event \in EventRow BY <2>1, <2>6
    <3> HIDE DEF event
    <3>2. QED BY <3>1 DEF TypeOK
  <2>13. LocalsType' BY <2>1, <2>8, ReplyType
  <2>14. QED
    BY <1>7, <2>10, <2>11, <2>12, <2>13
    DEF OpenSession, TypeOK, LocalsType, RollupTable, world
<1>8. ASSUME NEW r \in Requests, OpenSessionOverlap(r) PROVE TypeOK'
  BY <1>8, RefuseType DEF OpenSessionOverlap, AnswerCodes
<1>9. ASSUME NEW r \in Requests, CloseSession(r) PROVE TypeOK'
  <2> DEFINE s   == found[r].id
             at  == call[r].at
             row == [sessions[s] EXCEPT !.out = at]
             event == Event(s, row, at, "out", FALSE, SourceOf(r, "out"))
  <2>1. /\ sessions' = [sessions EXCEPT ![s] = row]
        /\ clocks' = Append(clocks, event)
        /\ rollup' = [rollup EXCEPT ![row.emp][row.date] =
                        UpsertRollup(@, None, WallTime(at, Zone), None)]
        /\ Reply(r, Answer("ok", s, row.in, at))
        /\ UNCHANGED <<world, corrected>>
    BY <1>9 DEF CloseSession
  <2>2. call[r] \in Calls /\ call[r].verb \in {"punch", "kiosk"}
    BY <1>9 DEF CloseSession, Closing, IsPunch, HandlerState, HandlerStateOf, Busy
  <2>3. at \in Int BY <2>2, CallType
  <2>4. s \in SessionIds /\ sessions[s] \in SessionRow
    BY <1>9, <2>2 DEF CloseSession, Closing, HandlerState, HandlerStateOf, Live, TypeOK, Optional
  <2>5. row \in SessionRow BY <2>3, <2>4 DEF SessionRow, Optional
  <2>6. row.in \in Int /\ row.emp \in Employees BY <2>5 DEF SessionRow
  <2>7. SourceOf(r, "out") \in PunchSources \cup {"kiosk", "admin"}
    BY <2>2, CallType DEF SourceOf
  <2>8. event \in EventRow BY <2>3, <2>4, <2>5, <2>7, EventType DEF Directions
  <2>9. WallTime(at, Zone) \in Optional(Int)
    BY <2>3, ZoneType, BusinessDayType DEF Zone, Optional
  <2>10. Answer("ok", s, row.in, at) \in AnswerRow
    BY <2>3, <2>4, <2>6 DEF Answer, AnswerRow, AnswerCodes, Optional
  <2> HIDE DEF row, event, s, at
  <2>11. rollup' \in RollupTable
    <3>1. None \in Optional(Int) /\ None \in Optional(Shifts) BY DEF Optional
    <3>2. rollup \in RollupTable BY DEF TypeOK, RollupTable
    <3>3. QED BY <2>1, <2>6, <2>9, <3>1, <3>2, RollupUpsert
  <2>12. sessions' \in [SessionIds -> Optional(SessionRow)]
    BY <2>1, <2>5 DEF TypeOK, Optional
  <2>13. clocks' \in Seq(EventRow) BY <2>1, <2>8 DEF TypeOK
  <2>14. LocalsType' BY <2>1, <2>10, ReplyType
  <2>15. QED BY <2>1, <2>11, <2>12, <2>13, <2>14 DEF TypeOK, LocalsType, RollupTable, world
<1>10. ASSUME NEW r \in Requests, CloseRefused(r) PROVE TypeOK'
  <2>1. \E code \in {"invalid_time_range", "session_already_closed", "database_error"} :
          Refuse(r, code)
    BY <1>10 DEF CloseRefused
  <2>2. QED BY <2>1, RefuseType DEF AnswerCodes
<1>11. ASSUME NEW r \in Requests, RecordBreak(r) PROVE TypeOK'
  <2> DEFINE open  == found[r]
             event == Event(open.id, open.row, call[r].at, call[r].dir, TRUE,
                            SourceOf(r, call[r].dir))
  <2>1. /\ clocks' = Append(clocks, event)
        /\ Reply(r, Answer("ok", open.id, open.row.in, None))
        /\ UNCHANGED <<world, sessions, rollup, corrected>>
    BY <1>11 DEF RecordBreak
  <2>2. call[r] \in Calls /\ call[r].verb = "break" /\ open \in Reading
    BY <1>11 DEF RecordBreak, HandlerState, HandlerStateOf, Busy, TypeOK, Optional
  <2>3. call[r].at \in Int /\ call[r].dir \in Directions BY <2>2, CallType
  <2>4. open.id \in SessionIds /\ open.row \in SessionRow /\ open.row.in \in Int
    BY <2>2 DEF Reading, SessionRow
  <2>5. SourceOf(r, call[r].dir) \in PunchSources \cup {"kiosk", "admin"}
    BY <2>2 DEF SourceOf
  <2>6. event \in EventRow BY <2>3, <2>4, <2>5, EventType
  <2>7. Answer("ok", open.id, open.row.in, None) \in AnswerRow
    BY <2>4 DEF Answer, AnswerRow, AnswerCodes, Optional
  <2> HIDE DEF event, open
  <2>8. clocks' \in Seq(EventRow) BY <2>1, <2>6 DEF TypeOK
  <2>9. LocalsType' BY <2>1, <2>7, ReplyType
  <2>10. QED BY <2>1, <2>8, <2>9 DEF TypeOK, LocalsType, world
<1>12. ASSUME NEW r \in Requests, ReadSession(r) PROVE TypeOK'
  <2>1. call[r].session \in SessionIds /\ sessions[call[r].session] \in SessionRow
    BY <1>12 DEF ReadSession, HandlerState, HandlerStateOf, Live, TypeOK, Optional
  <2>2. [id |-> call[r].session, row |-> sessions[call[r].session]] \in Reading
    BY <2>1 DEF Reading
  <2>3. found' \in [Requests -> Optional(Reading)]
    BY <1>12, <2>2 DEF ReadSession, TypeOK, Optional
  <2>4. QED BY <1>12, <2>3 DEF ReadSession, TypeOK, world, tables
<1>13. ASSUME NEW r \in Requests, UpdateSession(r) PROVE TypeOK'
  <2>1. pending' \in [Requests -> Optional(Rewrite)]
    BY <1>13, RewriteType DEF TypeOK, Optional
  <2>2. QED BY <1>13, <2>1 DEF UpdateSession, TypeOK, world, tables
<1>14. ASSUME NEW r \in Requests, UpdateSessionOverlap(r) PROVE TypeOK'
  BY <1>14, RefuseType DEF UpdateSessionOverlap, AnswerCodes
<1>15. ASSUME NEW r \in Requests, CommitCorrection(r) PROVE TypeOK'
  <2> DEFINE s   == call[r].session
             p   == pending[r]
             day == found[r].row.date
             old == IF day = p.row.date THEN rollup[p.row.emp]
                    ELSE [rollup[p.row.emp] EXCEPT ![day] = RefreshRollup(@, p.old)]
  <2>1. /\ sessions' = [sessions EXCEPT ![s] = p.row]
        /\ rollup' = [rollup EXCEPT ![p.row.emp] =
                        [old EXCEPT ![p.row.date] = RefreshRollup(@, p.new)]]
        /\ Reply(r, Answer("ok", s, p.row.in, p.row.out))
        /\ corrected' = corrected \cup {s}
        /\ UNCHANGED <<world, clocks>>
    BY <1>15 DEF CommitCorrection
  <2>2. p \in Rewrite /\ s \in SessionIds
    BY <1>15 DEF CommitCorrection, HandlerState, HandlerStateOf, Live
  <2>3. /\ p.row \in SessionRow /\ p.old \in Aggregate /\ p.new \in Aggregate
        /\ p.row.emp \in Employees /\ p.row.in \in Int /\ p.row.out \in Optional(Int)
    BY <2>2 DEF Rewrite, SessionRow
  <2>4. Answer("ok", s, p.row.in, p.row.out) \in AnswerRow
    BY <2>2, <2>3 DEF Answer, AnswerRow, AnswerCodes, Optional
  <2>5. LocalsType' BY <2>1, <2>4, ReplyType
  <2>6. old \in [Days -> Optional(RollupRow)]
    <3>1. rollup[p.row.emp] \in [Days -> Optional(RollupRow)] BY <2>3 DEF TypeOK
    <3>2. \A d \in Days : RefreshRollup(rollup[p.row.emp][d], p.old) \in Optional(RollupRow)
      BY <2>3, <3>1, RefreshType
    <3>3. QED BY <3>1, <3>2
  <2> HIDE DEF old, p, s
  <2>7. rollup' \in RollupTable
    <3>1. \A d \in Days : RefreshRollup(old[d], p.new) \in Optional(RollupRow)
      BY <2>3, <2>6, RefreshType
    <3>2. [old EXCEPT ![p.row.date] = RefreshRollup(@, p.new)] \in [Days -> Optional(RollupRow)]
      BY <2>6, <3>1
    <3>3. QED BY <2>1, <3>2 DEF TypeOK, RollupTable
  <2>8. sessions' \in [SessionIds -> Optional(SessionRow)]
    BY <2>1, <2>3 DEF TypeOK, Optional
  <2>9. corrected' \subseteq SessionIds BY <2>1, <2>2 DEF TypeOK
  <2>10. QED BY <2>1, <2>5, <2>7, <2>8, <2>9 DEF TypeOK, LocalsType, RollupTable, world
<1>16. ASSUME NEW r \in Requests, Abandon(r) PROVE TypeOK'
  BY <1>16, RefuseType DEF Abandon, AnswerCodes
<1>17. ASSUME Tick PROVE TypeOK'
  <2>1. now' \in 0..MaxTime BY <1>17, PunchClockAssumption DEF Tick, TypeOK
  <2>2. QED BY <1>17, <2>1 DEF Tick, TypeOK, tables, locals
<1>18. ASSUME SetTimezone PROVE TypeOK'
  BY <1>18 DEF SetTimezone, TypeOK, tables, locals
<1>19. ASSUME EditRoster PROVE TypeOK'
  <2>1. roster' \in [Employees -> [Days -> SUBSET Shifts]]
    BY <1>19 DEF EditRoster, TypeOK
  <2>2. QED BY <1>19, <2>1 DEF EditRoster, TypeOK, tables, locals
<1>20. ASSUME UNCHANGED vars PROVE TypeOK'
  BY <1>20 DEF TypeOK, vars, world, tables, locals
<1>21. QED
  BY <1>1, <1>2, <1>3, <1>4, <1>5, <1>6, <1>7, <1>8, <1>9, <1>10, <1>11, <1>12, <1>13, <1>14,
     <1>15, <1>16, <1>17, <1>18, <1>19, <1>20
  DEF Next, Handle, Quiesce
--------------------------------------------------------------------------------
(* What a handler keeps.                                                        *)

OwnersKept == \A s \in Live : s \in Live' /\ sessions'[s].emp = sessions[s].emp

\* A session never disappears and never changes its owner.
LEMMA OwnersKeptStep ==
  ASSUME TypeOK, HandlerState, [Next]_vars
  PROVE  OwnersKept
<1>1. ASSUME NEW r \in Requests, OpenSession(r) PROVE OwnersKept
  <2>1. PICK s \in SessionIds \ Live : sessions' = [sessions EXCEPT ![s] = NewRow(r)]
    BY <1>1 DEF OpenSession
  <2>2. QED BY <2>1 DEF OwnersKept, Live, TypeOK
<1>2. ASSUME NEW r \in Requests, CloseSession(r) PROVE OwnersKept
  <2> DEFINE s   == found[r].id
             row == [sessions[s] EXCEPT !.out = call[r].at]
  <2>1. call[r] \in Calls /\ call[r].verb \in {"punch", "kiosk"}
    BY <1>2 DEF CloseSession, Closing, IsPunch, HandlerState, HandlerStateOf, Busy
  <2>2. s \in Live /\ sessions[s] \in SessionRow /\ call[r].at \in Int
    BY <1>2, <2>1, CallType
    DEF CloseSession, Closing, HandlerState, HandlerStateOf, Live, TypeOK, Optional
  <2>3. row \in SessionRow /\ row.emp = sessions[s].emp
    BY <2>2 DEF SessionRow, Optional
  <2>4. sessions' = [sessions EXCEPT ![s] = row] BY <1>2 DEF CloseSession
  <2> HIDE DEF row, s
  <2>5. QED BY <2>3, <2>4, RowAssumption DEF OwnersKept, Live, TypeOK
<1>3. ASSUME NEW r \in Requests, CommitCorrection(r) PROVE OwnersKept
  <2>1. /\ pending[r].row \in SessionRow
        /\ pending[r].row.emp = sessions[call[r].session].emp
    BY <1>3 DEF CommitCorrection, HandlerState, HandlerStateOf, Rewrite
  <2>2. sessions' = [sessions EXCEPT ![call[r].session] = pending[r].row]
    BY <1>3 DEF CommitCorrection
  <2>3. QED BY <2>1, <2>2, RowAssumption DEF OwnersKept, Live, TypeOK
<1>4. ASSUME UNCHANGED sessions PROVE OwnersKept
  BY <1>4 DEF OwnersKept, Live
<1>5. QED
  BY <1>1, <1>2, <1>3, <1>4
  DEF Next, Handle, Receive, ReadOpenSession, BreakWithoutSession, ReadLastEvent, AnswerDoubleTap,
      WrongDirection, OpenSessionOverlap, CloseRefused, RecordBreak, ReadSession, UpdateSession,
      UpdateSessionOverlap, Abandon, Tick, SetTimezone, EditRoster, Quiesce, Refuse, Rollback,
      vars, tables

Kept(q) ==
  pc'[q] = pc[q] /\ call'[q] = call[q] /\ found'[q] = found[q] /\ pending'[q] = pending[q]

\* A request no step touches keeps what it has.
LEMMA KeptState ==
  ASSUME NEW q \in Requests, HandlerStateOf(q), OwnersKept, Kept(q)
  PROVE  HandlerStateOf(q)'
  BY DEF HandlerStateOf, OwnersKept, Kept, Busy

\* A request that is answered keeps nothing, and no other request is touched.
LEMMA ReplyState ==
  ASSUME TypeOK, NEW r \in Requests, NEW ans, Reply(r, ans)
  PROVE  HandlerStateOf(r)' /\ \A q \in Requests \ {r} : Kept(q)
  BY DEF TypeOK, Reply, HandlerStateOf, Kept, Busy

\* Every step keeps HandlerState.
LEMMA HandlerStateStep ==
  ASSUME TypeOK, HandlerState, [Next]_vars
  PROVE  HandlerState'
<1> DEFINE Fits(r) == HandlerStateOf(r)' /\ \A q \in Requests \ {r} : Kept(q)
<1>1. OwnersKept BY OwnersKeptStep
<1>2. ASSUME NEW r \in Requests, Receive(r) PROVE Fits(r)
  <2>1. PICK c \in Calls :
          /\ Accepted(c)
          /\ call' = [call EXCEPT ![r] = c]
          /\ pc' = [pc EXCEPT ![r] = IF c.verb = "correct" THEN "session" ELSE "open"]
    BY <1>2 DEF Receive
  <2>2. c.verb = "correct" => c.session \in Live' 
    BY <1>1, <2>1 DEF Accepted, OwnersKept
  <2>3. HandlerStateOf(r)'
    BY <2>1, <2>2, CallType DEF HandlerStateOf, TypeOK, Busy
  <2>4. QED BY <1>2, <2>1, <2>3 DEF Receive, Kept, TypeOK
<1>3. ASSUME NEW r \in Requests, ReadOpenSession(r) PROVE Fits(r)
  <2>1. PICK open \in FindOpenSession(call[r].emp) :
          /\ ~(call[r].verb = "break" /\ open = None)
          /\ found' = [found EXCEPT ![r] = open]
    BY <1>3 DEF ReadOpenSession
  <2>2. open # None => /\ open.id \in Live /\ sessions[open.id].emp = call[r].emp
                       /\ open.row.emp = call[r].emp
    BY <2>1, FindOpenType
  <2>3. /\ call'[r] = call[r] /\ found'[r] = open /\ UNCHANGED sessions
        /\ pc'[r] = IF call[r].verb = "punch" THEN "last" ELSE "write"
    BY <1>3, <2>1 DEF ReadOpenSession, TypeOK, tables
  <2>4. HandlerStateOf(r) /\ pc[r] = "open" BY <1>3 DEF HandlerState, ReadOpenSession
  <2>5. HandlerStateOf(r)'
    BY <2>1, <2>2, <2>3, <2>4 DEF HandlerStateOf, Busy, Live
  <2>6. QED BY <1>3, <2>1, <2>5 DEF ReadOpenSession, Kept, TypeOK
<1>4. ASSUME NEW r \in Requests, ReadLastEvent(r) PROVE Fits(r)
  <2>1. HandlerStateOf(r)'
    BY <1>4 DEF ReadLastEvent, HandlerState, HandlerStateOf, Busy, Live, TypeOK, tables
  <2>2. QED BY <1>4, <2>1 DEF ReadLastEvent, Kept, TypeOK
<1>5. ASSUME NEW r \in Requests, ReadSession(r) PROVE Fits(r)
  <2>1. call[r].session \in Live /\ call[r].session \in SessionIds
    BY <1>5 DEF ReadSession, HandlerState, HandlerStateOf, Live
  <2>2. [id |-> call[r].session, row |-> sessions[call[r].session]] \in Reading
    BY <2>1 DEF Reading, Live, TypeOK, Optional
  <2>3. HandlerStateOf(r)'
    BY <1>5, <2>1, <2>2
    DEF ReadSession, HandlerState, HandlerStateOf, Busy, Live, TypeOK, tables
  <2>4. QED BY <1>5, <2>3 DEF ReadSession, Kept, TypeOK
<1>6. ASSUME NEW r \in Requests, UpdateSession(r) PROVE Fits(r)
  <2>1. HandlerStateOf(r) /\ pc[r] = "update" BY <1>6 DEF HandlerState, UpdateSession
  <2>2. call[r] \in Calls /\ call[r].verb = "correct" /\ call[r].session \in Live
    BY <2>1 DEF HandlerStateOf, Busy
  <2>3. CorrectedRow(r).emp = sessions[call[r].session].emp
    BY <2>2, CorrectedRowType
  <2>4. /\ pc'[r] = "commit" /\ call'[r] = call[r] /\ found'[r] = found[r]
        /\ UNCHANGED sessions
    BY <1>6 DEF UpdateSession, TypeOK, tables
  <2>5. pending'[r] \in Rewrite /\ pending'[r].row = CorrectedRow(r)
    BY <1>6, RewriteType DEF TypeOK
  <2>6. HandlerStateOf(r)'
    BY <2>1, <2>2, <2>3, <2>4, <2>5 DEF HandlerStateOf, Busy, Live
  <2>7. QED BY <1>6, <2>6 DEF UpdateSession, Kept, TypeOK
<1>7. ASSUME NEW r \in Requests, NEW ans, Reply(r, ans) PROVE Fits(r)
  BY <1>7, ReplyState
<1>8. ASSUME NEW r \in Requests, Fits(r) PROVE HandlerState'
  BY <1>1, <1>8, KeptState DEF HandlerState
<1>9. ASSUME UNCHANGED <<pc, call, found, pending>> PROVE HandlerState'
  BY <1>1, <1>9, KeptState DEF HandlerState, Kept
<1> HIDE DEF Fits
<1>10. ASSUME NEW r \in Requests, Handle(r) \/ Abandon(r) PROVE Fits(r)
  BY <1>3, <1>4, <1>5, <1>6, <1>7, <1>10
  DEF Handle, BreakWithoutSession, AnswerDoubleTap, WrongDirection, OpenSession,
      OpenSessionOverlap, CloseSession, CloseRefused, RecordBreak, UpdateSessionOverlap,
      CommitCorrection, Abandon, Refuse, Rollback
<1>11. QED
  BY <1>2, <1>8, <1>9, <1>10
  DEF Next, Tick, SetTimezone, EditRoster, Quiesce, vars, locals
--------------------------------------------------------------------------------
(* No overlap.                                                                  *)

LEMMA OverlapSymmetric ==
  ASSUME NEW a, NEW b PROVE Overlap(a, b) <=> Overlap(b, a)
  BY DEF Overlap

\* Closing an open interval after its start takes no room from anybody.
LEMMA ClosingShrinks ==
  ASSUME NEW a \in SessionRow, a.out = None, NEW at \in Int, NEW b,
         Overlap([a EXCEPT !.out = at], b)
  PROVE  Overlap(a, b)
  BY NoneAssumption DEF Overlap, Empty, SessionRow

Calm ==
  /\ UNCHANGED sessions
  /\ \A q \in Uncommitted' :
       q \in Uncommitted /\ call'[q] = call[q] /\ pending'[q] = pending[q]

\* A step that writes no session and begins no uncommitted write breaks nothing.
LEMMA CalmStep ==
  ASSUME NoOverlap, LocksProtect, Calm
  PROVE  NoOverlap' /\ LocksProtect'
  BY DEF NoOverlap, LocksProtect, Calm, Live

\* An answer ends an uncommitted write and begins none.
LEMMA ReplyUncommitted ==
  ASSUME TypeOK, NEW r \in Requests, NEW ans, Reply(r, ans)
  PROVE  \A q \in Uncommitted' :
           /\ q \in Uncommitted \ {r} /\ call'[q] = call[q] /\ pending'[q] = pending[q]
  BY DEF TypeOK, Reply, Uncommitted

LEMMA CalmActions ==
  ASSUME TypeOK, NEW r \in Requests,
         \/ Receive(r) \/ ReadOpenSession(r) \/ BreakWithoutSession(r) \/ ReadLastEvent(r)
         \/ AnswerDoubleTap(r) \/ WrongDirection(r) \/ OpenSessionOverlap(r) \/ CloseRefused(r)
         \/ RecordBreak(r) \/ ReadSession(r) \/ UpdateSessionOverlap(r) \/ Abandon(r)
  PROVE  Calm
<1>1. CASE Receive(r) BY <1>1 DEF Receive, Calm, Uncommitted, TypeOK, tables
<1>2. CASE ReadOpenSession(r) BY <1>2 DEF ReadOpenSession, Calm, Uncommitted, TypeOK, tables
<1>3. CASE ReadLastEvent(r) BY <1>3 DEF ReadLastEvent, Calm, Uncommitted, TypeOK, tables
<1>4. CASE ReadSession(r) BY <1>4 DEF ReadSession, Calm, Uncommitted, TypeOK, tables
<1>5. CASE RecordBreak(r) BY <1>5, ReplyUncommitted DEF RecordBreak, Calm
<1>6. ASSUME NEW ans, Rollback(r, ans) PROVE Calm
  BY <1>6, ReplyUncommitted DEF Rollback, Calm, tables
<1>7. QED
  BY <1>1, <1>2, <1>3, <1>4, <1>5, <1>6
  DEF BreakWithoutSession, AnswerDoubleTap, WrongDirection, OpenSessionOverlap, CloseRefused,
      UpdateSessionOverlap, Abandon, Refuse

\* No step lets two sessions of an employee overlap, nor a correction that has
\* written meet what anybody else commits.
LEMMA NoOverlapStep ==
  ASSUME TypeOK, HandlerState, LocksProtect, NoOverlap, [Next]_vars
  PROVE  NoOverlap' /\ LocksProtect'
<1>1. ASSUME NEW r \in Requests, OpenSession(r) PROVE NoOverlap' /\ LocksProtect'
  <2> DEFINE row == NewRow(r)
  <2>1. PICK s \in SessionIds \ Live :
          /\ ~MustWait(s, row) /\ ~Clashes(s, row)
          /\ sessions' = [sessions EXCEPT ![s] = row]
          /\ Reply(r, Answer("ok", s, row.in, None))
    BY <1>1 DEF OpenSession
  <2> HIDE DEF row
  <2>2. \A x \in Live \ {s} : sessions[x].emp = row.emp => ~Overlap(sessions[x], row)
    BY <2>1 DEF Clashes
  <2>3. \A q \in Uncommitted : pending[q].row.emp = row.emp => ~Overlap(pending[q].row, row)
    BY <2>1 DEF MustWait
  <2>4. Live' \subseteq Live \cup {s} /\ sessions'[s] = row
        /\ \A x \in Live : x # s /\ sessions'[x] = sessions[x]
    BY <2>1 DEF Live, TypeOK
  <2>5. NoOverlap' BY <2>2, <2>4, OverlapSymmetric DEF NoOverlap
  <2>6. \A q \in Uncommitted' : q \in Uncommitted /\ call'[q] = call[q] /\ pending'[q] = pending[q]
    BY <2>1, ReplyUncommitted
  <2>7. LocksProtect' BY <2>3, <2>4, <2>6, OverlapSymmetric DEF LocksProtect
  <2>8. QED BY <2>5, <2>7
<1>2. ASSUME NEW r \in Requests, CloseSession(r) PROVE NoOverlap' /\ LocksProtect'
  <2> DEFINE s   == found[r].id
             old == sessions[s]
             row == [old EXCEPT !.out = call[r].at]
  <2>1. /\ sessions' = [sessions EXCEPT ![s] = row]
        /\ old.out = None
        /\ Reply(r, Answer("ok", s, row.in, call[r].at))
    BY <1>2 DEF CloseSession, StillOpen
  <2>2. call[r] \in Calls /\ call[r].verb \in {"punch", "kiosk"} /\ call[r].at \in Int
    BY <1>2, CallType DEF CloseSession, Closing, IsPunch, HandlerState, HandlerStateOf, Busy
  <2>3. s \in Live /\ old \in SessionRow
    BY <1>2, <2>2 DEF CloseSession, Closing, HandlerState, HandlerStateOf, Live, TypeOK, Optional
  <2>4. row.emp = old.emp /\ \A b : Overlap(row, b) => Overlap(old, b)
    BY <2>1, <2>2, <2>3, ClosingShrinks DEF SessionRow
  <2>5. Live' \subseteq Live /\ sessions'[s] = row
        /\ \A x \in Live \ {s} : sessions'[x] = sessions[x]
    BY <2>1, <2>3 DEF Live, TypeOK
  <2>6. \A q \in Uncommitted' : q \in Uncommitted /\ call'[q] = call[q] /\ pending'[q] = pending[q]
    BY <2>1, ReplyUncommitted
  <2> HIDE DEF row
  <2>7. NoOverlap' BY <2>3, <2>4, <2>5, OverlapSymmetric DEF NoOverlap
  <2>8. LocksProtect' BY <2>3, <2>4, <2>5, <2>6, OverlapSymmetric DEF LocksProtect
  <2>9. QED BY <2>7, <2>8
<1>3. ASSUME NEW r \in Requests, UpdateSession(r) PROVE NoOverlap' /\ LocksProtect'
  <2> DEFINE s   == call[r].session
             row == CorrectedRow(r)
  <2>1. ~MustWait(s, row) /\ ~Clashes(s, row) BY <1>3 DEF UpdateSession
  <2>2. UNCHANGED <<sessions, call>> /\ Uncommitted' = Uncommitted \cup {r} /\ r \notin Uncommitted
    BY <1>3 DEF UpdateSession, Uncommitted, TypeOK, tables
  <2>3. pending'[r].row = row /\ \A q \in Uncommitted : pending'[q] = pending[q]
    BY <1>3, <2>2, RewriteType DEF TypeOK, Uncommitted
  <2> HIDE DEF row
  <2>4. NoOverlap' /\ Live' = Live BY <2>2 DEF NoOverlap, Live
  <2>5. \A x \in Live \ {s} : sessions[x].emp = row.emp => ~Overlap(sessions[x], row)
    BY <2>1 DEF Clashes
  <2>6. \A q \in Uncommitted :
          /\ call[q].session # s
          /\ pending[q].row.emp = row.emp => ~Overlap(pending[q].row, row)
    BY <2>1 DEF MustWait, Locked
  <2>7. LocksProtect'
    BY <2>2, <2>3, <2>4, <2>5, <2>6, OverlapSymmetric DEF LocksProtect
  <2>8. QED BY <2>4, <2>7
<1>4. ASSUME NEW r \in Requests, CommitCorrection(r) PROVE NoOverlap' /\ LocksProtect'
  <2> DEFINE s   == call[r].session
             row == pending[r].row
  <2>1. /\ sessions' = [sessions EXCEPT ![s] = row]
        /\ Reply(r, Answer("ok", s, row.in, row.out))
        /\ r \in Uncommitted
    BY <1>4 DEF CommitCorrection, Uncommitted
  <2>2. s \in Live BY <1>4 DEF CommitCorrection, HandlerState, HandlerStateOf
  <2>3. Live' \subseteq Live /\ sessions'[s] = row
        /\ \A x \in Live \ {s} : sessions'[x] = sessions[x]
    BY <2>1, <2>2 DEF Live, TypeOK
  <2>4. \A x \in Live \ {s} : sessions[x].emp = row.emp => ~Overlap(sessions[x], row)
    BY <2>1 DEF LocksProtect
  <2>5. \A q \in Uncommitted \ {r} :
          pending[q].row.emp = row.emp => ~Overlap(pending[q].row, row)
    BY <2>1 DEF LocksProtect
  <2>6. \A q \in Uncommitted' :
          q \in Uncommitted \ {r} /\ call'[q] = call[q] /\ pending'[q] = pending[q]
    BY <2>1, ReplyUncommitted
  <2>7. NoOverlap' BY <2>2, <2>3, <2>4, OverlapSymmetric DEF NoOverlap
  <2>8. LocksProtect' BY <2>2, <2>3, <2>5, <2>6, OverlapSymmetric DEF LocksProtect
  <2>9. QED BY <2>7, <2>8
<1>5. ASSUME UNCHANGED <<tables, locals>> PROVE NoOverlap' /\ LocksProtect'
  <2>1. Calm BY <1>5 DEF Calm, Uncommitted, tables, locals
  <2>2. QED BY <2>1, CalmStep
<1>6. QED
  BY <1>1, <1>2, <1>3, <1>4, <1>5, CalmActions, CalmStep
  DEF Next, Handle, Tick, SetTimezone, EditRoster, Quiesce, vars
--------------------------------------------------------------------------------
(* The theorems.                                                                *)

\* The inductive invariant: NoOverlap alone is not inductive, because a correction
\* commits a row that was checked an action earlier; LocksProtect carries the check
\* over, and HandlerState says whose session a stale read points to.
Inv == TypeOK /\ HandlerState /\ LocksProtect /\ NoOverlap

LEMMA InitInv == Init => Inv
<1> SUFFICES ASSUME Init PROVE Inv OBVIOUS
<1>1. now \in 0..MaxTime /\ timezone \in Optional(ZoneNames)
  BY PunchClockAssumption DEF Init, Optional
<1>2. LocalsType BY DEF Init, LocalsType, Optional, NoAnswer, AnswerRow, AnswerCodes
<1>3. TypeOK BY <1>1, <1>2 DEF Init, TypeOK, LocalsType, Optional
<1>4. HandlerState BY DEF Init, HandlerState, HandlerStateOf, Busy
<1>5. LocksProtect /\ NoOverlap BY DEF Init, LocksProtect, NoOverlap, Uncommitted, Live
<1>6. QED BY <1>3, <1>4, <1>5 DEF Inv

LEMMA InvStep == Inv /\ [Next]_vars => Inv'
  BY TypeOKStep, HandlerStateStep, NoOverlapStep DEF Inv

THEOREM Invariance == Spec => []Inv
  BY InitInv, InvStep, PTL DEF Spec

\* Every table, and what every request in flight keeps, has its shape, however many
\* requests interleave.
THEOREM TypeCorrect == Spec => []TypeOK
<1>1. Inv => TypeOK BY DEF Inv
<1>2. QED BY <1>1, Invariance, PTL

\* No two sessions of one employee overlap, for any number of employees, requests
\* and session ids, whatever is in flight together.
THEOREM SessionsNeverOverlap == Spec => []NoOverlap
<1>1. Inv => NoOverlap BY DEF Inv
<1>2. QED BY <1>1, Invariance, PTL

\* What a correction has written and not committed stays compatible with all that
\* others commit in the meantime.
THEOREM LocksAlwaysProtect == Spec => []LocksProtect
<1>1. Inv => LocksProtect BY DEF Inv
<1>2. QED BY <1>1, Invariance, PTL

\* An employee never has two open sessions: both would reach past every instant.
THEOREM OneOpenSession == Spec => []AtMostOneOpen
<1>1. NoOverlap => AtMostOneOpen
  BY DEF NoOverlap, AtMostOneOpen, OpenSessions, Overlap, Empty
<1>2. Inv => AtMostOneOpen BY <1>1 DEF Inv
<1>3. QED BY <1>2, Invariance, PTL
================================================================================
