---------------------------- MODULE PunchRecordProofs ----------------------------
(* Further proofs about PunchClock: what the event stream and the answers say   *)
(* of the sessions, that an employee's punches alternate, and that the sessions *)
(* table implements SessionLedger.                                              *)
EXTENDS PunchClockProofs
--------------------------------------------------------------------------------
(* What each of the four writes writes.                                         *)

\* An event that was appended, with the punches it adds.
Appended(event) ==
  /\ event \in EventRow
  /\ clocks' = Append(clocks, event)

LEMMA AppendedEvent ==
  ASSUME TypeOK, NEW event, Appended(event)
  PROVE  /\ DOMAIN clocks = 1..Len(clocks) /\ Len(clocks) \in Nat
         /\ DOMAIN clocks' = 1..(Len(clocks) + 1)
         /\ Len(clocks') = Len(clocks) + 1
         /\ clocks'[Len(clocks) + 1] = event
         /\ \A i \in DOMAIN clocks : clocks'[i] = clocks[i] /\ i # Len(clocks) + 1
  BY DEF TypeOK, Appended

LEMMA EventsTyped ==
  ASSUME TypeOK PROVE \A i \in DOMAIN clocks : clocks[i] \in EventRow /\ clocks[i].at \in Int
<1>1. \A i \in DOMAIN clocks : clocks[i] \in EventRow BY DEF TypeOK
<1>2. QED BY <1>1 DEF EventRow

LEMMA AppendedPunches ==
  ASSUME TypeOK, NEW event, Appended(event), NEW s, NEW dir
  PROVE  Punches(s, dir)' =
           IF event.session = s /\ event.dir = dir /\ ~event.isBreak
           THEN Punches(s, dir) \cup {Len(clocks) + 1} ELSE Punches(s, dir)
<1>1. \A i : i \in DOMAIN clocks' <=> i \in DOMAIN clocks \/ i = Len(clocks) + 1
  BY AppendedEvent
<1>2. QED BY <1>1, AppendedEvent DEF Punches

LEMMA OpenSessionWrites ==
  ASSUME Inv, NEW r \in Requests, OpenSession(r)
  PROVE  \E s \in SessionIds \ Live :
           /\ NewRow(r) \in SessionRow /\ NewRow(r) # None
           /\ sessions' = [sessions EXCEPT ![s] = NewRow(r)] /\ ~Clashes(s, NewRow(r))
           /\ Appended(Event(s, NewRow(r), call[r].at, "in", FALSE, SourceOf(r, "in")))
           /\ Reply(r, Answer("ok", s, call[r].at, None))
           /\ call[r] \in Calls /\ call[r].verb \in {"punch", "kiosk"}
           /\ pc[r] = "write" /\ UNCHANGED <<now, timezone, corrected>>
<1>1. call[r] \in Calls /\ call[r].verb \in {"punch", "kiosk"} /\ pc[r] = "write"
  BY DEF OpenSession, Opening, IsPunch, Inv, HandlerState, HandlerStateOf, Busy
<1>2. NewRow(r) \in SessionRow /\ NewRow(r) # None /\ NewRow(r).in = call[r].at
  BY <1>1, NewRowType
<1>3. PICK s \in SessionIds \ Live :
        /\ ~Clashes(s, NewRow(r))
        /\ sessions' = [sessions EXCEPT ![s] = NewRow(r)]
        /\ clocks' = Append(clocks, Event(s, NewRow(r), NewRow(r).in, "in", FALSE,
                                          SourceOf(r, "in")))
        /\ Reply(r, Answer("ok", s, NewRow(r).in, None))
  BY DEF OpenSession
<1>4. SourceOf(r, "in") \in PunchSources \cup {"kiosk", "admin"}
  BY <1>1, CallType DEF SourceOf
<1>5. call[r].at \in Int BY <1>1, CallType
<1>6. Event(s, NewRow(r), call[r].at, "in", FALSE, SourceOf(r, "in")) \in EventRow
  BY <1>2, <1>4, <1>5, EventType DEF Directions
<1>7. Appended(Event(s, NewRow(r), call[r].at, "in", FALSE, SourceOf(r, "in")))
  BY <1>2, <1>3, <1>6 DEF Appended
<1>8. UNCHANGED <<now, timezone, corrected>> BY DEF OpenSession, world
<1>9. QED BY <1>1, <1>2, <1>3, <1>7, <1>8

LEMMA CloseSessionWrites ==
  ASSUME Inv, NEW r \in Requests, CloseSession(r)
  PROVE  LET s   == found[r].id
             row == [sessions[s] EXCEPT !.out = call[r].at]
         IN  /\ s \in Live /\ s \in SessionIds /\ sessions[s] \in SessionRow
             /\ sessions[s].out = None /\ sessions[s].in <= call[r].at
             /\ found[r].row.in < call[r].at /\ found[r] # None
             /\ row \in SessionRow /\ row # None /\ row.emp = call[r].emp
             /\ sessions' = [sessions EXCEPT ![s] = row]
             /\ Appended(Event(s, row, call[r].at, "out", FALSE, SourceOf(r, "out")))
             /\ Reply(r, Answer("ok", s, row.in, call[r].at))
             /\ call[r] \in Calls /\ call[r].verb \in {"punch", "kiosk"}
             /\ pc[r] = "write" /\ UNCHANGED <<now, timezone, corrected>>
<1> DEFINE s   == found[r].id
           row == [sessions[s] EXCEPT !.out = call[r].at]
<1>1. /\ call[r] \in Calls /\ call[r].verb \in {"punch", "kiosk"} /\ pc[r] = "write"
      /\ s \in Live /\ sessions[s].emp = call[r].emp
      /\ found[r] # None /\ found[r] \in Reading
  BY DEF CloseSession, Closing, IsPunch, Inv, HandlerState, HandlerStateOf, Busy, TypeOK, Optional
<1>2. s \in SessionIds /\ sessions[s] \in SessionRow
  BY <1>1 DEF Live, Inv, TypeOK, Optional
<1>3. call[r].at \in Int /\ found[r].row.in \in Int BY <1>1, CallType DEF Reading, SessionRow
<1>4. row \in SessionRow BY <1>2, <1>3 DEF SessionRow, Optional
<1>5. row # None /\ row.emp = call[r].emp BY <1>1, <1>2, <1>4, RowAssumption DEF SessionRow
<1>6. SourceOf(r, "out") \in PunchSources \cup {"kiosk", "admin"}
  BY <1>1, CallType DEF SourceOf
<1>7. /\ call[r].at > found[r].row.in /\ StillOpen(s) /\ sessions[s].in <= call[r].at
      /\ sessions' = [sessions EXCEPT ![s] = row]
      /\ clocks' = Append(clocks, Event(s, row, call[r].at, "out", FALSE, SourceOf(r, "out")))
      /\ Reply(r, Answer("ok", s, row.in, call[r].at))
      /\ UNCHANGED <<now, timezone, corrected>>
  BY DEF CloseSession, world
<1> HIDE DEF row
<1>8. Event(s, row, call[r].at, "out", FALSE, SourceOf(r, "out")) \in EventRow
  BY <1>2, <1>3, <1>4, <1>6, EventType DEF Directions
<1> HIDE DEF s
<1>9. /\ s \in Live /\ s \in SessionIds /\ sessions[s] \in SessionRow
      /\ sessions[s].out = None /\ sessions[s].in <= call[r].at
      /\ found[r].row.in < call[r].at /\ found[r] # None
      /\ row \in SessionRow /\ row # None /\ row.emp = call[r].emp
      /\ sessions' = [sessions EXCEPT ![s] = row]
      /\ Appended(Event(s, row, call[r].at, "out", FALSE, SourceOf(r, "out")))
      /\ Reply(r, Answer("ok", s, row.in, call[r].at))
      /\ call[r] \in Calls /\ call[r].verb \in {"punch", "kiosk"}
      /\ pc[r] = "write" /\ UNCHANGED <<now, timezone, corrected>>
  BY <1>1, <1>2, <1>3, <1>4, <1>5, <1>7, <1>8 DEF StillOpen, Appended
<1>10. QED BY <1>9 DEF row, s

LEMMA RecordBreakWrites ==
  ASSUME Inv, NEW r \in Requests, RecordBreak(r)
  PROVE  /\ found[r].id \in Live /\ found[r].id \in SessionIds /\ found[r] # None
         /\ sessions[found[r].id].emp = call[r].emp /\ found[r].row.emp = call[r].emp
         /\ Appended(Event(found[r].id, found[r].row, call[r].at, call[r].dir, TRUE,
                           SourceOf(r, call[r].dir)))
         /\ Reply(r, Answer("ok", found[r].id, found[r].row.in, None))
         /\ call[r] \in Calls /\ call[r].verb = "break" /\ pc[r] = "write"
         /\ UNCHANGED <<now, timezone, sessions, rollup, corrected>>
<1>1. /\ call[r] \in Calls /\ call[r].verb = "break" /\ pc[r] = "write"
      /\ found[r].id \in Live /\ found[r] # None /\ found[r] \in Reading
      /\ sessions[found[r].id].emp = call[r].emp /\ found[r].row.emp = call[r].emp
  BY DEF RecordBreak, Inv, HandlerState, HandlerStateOf, Busy, TypeOK, Optional
<1>2. /\ call[r].at \in Int /\ call[r].dir \in Directions /\ found[r].id \in SessionIds
      /\ found[r].row \in SessionRow
  BY <1>1, CallType DEF Reading
<1>3. SourceOf(r, call[r].dir) \in PunchSources \cup {"kiosk", "admin"}
  BY <1>1 DEF SourceOf
<1>4. Event(found[r].id, found[r].row, call[r].at, call[r].dir, TRUE, SourceOf(r, call[r].dir))
        \in EventRow
  BY <1>2, <1>3, EventType
<1>5. QED BY <1>1, <1>2, <1>4 DEF RecordBreak, Appended, world

LEMMA CommitCorrectionWrites ==
  ASSUME Inv, NEW r \in Requests, CommitCorrection(r)
  PROVE  LET s == call[r].session IN
         /\ s \in Live /\ s \in SessionIds /\ call[r].verb = "correct"
         /\ pending[r] \in Rewrite /\ pending[r].row \in SessionRow /\ pending[r].row # None
         /\ pending[r].row.emp = sessions[s].emp
         /\ sessions' = [sessions EXCEPT ![s] = pending[r].row]
         /\ Reply(r, Answer("ok", s, pending[r].row.in, pending[r].row.out))
         /\ corrected' = corrected \cup {s}
         /\ pc[r] = "commit" /\ UNCHANGED <<now, timezone, clocks>>
<1>1. /\ call[r].verb = "correct" /\ call[r].session \in Live /\ pending[r] \in Rewrite
      /\ pending[r].row.emp = sessions[call[r].session].emp /\ pc[r] = "commit"
  BY DEF CommitCorrection, Inv, HandlerState, HandlerStateOf
<1>2. pending[r].row \in SessionRow /\ pending[r].row # None
  BY <1>1, RowAssumption DEF Rewrite
<1>3. QED BY <1>1, <1>2 DEF CommitCorrection, Live, world

\* Every other step leaves the sessions, the events and the rollup alone.
Writes(r) == OpenSession(r) \/ CloseSession(r) \/ RecordBreak(r) \/ CommitCorrection(r)
LEMMA QuietStep ==
  ASSUME [Next]_vars, \A r \in Requests : ~Writes(r)
  PROVE  UNCHANGED <<tables, corrected>>
  BY DEF Next, Handle, Writes, Receive, ReadOpenSession, BreakWithoutSession, ReadLastEvent,
         AnswerDoubleTap, WrongDirection, OpenSessionOverlap, CloseRefused, ReadSession,
         UpdateSession, UpdateSessionOverlap, Abandon, Refuse, Rollback, Tick, SetTimezone,
         EditRoster, Quiesce, vars, tables
--------------------------------------------------------------------------------
(* The event stream.                                                            *)

\* EventsExplainSessions without its cardinalities: one event punched a session in,
\* and, if it is closed, one punched it out.
EventsBelong ==
  \A i \in DOMAIN clocks :
    clocks[i].session \in Live /\ clocks[i].emp = sessions[clocks[i].session].emp
PunchedIn == \A s \in Live : \E j \in DOMAIN clocks : Punches(s, "in") = {j}
InFirst == \A i \in DOMAIN clocks : \A j \in Punches(clocks[i].session, "in") : j <= i
BoundsRecorded ==
  \A s \in Live \ corrected :
    /\ \A j \in Punches(s, "in") : clocks[j].at = sessions[s].in
    /\ sessions[s].out = None => Punches(s, "out") = {}
    /\ sessions[s].out # None =>
         \E j \in DOMAIN clocks : Punches(s, "out") = {j} /\ clocks[j].at = sessions[s].out
EventStream == EventsBelong /\ PunchedIn /\ InFirst /\ BoundsRecorded

LEMMA EventStreamExplains == EventStream => EventsExplainSessions
<1> SUFFICES ASSUME EventStream PROVE EventsExplainSessions OBVIOUS
<1>1. \A i \in DOMAIN clocks :
        /\ clocks[i].session \in Live
        /\ clocks[i].emp = sessions[clocks[i].session].emp
        /\ \E j \in Punches(clocks[i].session, "in") : j <= i
  BY DEF EventStream, EventsBelong, PunchedIn, InFirst
<1>2. \A s \in Live : Cardinality(Punches(s, "in")) = 1
  BY FS_Singleton DEF EventStream, PunchedIn
<1>3. ASSUME NEW s \in Live \ corrected
      PROVE  /\ {clocks[i].at : i \in Punches(s, "in")} = {sessions[s].in}
             /\ Cardinality(Punches(s, "out")) = Cardinality({sessions[s].out} \ {None})
             /\ {clocks[i].at : i \in Punches(s, "out")} = {sessions[s].out} \ {None}
  <2>1. {clocks[i].at : i \in Punches(s, "in")} = {sessions[s].in}
    BY DEF EventStream, PunchedIn, BoundsRecorded
  <2>2. CASE sessions[s].out = None
    <3>1. Punches(s, "out") = {} /\ {sessions[s].out} \ {None} = {}
      BY <2>2 DEF EventStream, BoundsRecorded
    <3>2. QED BY <2>1, <3>1
  <2>3. CASE sessions[s].out # None
    <3>1. PICK j \in DOMAIN clocks : Punches(s, "out") = {j} /\ clocks[j].at = sessions[s].out
      BY <2>3 DEF EventStream, BoundsRecorded
    <3>2. {sessions[s].out} \ {None} = {sessions[s].out} BY <2>3
    <3>3. Cardinality({j}) = 1 /\ Cardinality({sessions[s].out}) = 1 BY FS_Singleton
    <3>4. QED BY <2>1, <3>1, <3>2, <3>3
  <2>4. QED BY <2>2, <2>3
<1>4. QED BY <1>1, <1>2, <1>3 DEF EventsExplainSessions

\* A break of a live session adds no punch.
LEMMA BreakKeepsStream ==
  ASSUME Inv, EventStream, NEW r \in Requests, RecordBreak(r)
  PROVE  EventStream'
<1> DEFINE event == Event(found[r].id, found[r].row, call[r].at, call[r].dir, TRUE,
                          SourceOf(r, call[r].dir))
           n     == Len(clocks) + 1
<1>1. /\ found[r].id \in Live /\ sessions[found[r].id].emp = event.emp
      /\ Appended(event) /\ UNCHANGED <<sessions, corrected>>
      /\ event.session = found[r].id /\ event.isBreak = TRUE
  BY RecordBreakWrites DEF Event
<1> HIDE DEF event
<1>2. TypeOK BY DEF Inv
<1>3. \A s, dir : Punches(s, dir)' = Punches(s, dir) BY <1>1, <1>2, AppendedPunches
<1>4. /\ clocks'[n] = event /\ DOMAIN clocks = 1..Len(clocks) /\ Len(clocks) \in Nat
      /\ \A i \in DOMAIN clocks : clocks'[i] = clocks[i] /\ i < n
      /\ \A i \in DOMAIN clocks' : i = n \/ i \in DOMAIN clocks
  BY <1>1, <1>2, AppendedEvent
<1>5. Live' = Live BY <1>1 DEF Live
<1>6. EventsBelong' BY <1>1, <1>4, <1>5 DEF EventStream, EventsBelong
<1>7. \A s, dir : \A j \in Punches(s, dir) : j \in DOMAIN clocks BY DEF Punches
<1>8. DOMAIN clocks \subseteq DOMAIN clocks' BY <1>1, <1>2, AppendedEvent
<1>9. PunchedIn' BY <1>3, <1>5, <1>8 DEF EventStream, PunchedIn
<1>10. InFirst' BY <1>3, <1>4, <1>7 DEF EventStream, InFirst
<1>11. BoundsRecorded' BY <1>1, <1>3, <1>4, <1>5, <1>7, <1>8 DEF EventStream, BoundsRecorded
<1>12. QED BY <1>6, <1>9, <1>10, <1>11 DEF EventStream

\* An open starts the stream of a session that had no event.
LEMMA OpenKeepsStream ==
  ASSUME Inv, EventStream, NEW r \in Requests, OpenSession(r)
  PROVE  EventStream'
<1> DEFINE row == NewRow(r)
           n   == Len(clocks) + 1
<1>1. PICK s \in SessionIds \ Live :
        /\ row \in SessionRow /\ row # None
        /\ sessions' = [sessions EXCEPT ![s] = row]
        /\ Appended(Event(s, row, call[r].at, "in", FALSE, SourceOf(r, "in")))
        /\ UNCHANGED corrected
  BY OpenSessionWrites
<1>2. row.in = call[r].at /\ row.out = None BY DEF NewRow
<1> DEFINE event == Event(s, row, call[r].at, "in", FALSE, SourceOf(r, "in"))
<1>3. /\ Appended(event) /\ event.session = s /\ event.emp = row.emp /\ event.at = row.in
      /\ event.dir = "in" /\ event.isBreak = FALSE
  BY <1>1, <1>2 DEF Event
<1> HIDE DEF row, event
<1>4. TypeOK BY DEF Inv
<1>5. Live' = Live \cup {s} /\ sessions'[s] = row
      /\ \A x \in Live : x # s /\ sessions'[x] = sessions[x]
  BY <1>1, <1>4 DEF Live, TypeOK
<1>6. /\ clocks'[n] = event /\ DOMAIN clocks = 1..Len(clocks) /\ Len(clocks) \in Nat
      /\ \A i \in DOMAIN clocks : clocks'[i] = clocks[i] /\ i < n
      /\ \A i \in DOMAIN clocks' : i = n \/ i \in DOMAIN clocks
      /\ n \in DOMAIN clocks' /\ DOMAIN clocks \subseteq DOMAIN clocks'
  BY <1>3, <1>4, AppendedEvent
<1>7. \A dir : Punches(s, dir) = {}
  BY DEF EventStream, EventsBelong, Punches
<1>8. Punches(s, "in")' = {n} /\ Punches(s, "out")' = {}
  BY <1>3, <1>4, <1>7, AppendedPunches
<1>9. \A x \in Live : \A dir : Punches(x, dir)' = Punches(x, dir)
  BY <1>3, <1>4, <1>5, AppendedPunches
<1>10. \A x, dir : \A j \in Punches(x, dir) : j \in DOMAIN clocks BY DEF Punches
<1>11. EventsBelong' BY <1>3, <1>5, <1>6 DEF EventStream, EventsBelong
<1>12. PunchedIn' BY <1>5, <1>6, <1>8, <1>9 DEF EventStream, PunchedIn
<1>13. InFirst'
  BY <1>3, <1>6, <1>8, <1>9 DEF EventStream, InFirst, EventsBelong
<1>14. BoundsRecorded'
  <2>1. \A x \in Live : x \notin corrected =>
          /\ \A j \in Punches(x, "in")' : clocks'[j].at = sessions'[x].in
          /\ sessions'[x].out = None => Punches(x, "out")' = {}
          /\ sessions'[x].out # None =>
               \E j \in DOMAIN clocks' :
                 Punches(x, "out")' = {j} /\ clocks'[j].at = sessions'[x].out
    BY <1>5, <1>6, <1>9, <1>10 DEF EventStream, BoundsRecorded
  <2>2. /\ \A j \in Punches(s, "in")' : clocks'[j].at = sessions'[s].in
        /\ sessions'[s].out = None /\ Punches(s, "out")' = {}
    BY <1>2, <1>3, <1>5, <1>6, <1>8
  <2>3. QED BY <1>1, <1>5, <2>1, <2>2 DEF BoundsRecorded
<1>15. QED BY <1>11, <1>12, <1>13, <1>14 DEF EventStream

\* A close records the one punch-out of a session that had none.
LEMMA CloseKeepsStream ==
  ASSUME Inv, EventStream, NEW r \in Requests, CloseSession(r)
  PROVE  EventStream'
<1>1. PICK s \in Live, row \in SessionRow, event \in EventRow :
        /\ s \in SessionIds /\ sessions[s] \in SessionRow /\ sessions[s].out = None
        /\ row = [sessions[s] EXCEPT !.out = call[r].at] /\ row # None
        /\ sessions' = [sessions EXCEPT ![s] = row]
        /\ event = Event(s, row, call[r].at, "out", FALSE, SourceOf(r, "out"))
        /\ Appended(event) /\ UNCHANGED corrected
  <2> DEFINE s   == found[r].id
             row == [sessions[s] EXCEPT !.out = call[r].at]
             event == Event(s, row, call[r].at, "out", FALSE, SourceOf(r, "out"))
  <2>1. /\ s \in Live /\ s \in SessionIds /\ sessions[s] \in SessionRow /\ sessions[s].out = None
        /\ row \in SessionRow /\ row # None
        /\ sessions' = [sessions EXCEPT ![s] = row]
        /\ Appended(event) /\ UNCHANGED corrected
    BY CloseSessionWrites
  <2>2. event \in EventRow BY <2>1 DEF Appended
  <2>3. row = [sessions[s] EXCEPT !.out = call[r].at]
        /\ event = Event(s, row, call[r].at, "out", FALSE, SourceOf(r, "out"))
    OBVIOUS
  <2> HIDE DEF s, row, event
  <2>4. QED BY <2>1, <2>2, <2>3
<1> DEFINE n == Len(clocks) + 1
<1>2. row.in = sessions[s].in /\ row.emp = sessions[s].emp /\ row.out = call[r].at
  BY <1>1 DEF SessionRow
<1>3. /\ event.session = s /\ event.emp = row.emp /\ event.at = row.out
      /\ event.dir = "out" /\ event.isBreak = FALSE
  BY <1>1, <1>2 DEF Event
<1>4. event.at # None BY NoneAssumption DEF EventRow
<1>5. TypeOK /\ Appended(event) BY <1>1 DEF Inv
<1>6. Live' = Live /\ sessions'[s] = row /\ \A x \in Live \ {s} : sessions'[x] = sessions[x]
  BY <1>1, <1>5 DEF Live, TypeOK
<1>7. /\ clocks'[n] = event /\ DOMAIN clocks = 1..Len(clocks) /\ Len(clocks) \in Nat
      /\ \A i \in DOMAIN clocks : clocks'[i] = clocks[i] /\ i < n
      /\ \A i \in DOMAIN clocks' : i = n \/ i \in DOMAIN clocks
      /\ n \in DOMAIN clocks' /\ DOMAIN clocks \subseteq DOMAIN clocks'
  BY <1>5, AppendedEvent
<1>8. /\ \A x : Punches(x, "in")' = Punches(x, "in")
      /\ \A x : x # s => Punches(x, "out")' = Punches(x, "out")
      /\ Punches(s, "out")' = Punches(s, "out") \cup {n}
  <2>1. \A x, dir : Punches(x, dir)' =
          IF x = s /\ dir = "out" THEN Punches(x, dir) \cup {n} ELSE Punches(x, dir)
    BY <1>3, <1>5, AppendedPunches
  <2>2. \A x : Punches(x, "in")' = Punches(x, "in") BY <2>1
  <2>3. \A x : x # s => Punches(x, "out")' = Punches(x, "out") BY <2>1
  <2>4. Punches(s, "out")' = Punches(s, "out") \cup {n} BY <2>1
  <2>5. QED BY <2>2, <2>3, <2>4
<1>9. \A x, dir : \A j \in Punches(x, dir) : j \in DOMAIN clocks BY DEF Punches
<1>10. EventsBelong'
  <2>1. clocks'[n].session = s /\ clocks'[n].emp = sessions'[s].emp /\ s \in Live'
    BY <1>2, <1>3, <1>6, <1>7
  <2>2. \A x \in Live : sessions'[x].emp = sessions[x].emp BY <1>2, <1>6
  <2>3. QED BY <1>6, <1>7, <2>1, <2>2 DEF EventStream, EventsBelong
<1>11. PunchedIn' BY <1>6, <1>7, <1>8 DEF EventStream, PunchedIn
<1>12. InFirst' BY <1>7, <1>8, <1>9 DEF EventStream, InFirst
<1>13. BoundsRecorded'
  <2>1. \A x \in Live \ {s} : x \notin corrected =>
          /\ \A j \in Punches(x, "in")' : clocks'[j].at = sessions'[x].in
          /\ sessions'[x].out = None => Punches(x, "out")' = {}
          /\ sessions'[x].out # None =>
               \E j \in DOMAIN clocks' :
                 Punches(x, "out")' = {j} /\ clocks'[j].at = sessions'[x].out
    BY <1>6, <1>7, <1>8, <1>9 DEF EventStream, BoundsRecorded
  <2>2. s \notin corrected =>
          /\ \A j \in Punches(s, "in")' : clocks'[j].at = sessions'[s].in
          /\ sessions'[s].out # None
          /\ Punches(s, "out")' = {n} /\ clocks'[n].at = sessions'[s].out
    <3> SUFFICES ASSUME s \notin corrected
                 PROVE  /\ \A j \in Punches(s, "in")' : clocks'[j].at = sessions'[s].in
                        /\ sessions'[s].out # None
                        /\ Punches(s, "out")' = {n} /\ clocks'[n].at = sessions'[s].out
      OBVIOUS
    <3>1. /\ \A j \in Punches(s, "in") : clocks[j].at = sessions[s].in
          /\ Punches(s, "out") = {}
      BY <1>1 DEF EventStream, BoundsRecorded
    <3>2. \A j \in Punches(s, "in")' : clocks'[j].at = sessions'[s].in
      BY <1>2, <1>6, <1>7, <1>8, <1>9, <3>1
    <3>3. Punches(s, "out")' = {n} BY <1>8, <3>1
    <3>4. sessions'[s].out # None /\ clocks'[n].at = sessions'[s].out
      BY <1>3, <1>4, <1>6, <1>7
    <3>5. QED BY <3>2, <3>3, <3>4
  <2>3. s \notin corrected => \E j \in DOMAIN clocks' :
          Punches(s, "out")' = {j} /\ clocks'[j].at = sessions'[s].out
    BY <1>7, <2>2
  <2> HIDE DEF n
  <2>4. QED BY <1>1, <1>6, <2>1, <2>2, <2>3 DEF BoundsRecorded
<1>14. QED BY <1>10, <1>11, <1>12, <1>13 DEF EventStream

LEMMA EventStreamStep ==
  ASSUME Inv, EventStream, [Next]_vars
  PROVE  EventStream'
<1>1. ASSUME NEW r \in Requests, CommitCorrection(r) PROVE EventStream'
  <2>1. /\ \A x \in Live : x # call[r].session => sessions'[x] = sessions[x]
        /\ Live' = Live /\ \A x \in Live : sessions'[x].emp = sessions[x].emp
        /\ corrected' = corrected \cup {call[r].session} /\ UNCHANGED clocks
    BY <1>1, CommitCorrectionWrites DEF Inv, TypeOK, Live
  <2>2. \A x, dir : Punches(x, dir)' = Punches(x, dir) BY <2>1 DEF Punches
  <2>3. QED BY <2>1, <2>2 DEF EventStream, EventsBelong, PunchedIn, InFirst, BoundsRecorded
<1>2. ASSUME \A r \in Requests : ~Writes(r) PROVE EventStream'
  <2>1. UNCHANGED <<sessions, clocks, corrected>> BY <1>2, QuietStep DEF tables
  <2>2. Live' = Live /\ \A x, dir : Punches(x, dir)' = Punches(x, dir)
    BY <2>1 DEF Live, Punches
  <2>3. QED BY <2>1, <2>2 DEF EventStream, EventsBelong, PunchedIn, InFirst, BoundsRecorded
<1>3. QED
  BY <1>1, <1>2, OpenKeepsStream, CloseKeepsStream, BreakKeepsStream DEF Writes
--------------------------------------------------------------------------------
(* Punctuality.                                                                 *)

\* A punch was not in the future when it was accepted, and the clock only advances.
Punctual ==
  \A r \in Requests :
    Busy(r) /\ call[r].verb # "correct" => call[r].at <= now + PunchClockSkew

LEMMA ClockAdvances ==
  ASSUME TypeOK, [Next]_vars
  PROVE  now \in Int /\ now' \in Int /\ now <= now'
<1>1. now \in Int BY PunchClockAssumption DEF TypeOK
<1>2. CASE Tick BY <1>1, <1>2 DEF Tick
<1>3. CASE ~Tick
  <2>1. UNCHANGED now
    BY <1>3
    DEF Next, Handle, Receive, ReadOpenSession, BreakWithoutSession, ReadLastEvent, AnswerDoubleTap,
        WrongDirection, OpenSession, OpenSessionOverlap, CloseSession, CloseRefused, RecordBreak,
        ReadSession, UpdateSession, UpdateSessionOverlap, CommitCorrection, Abandon, Refuse,
        Rollback, SetTimezone, EditRoster, Quiesce, vars, world
  <2>2. QED BY <1>1, <2>1
<1>4. QED BY <1>2, <1>3

\* A request in flight keeps the call it came with.
LEMMA CallsKept ==
  ASSUME TypeOK, [Next]_vars, NEW q \in Requests, Busy(q)', ~Receive(q)
  PROVE  Busy(q) /\ call'[q] = call[q]
<1>1. ASSUME NEW r \in Requests, NEW ans, Reply(r, ans) PROVE Busy(q) /\ call'[q] = call[q]
  BY <1>1 DEF Reply, Busy, TypeOK
<1>2. ASSUME NEW r \in Requests, Receive(r) PROVE Busy(q) /\ call'[q] = call[q]
  BY <1>2 DEF Receive, Busy, TypeOK
<1>3. ASSUME NEW r \in Requests,
             ReadOpenSession(r) \/ ReadLastEvent(r) \/ ReadSession(r) \/ UpdateSession(r)
      PROVE  Busy(q) /\ call'[q] = call[q]
  BY <1>3 DEF ReadOpenSession, ReadLastEvent, ReadSession, UpdateSession, Busy, TypeOK
<1>4. ASSUME NEW r \in Requests, Handle(r) \/ Abandon(r) PROVE Busy(q) /\ call'[q] = call[q]
  BY <1>1, <1>3, <1>4
  DEF Handle, BreakWithoutSession, AnswerDoubleTap, WrongDirection, OpenSession,
      OpenSessionOverlap, CloseSession, CloseRefused, RecordBreak, UpdateSessionOverlap,
      CommitCorrection, Abandon, Refuse, Rollback
<1>5. CASE UNCHANGED <<pc, call>> BY <1>5 DEF Busy
<1>6. QED
  BY <1>2, <1>4, <1>5 DEF Next, Tick, SetTimezone, EditRoster, Quiesce, vars, locals

LEMMA PunctualStep ==
  ASSUME Inv, Punctual, [Next]_vars
  PROVE  Punctual'
<1> SUFFICES ASSUME NEW q \in Requests, Busy(q)', call'[q].verb # "correct"
             PROVE  call'[q].at <= now' + PunchClockSkew
  BY DEF Punctual
<1>1. now \in Int /\ now' \in Int /\ now <= now' /\ PunchClockSkew \in Int
  BY ClockAdvances, PunchPolicyAssumption DEF Inv
<1>2. CASE Receive(q)
  <2>1. PICK c \in Calls : Accepted(c) /\ call' = [call EXCEPT ![q] = c] /\ UNCHANGED now
    BY <1>2 DEF Receive, world
  <2>2. call'[q] = c BY <2>1 DEF Inv, TypeOK
  <2>3. c.verb \in {"punch", "kiosk", "break"} BY <2>2, CallType
  <2>4. c.at <= now + PunchClockSkew
    <3>1. c.at \in Int BY <2>3, CallType
    <3>2. \E reasoned \in BOOLEAN : ValidatePunchTime(c.at, reasoned, now) = "ok"
      BY <2>1, <2>3 DEF Accepted
    <3>3. ~(c.at > now + PunchClockSkew) BY <3>2 DEF ValidatePunchTime
    <3>4. QED BY <1>1, <3>1, <3>3
  <2>5. QED BY <2>1, <2>2, <2>4
<1>3. CASE ~Receive(q)
  <2>1. Busy(q) /\ call'[q] = call[q] BY <1>3, CallsKept DEF Inv
  <2>2. call[q].at \in Int
    BY <2>1, CallType DEF Inv, HandlerState, HandlerStateOf
  <2>3. QED BY <1>1, <2>1, <2>2 DEF Punctual
<1>4. QED BY <1>2, <1>3

LEMMA NoFuturePunchStep ==
  ASSUME Inv, Punctual, NoFuturePunch, [Next]_vars
  PROVE  NoFuturePunch'
<1>1. now \in Int /\ now' \in Int /\ now <= now' /\ PunchClockSkew \in Int
  BY ClockAdvances, PunchPolicyAssumption DEF Inv
<1>2. ASSUME NEW event, Appended(event), event.at <= now + PunchClockSkew
      PROVE  NoFuturePunch'
  <2>1. ASSUME NEW i \in DOMAIN clocks'
        PROVE  clocks'[i] = event \/ (i \in DOMAIN clocks /\ clocks'[i] = clocks[i])
    <3>1. TypeOK /\ Appended(event) BY <1>2 DEF Inv
    <3>2. i \in DOMAIN clocks \/ i = Len(clocks) + 1 BY <3>1, AppendedEvent
    <3>3. QED BY <3>1, <3>2, AppendedEvent
  <2>2. \A i \in DOMAIN clocks : clocks[i].at \in Int BY EventsTyped DEF Inv
  <2>3. event.at \in Int BY <1>2 DEF Appended, EventRow
  <2>4. QED BY <1>1, <1>2, <2>1, <2>2, <2>3 DEF NoFuturePunch
<1>3. ASSUME NEW r \in Requests, OpenSession(r) \/ CloseSession(r) \/ RecordBreak(r)
      PROVE  NoFuturePunch'
  <2>1. \E event : Appended(event) /\ event.at = call[r].at
    <3>1. ASSUME NEW s, NEW row, NEW dir, NEW isBreak, NEW source,
                 Appended(Event(s, row, call[r].at, dir, isBreak, source))
          PROVE  \E event : Appended(event) /\ event.at = call[r].at
      <4> DEFINE event == Event(s, row, call[r].at, dir, isBreak, source)
      <4>1. Appended(event) /\ event.at = call[r].at BY <3>1 DEF Event
      <4> HIDE DEF event
      <4>2. QED BY <4>1
    <3>2. CASE OpenSession(r) BY <3>1, <3>2, OpenSessionWrites
    <3>3. CASE CloseSession(r) BY <3>1, <3>3, CloseSessionWrites
    <3>4. CASE RecordBreak(r) BY <3>1, <3>4, RecordBreakWrites
    <3>5. QED BY <1>3, <3>2, <3>3, <3>4
  <2>2. call[r].at <= now + PunchClockSkew
    BY <1>3, OpenSessionWrites, CloseSessionWrites, RecordBreakWrites DEF Punctual, Busy
  <2>3. QED BY <1>2, <2>1, <2>2
<1>4. ASSUME UNCHANGED clocks PROVE NoFuturePunch'
  <2>1. \A i \in DOMAIN clocks : clocks[i].at \in Int BY EventsTyped DEF Inv
  <2>2. QED BY <1>1, <1>4, <2>1 DEF NoFuturePunch
<1>5. QED BY <1>3, <1>4, CommitCorrectionWrites, QuietStep DEF Writes, tables
--------------------------------------------------------------------------------
(* Answers.                                                                     *)

\* What a request has read of a session that no correction has touched is still so.
FreshReads ==
  \A r \in Requests :
    pc[r] \in {"last", "write"} /\ found[r] # None /\ found[r].id \notin corrected =>
      found[r].row.in = sessions[found[r].id].in
AnswersLive == \A r \in Requests : answer[r].code = "ok" => answer[r].session \in Live

\* A check-in changes by a correction only, and so does a check-out once it is set.
BoundsStand ==
  /\ corrected \subseteq corrected'
  /\ \A s \in Live \ corrected' :
       /\ s \in Live' /\ sessions'[s].in = sessions[s].in
       /\ sessions[s].out # None => sessions'[s].out = sessions[s].out

LEMMA BoundsStandStep ==
  ASSUME Inv, [Next]_vars
  PROVE  BoundsStand
<1>1. ASSUME NEW r \in Requests, OpenSession(r) PROVE BoundsStand
  BY <1>1, OpenSessionWrites DEF BoundsStand, Live, Inv, TypeOK
<1>2. ASSUME NEW r \in Requests, CloseSession(r) PROVE BoundsStand
  <2> DEFINE s   == found[r].id
             row == [sessions[s] EXCEPT !.out = call[r].at]
  <2>1. /\ s \in Live /\ sessions[s] \in SessionRow /\ sessions[s].out = None
        /\ row # None /\ sessions' = [sessions EXCEPT ![s] = row] /\ UNCHANGED corrected
    BY <1>2, CloseSessionWrites
  <2>2. row.in = sessions[s].in BY <2>1 DEF SessionRow
  <2> HIDE DEF row, s
  <2>3. QED BY <2>1, <2>2 DEF BoundsStand, Live, Inv, TypeOK
<1>3. ASSUME NEW r \in Requests, RecordBreak(r) PROVE BoundsStand
  BY <1>3, RecordBreakWrites DEF BoundsStand, Live
<1>4. ASSUME NEW r \in Requests, CommitCorrection(r) PROVE BoundsStand
  BY <1>4, CommitCorrectionWrites DEF BoundsStand, Live, Inv, TypeOK
<1>5. ASSUME \A r \in Requests : ~Writes(r) PROVE BoundsStand
  BY <1>5, QuietStep DEF BoundsStand, Live, tables
<1>6. QED BY <1>1, <1>2, <1>3, <1>4, <1>5 DEF Writes

\* What an answer does to the requests.
LEMMA ReplyEffect ==
  ASSUME Inv, NEW r \in Requests, NEW ans, Reply(r, ans)
  PROVE  /\ answer'[r] = ans /\ pc'[r] = "done"
         /\ \A q \in Requests \ {r} :
              answer'[q] = answer[q] /\ pc'[q] = pc[q] /\ found'[q] = found[q]
  BY DEF Reply, Inv, TypeOK

\* A request has read a session just now, or had read it before this step.
LEMMA ReadsKept ==
  ASSUME Inv, [Next]_vars, NEW q \in Requests, pc'[q] \in {"last", "write"}
  PROVE  ReadOpenSession(q) \/ (pc[q] \in {"last", "write"} /\ found'[q] = found[q])
<1> SUFFICES ASSUME ~ReadOpenSession(q)
             PROVE  pc[q] \in {"last", "write"} /\ found'[q] = found[q]
  OBVIOUS
<1>1. ASSUME NEW r \in Requests, NEW ans, Reply(r, ans)
      PROVE  pc[q] \in {"last", "write"} /\ found'[q] = found[q]
  BY <1>1, ReplyEffect
<1>2. ASSUME NEW r \in Requests, Receive(r)
      PROVE  pc[q] \in {"last", "write"} /\ found'[q] = found[q]
  BY <1>2 DEF Receive, Inv, TypeOK
<1>3. ASSUME NEW r \in Requests, ReadOpenSession(r)
      PROVE  pc[q] \in {"last", "write"} /\ found'[q] = found[q]
  <2>1. r # q => pc'[q] = pc[q] /\ found'[q] = found[q]
    BY <1>3 DEF ReadOpenSession, Inv, TypeOK
  <2>2. QED BY <1>3, <2>1
<1>4. ASSUME NEW r \in Requests, ReadLastEvent(r) \/ ReadSession(r) \/ UpdateSession(r)
      PROVE  pc[q] \in {"last", "write"} /\ found'[q] = found[q]
  BY <1>4 DEF ReadLastEvent, ReadSession, UpdateSession, Inv, TypeOK
<1>5. ASSUME NEW r \in Requests, Handle(r) \/ Abandon(r)
      PROVE  pc[q] \in {"last", "write"} /\ found'[q] = found[q]
  BY <1>1, <1>3, <1>4, <1>5
  DEF Handle, BreakWithoutSession, AnswerDoubleTap, WrongDirection, OpenSession,
      OpenSessionOverlap, CloseSession, CloseRefused, RecordBreak, UpdateSessionOverlap,
      CommitCorrection, Abandon, Refuse, Rollback
<1>6. CASE UNCHANGED <<pc, found>> BY <1>6
<1>7. CASE Tick \/ SetTimezone \/ EditRoster \/ Quiesce \/ UNCHANGED vars
  BY <1>6, <1>7 DEF Tick, SetTimezone, EditRoster, Quiesce, vars, locals
<1>8. QED BY <1>2, <1>5, <1>7 DEF Next

LEMMA FreshReadsStep ==
  ASSUME Inv, FreshReads, [Next]_vars
  PROVE  FreshReads'
<1> SUFFICES ASSUME NEW q \in Requests, pc'[q] \in {"last", "write"}, found'[q] # None,
                    found'[q].id \notin corrected'
             PROVE  found'[q].row.in = sessions'[found'[q].id].in
  BY DEF FreshReads
<1>1. CASE ReadOpenSession(q)
  <2>1. found'[q] \in FindOpenSession(call[q].emp) /\ UNCHANGED sessions
    BY <1>1 DEF ReadOpenSession, Inv, TypeOK, tables
  <2>2. sessions[found'[q].id] = found'[q].row BY <2>1, FindOpenType DEF Inv
  <2>3. QED BY <2>1, <2>2
<1>2. CASE pc[q] \in {"last", "write"} /\ found'[q] = found[q]
  <2>1. found[q].id \in Live BY <1>2 DEF Inv, HandlerState, HandlerStateOf
  <2>2. sessions'[found[q].id].in = sessions[found[q].id].in /\ found[q].id \notin corrected
    BY <1>2, <2>1, BoundsStandStep DEF BoundsStand
  <2>3. QED BY <1>2, <2>2 DEF FreshReads
<1>3. QED BY <1>1, <1>2, ReadsKept

\* A request answers Ok in one of the four writes only.
LEMMA OkAnswers ==
  ASSUME Inv, [Next]_vars, NEW q \in Requests, answer'[q] # answer[q], answer'[q].code = "ok"
  PROVE  Writes(q)
<1>1. ASSUME NEW r \in Requests, NEW ans, Reply(r, ans)
      PROVE  r = q /\ ans.code = "ok"
  BY <1>1, ReplyEffect
<1>2. ASSUME NEW r \in Requests, NEW code, Refuse(r, code) PROVE code = "ok"
  BY <1>1, <1>2 DEF Refuse, Rollback, Answer
<1>3. ASSUME NEW r \in Requests, Handle(r) \/ Abandon(r) PROVE Writes(q)
  <2>1. CASE Writes(r)
    BY <1>1, <2>1 DEF Writes, OpenSession, CloseSession, RecordBreak, CommitCorrection
  <2>2. CASE AnswerDoubleTap(r) BY <1>1, <2>2 DEF AnswerDoubleTap, Rollback, Answer
  <2>3. CASE \/ BreakWithoutSession(r) \/ OpenSessionOverlap(r) \/ CloseRefused(r)
             \/ UpdateSessionOverlap(r) \/ Abandon(r)
    BY <1>2, <2>3
    DEF BreakWithoutSession, OpenSessionOverlap, CloseRefused, UpdateSessionOverlap, Abandon
  <2>4. CASE WrongDirection(r)
    <3>1. \E code \in {"session_still_open", "no_open_session"} : Refuse(r, code)
      BY <2>4 DEF WrongDirection
    <3>2. QED BY <1>2, <3>1
  <2>5. CASE ReadOpenSession(r) \/ ReadLastEvent(r) \/ ReadSession(r) \/ UpdateSession(r)
    BY <2>5 DEF ReadOpenSession, ReadLastEvent, ReadSession, UpdateSession
  <2>6. QED BY <1>3, <2>1, <2>2, <2>3, <2>4, <2>5 DEF Handle, Writes
<1>4. QED
  BY <1>3 DEF Next, Receive, Tick, SetTimezone, EditRoster, Quiesce, vars, locals

AnswerTrue(q) ==
  answer[q].code = "ok" =>
    /\ answer[q].session \in Live
    /\ answer[q].session \notin corrected =>
         /\ sessions[answer[q].session].in = answer[q].in
         /\ answer[q].out # None => sessions[answer[q].session].out = answer[q].out

LEMMA AnswersStep ==
  ASSUME Inv, FreshReads, AnswersLive, AnswersHold, [Next]_vars
  PROVE  AnswersLive' /\ AnswersHold'
<1>1. ASSUME NEW q \in Requests, answer'[q] = answer[q] PROVE AnswerTrue(q)'
  <2>1. SUFFICES ASSUME answer[q].code = "ok"
                 PROVE  /\ answer[q].session \in Live'
                        /\ answer[q].session \notin corrected' =>
                             /\ sessions'[answer[q].session].in = answer[q].in
                             /\ answer[q].out # None =>
                                  sessions'[answer[q].session].out = answer[q].out
    BY <1>1 DEF AnswerTrue
  <2>2. answer[q].session \in Live BY <2>1 DEF AnswersLive
  <2>3. answer[q].session \in Live'
    BY <2>2, OwnersKeptStep DEF OwnersKept, Inv
  <2>4. QED BY <2>1, <2>2, <2>3, BoundsStandStep DEF AnswersHold, BoundsStand
<1>2. ASSUME NEW q \in Requests, answer'[q] # answer[q] PROVE AnswerTrue(q)'
  <2> SUFFICES ASSUME answer'[q].code = "ok" PROVE AnswerTrue(q)' BY DEF AnswerTrue
  <2>1. CASE OpenSession(q)
    <3>1. PICK s \in SessionIds \ Live :
            /\ sessions' = [sessions EXCEPT ![s] = NewRow(q)] /\ NewRow(q) # None
            /\ Reply(q, Answer("ok", s, call[q].at, None))
      BY <2>1, OpenSessionWrites
    <3>2. answer'[q] = Answer("ok", s, call[q].at, None) BY <3>1, ReplyEffect
    <3>3. sessions'[s] = NewRow(q) /\ s \in Live' BY <3>1 DEF Inv, TypeOK, Live
    <3>4. QED BY <3>2, <3>3 DEF AnswerTrue, Answer, NewRow
  <2>2. CASE CloseSession(q)
    <3>1. PICK s \in Live, row \in SessionRow :
            /\ sessions[s] \in SessionRow /\ row = [sessions[s] EXCEPT !.out = call[q].at]
            /\ sessions' = [sessions EXCEPT ![s] = row]
            /\ Reply(q, Answer("ok", s, row.in, call[q].at))
      BY <2>2, CloseSessionWrites
    <3>2. answer'[q] = Answer("ok", s, row.in, call[q].at) BY <3>1, ReplyEffect
    <3>3. sessions'[s] = row /\ s \in Live' BY <3>1, RowAssumption DEF Inv, TypeOK, Live
    <3>4. row.out = call[q].at BY <3>1 DEF SessionRow
    <3>5. QED BY <3>2, <3>3, <3>4 DEF AnswerTrue, Answer
  <2>3. CASE RecordBreak(q)
    <3>1. /\ found[q].id \in Live /\ found[q] # None /\ pc[q] = "write"
          /\ answer'[q] = Answer("ok", found[q].id, found[q].row.in, None)
          /\ UNCHANGED <<sessions, corrected>>
      BY <2>3, RecordBreakWrites, ReplyEffect
    <3>2. Live' = Live BY <3>1 DEF Live
    <3>3. found[q].id \notin corrected => found[q].row.in = sessions[found[q].id].in
      BY <3>1 DEF FreshReads
    <3>4. QED BY <3>1, <3>2, <3>3 DEF AnswerTrue, Answer
  <2>4. CASE CommitCorrection(q)
    <3>1. /\ call[q].session \in Live /\ corrected' = corrected \cup {call[q].session}
          /\ answer'[q] = Answer("ok", call[q].session, pending[q].row.in, pending[q].row.out)
      BY <2>4, CommitCorrectionWrites, ReplyEffect
    <3>2. call[q].session \in Live' BY <3>1, OwnersKeptStep DEF OwnersKept, Inv
    <3>3. QED BY <3>1, <3>2 DEF AnswerTrue, Answer
  <2>5. QED BY <1>2, <2>1, <2>2, <2>3, <2>4, OkAnswers DEF Writes
<1>3. QED BY <1>1, <1>2 DEF AnswerTrue, AnswersLive, AnswersHold
--------------------------------------------------------------------------------
(* Whose sessions a request touches.                                            *)

OwnSession(r) ==
  Served(r) /\ call[r].verb # "correct" =>
    /\ sessions'[answer'[r].session].emp = call[r].emp
    /\ \A s \in Live : sessions'[s] # sessions[s] => sessions[s].emp = call[r].emp
    /\ clocks' # clocks => clocks'[Len(clocks')].emp = call[r].emp

\* A request is served in one of the four writes, or as a double tap.
LEMMA ServedBy ==
  ASSUME Inv, [Next]_vars, NEW q \in Requests, Served(q)
  PROVE  Writes(q) \/ AnswerDoubleTap(q)
<1>1. ASSUME NEW r \in Requests, NEW ans, Reply(r, ans)
      PROVE  r = q /\ ans.session # None
  BY <1>1, ReplyEffect DEF Served
<1>2. ASSUME NEW r \in Requests, NEW code, Refuse(r, code) PROVE FALSE
  BY <1>1, <1>2 DEF Refuse, Rollback, Answer
<1>3. ASSUME NEW r \in Requests, Handle(r) \/ Abandon(r)
      PROVE  Writes(q) \/ AnswerDoubleTap(q)
  <2>1. CASE Writes(r)
    BY <1>1, <2>1 DEF Writes, OpenSession, CloseSession, RecordBreak, CommitCorrection
  <2>2. CASE AnswerDoubleTap(r) BY <1>1, <2>2 DEF AnswerDoubleTap, Rollback
  <2>3. CASE \/ BreakWithoutSession(r) \/ OpenSessionOverlap(r) \/ CloseRefused(r)
             \/ UpdateSessionOverlap(r) \/ Abandon(r) \/ WrongDirection(r)
    BY <1>2, <2>3
    DEF BreakWithoutSession, OpenSessionOverlap, CloseRefused, UpdateSessionOverlap, Abandon,
        WrongDirection
  <2>4. CASE ReadOpenSession(r) \/ ReadLastEvent(r) \/ ReadSession(r) \/ UpdateSession(r)
    BY <2>4 DEF ReadOpenSession, ReadLastEvent, ReadSession, UpdateSession, Served
  <2>5. QED BY <1>3, <2>1, <2>2, <2>3, <2>4 DEF Handle, Writes
<1>4. QED
  BY <1>3 DEF Next, Receive, Tick, SetTimezone, EditRoster, Quiesce, vars, locals, Served

LEMMA OwnSessionStep ==
  ASSUME Inv, EventStream, [Next]_vars, NEW q \in Requests
  PROVE  OwnSession(q)
<1> SUFFICES ASSUME Served(q), call[q].verb # "correct" PROVE OwnSession(q) BY DEF OwnSession
<1>1. CASE OpenSession(q)
  <2>1. PICK s \in SessionIds \ Live :
          /\ sessions' = [sessions EXCEPT ![s] = NewRow(q)]
          /\ Appended(Event(s, NewRow(q), call[q].at, "in", FALSE, SourceOf(q, "in")))
          /\ Reply(q, Answer("ok", s, call[q].at, None))
    BY <1>1, OpenSessionWrites
  <2>2. answer'[q].session = s BY <2>1, ReplyEffect DEF Answer
  <2>3. sessions'[s].emp = call[q].emp /\ \A x \in Live : sessions'[x] = sessions[x]
    BY <2>1 DEF Inv, TypeOK, NewRow, Live
  <2>4. clocks'[Len(clocks')].emp = call[q].emp
    BY <2>1, AppendedEvent DEF Inv, Event, NewRow
  <2>5. QED BY <2>2, <2>3, <2>4 DEF OwnSession
<1>2. CASE CloseSession(q)
  <2>1. PICK s \in Live, row \in SessionRow :
          /\ sessions[s] \in SessionRow /\ row = [sessions[s] EXCEPT !.out = call[q].at]
          /\ row.emp = call[q].emp
          /\ sessions' = [sessions EXCEPT ![s] = row]
          /\ Appended(Event(s, row, call[q].at, "out", FALSE, SourceOf(q, "out")))
          /\ Reply(q, Answer("ok", s, row.in, call[q].at))
    BY <1>2, CloseSessionWrites
  <2>2. answer'[q].session = s BY <2>1, ReplyEffect DEF Answer
  <2>3. sessions'[s].emp = call[q].emp /\ sessions[s].emp = call[q].emp
        /\ \A x \in Live : x # s => sessions'[x] = sessions[x]
    BY <2>1 DEF Inv, TypeOK, SessionRow, Live
  <2>4. clocks'[Len(clocks')].emp = call[q].emp
    BY <2>1, AppendedEvent DEF Inv, Event
  <2>5. QED BY <2>2, <2>3, <2>4 DEF OwnSession
<1>3. CASE RecordBreak(q)
  <2>1. PICK event :
          /\ Appended(event)
          /\ event = Event(found[q].id, found[q].row, call[q].at, call[q].dir, TRUE,
                           SourceOf(q, call[q].dir))
    BY <1>3, RecordBreakWrites
  <2>2. /\ answer'[q] = Answer("ok", found[q].id, found[q].row.in, None)
        /\ sessions[found[q].id].emp = call[q].emp /\ found[q].row.emp = call[q].emp
        /\ UNCHANGED sessions
    BY <1>3, RecordBreakWrites, ReplyEffect
  <2>3. answer'[q].session = found[q].id BY <2>2 DEF Answer
  <2>4. clocks'[Len(clocks')] = event BY <2>1, AppendedEvent DEF Inv
  <2>5. clocks'[Len(clocks')].emp = call[q].emp BY <2>1, <2>2, <2>4 DEF Event
  <2>6. QED BY <2>2, <2>3, <2>5 DEF OwnSession
<1>4. CASE AnswerDoubleTap(q)
  <2>1. PICK last \in LastClockEvents(call[q].emp) : \E in, out :
          Rollback(q, Answer("duplicate", last.session, in, out))
    BY <1>4 DEF AnswerDoubleTap
  <2>2. last.session \in Live /\ sessions[last.session].emp = call[q].emp
    BY DEF LastClockEvents, EventStream, EventsBelong
  <2>3. answer'[q].session = last.session BY <2>1, ReplyEffect DEF Rollback, Answer
  <2>4. UNCHANGED <<sessions, clocks>> BY <2>1 DEF Rollback, tables
  <2>5. QED BY <2>2, <2>3, <2>4 DEF OwnSession
<1>5. CASE CommitCorrection(q) BY <1>5, CommitCorrectionWrites
<1>6. QED BY <1>1, <1>2, <1>3, <1>4, <1>5, ServedBy DEF Writes
--------------------------------------------------------------------------------
(* Alternation.                                                                 *)

\* PunchesAlternate, and what it takes to carry it over the next punch: the last
\* punch of an employee whose sessions no correction touched is a punch-in exactly
\* when a session is open, and then it is that session's.
Latest(e) == Previous(e, Len(clocks) + 1)
AlternatesFor(e) ==
  /\ \A j \in PunchesOf(e) :
       IF clocks[j].dir = "in"
       THEN \A i \in Previous(e, j) : clocks[i].dir = "out"
       ELSE \E i \in Previous(e, j) :
              clocks[i].dir = "in" /\ clocks[i].session = clocks[j].session
  /\ \A i \in Latest(e) : clocks[i].dir = "in" => clocks[i].session \in OpenSessions(e)
  /\ \A s \in OpenSessions(e) :
       \E i \in Latest(e) : clocks[i].dir = "in" /\ clocks[i].session = s
Alternation == \A e \in Employees : Owned(e, corrected) = {} => AlternatesFor(e)

\* An appended event is the next punch of its employee, unless it is a break, and
\* changes nothing in what came before.
LEMMA AppendedPrevious ==
  ASSUME TypeOK, NEW event, Appended(event), NEW e, NEW n, n = Len(clocks) + 1
  PROVE  /\ \A j \in PunchesOf(e) : j \in PunchesOf(e)' /\ Previous(e, j)' = Previous(e, j)
         /\ IF event.emp = e /\ ~event.isBreak
            THEN /\ PunchesOf(e)' = PunchesOf(e) \cup {n} /\ clocks'[n] = event
                 /\ Previous(e, n)' = Latest(e) /\ Latest(e)' = {n}
            ELSE PunchesOf(e)' = PunchesOf(e) /\ Latest(e)' = Latest(e)
         /\ \A i \in PunchesOf(e) : clocks'[i] = clocks[i]
<1>1. /\ DOMAIN clocks = 1..Len(clocks) /\ Len(clocks) \in Nat /\ Len(clocks') = n
      /\ DOMAIN clocks' = 1..n /\ clocks'[n] = event
      /\ \A i \in DOMAIN clocks : clocks'[i] = clocks[i]
  BY AppendedEvent
<1>2. \A i \in PunchesOf(e) : i \in 1..Len(clocks) BY <1>1 DEF PunchesOf
<1>3. PunchesOf(e)' = IF event.emp = e /\ ~event.isBreak
                      THEN PunchesOf(e) \cup {n} ELSE PunchesOf(e)
  <2>1. \A i : i \in 1..n <=> i \in 1..Len(clocks) \/ i = n BY <1>1
  <2>2. QED BY <1>1, <2>1 DEF PunchesOf
<1>4. \A i \in PunchesOf(e) : clocks'[i] = clocks[i] BY <1>1, <1>2
<1>5. \A j \in PunchesOf(e) : Previous(e, j)' = Previous(e, j)
  BY <1>1, <1>2, <1>3 DEF Previous
<1>6. CASE event.emp = e /\ ~event.isBreak
  <2>1. PunchesOf(e)' = PunchesOf(e) \cup {n} BY <1>3, <1>6
  <2>2. Previous(e, n)' = Latest(e) BY <1>1, <1>2, <2>1 DEF Previous, Latest
  <2>3. Latest(e)' = {n} BY <1>1, <1>2, <2>1 DEF Previous, Latest
  <2>4. QED BY <1>1, <1>4, <1>5, <1>6, <2>1, <2>2, <2>3
<1>7. CASE ~(event.emp = e /\ ~event.isBreak)
  <2>1. PunchesOf(e)' = PunchesOf(e) BY <1>3, <1>7
  <2>2. Latest(e)' = Latest(e) BY <1>1, <1>2, <2>1 DEF Previous, Latest
  <2>3. QED BY <1>4, <1>5, <1>7, <2>1, <2>2
<1>8. QED BY <1>6, <1>7

\* Of an employee who neither punches nor is corrected nothing is said anew.
LEMMA OthersAlternate ==
  ASSUME NEW e \in Employees, AlternatesFor(e), OpenSessions(e)' = OpenSessions(e),
         PunchesOf(e)' = PunchesOf(e), Latest(e)' = Latest(e),
         \A j \in PunchesOf(e) : Previous(e, j)' = Previous(e, j),
         \A i \in PunchesOf(e) : clocks'[i] = clocks[i]
  PROVE  AlternatesFor(e)'
<1>1. \A j : \A i \in Previous(e, j) : i \in PunchesOf(e) BY DEF Previous
<1>2. \A i \in Latest(e) : i \in PunchesOf(e) BY <1>1 DEF Latest
<1>3. \A j \in PunchesOf(e)' :
        IF clocks'[j].dir = "in"
        THEN \A i \in Previous(e, j)' : clocks'[i].dir = "out"
        ELSE \E i \in Previous(e, j)' :
               clocks'[i].dir = "in" /\ clocks'[i].session = clocks'[j].session
  BY <1>1 DEF AlternatesFor
<1>4. \A i \in Latest(e)' : clocks'[i].dir = "in" => clocks'[i].session \in OpenSessions(e)'
  BY <1>2 DEF AlternatesFor
<1>5. \A s \in OpenSessions(e)' :
        \E i \in Latest(e)' : clocks'[i].dir = "in" /\ clocks'[i].session = s
  BY <1>2 DEF AlternatesFor
<1>6. QED BY <1>3, <1>4, <1>5 DEF AlternatesFor

\* A punch of e that alternates: a punch-in into no open session, a punch-out of the
\* one that is open.
LEMMA NextAlternates ==
  ASSUME TypeOK, NEW e \in Employees, AlternatesFor(e), NEW event, Appended(event),
         event.emp = e, ~event.isBreak, event.dir \in Directions,
         event.dir = "in" => OpenSessions(e) = {} /\ OpenSessions(e)' = {event.session},
         event.dir = "out" => OpenSessions(e) = {event.session} /\ OpenSessions(e)' = {}
  PROVE  AlternatesFor(e)'
<1>1. PICK n : n = Len(clocks) + 1 OBVIOUS
<1>2. /\ PunchesOf(e)' = PunchesOf(e) \cup {n} /\ clocks'[n] = event
      /\ Previous(e, n)' = Latest(e) /\ Latest(e)' = {n}
      /\ \A j \in PunchesOf(e) : Previous(e, j)' = Previous(e, j)
      /\ \A i \in PunchesOf(e) : clocks'[i] = clocks[i]
  BY <1>1, AppendedPrevious
<1>3. \A j : \A i \in Previous(e, j) : i \in PunchesOf(e) BY DEF Previous
<1>4. \A i \in Latest(e) : i \in PunchesOf(e) BY <1>3 DEF Latest
<1>5. ASSUME NEW j \in PunchesOf(e)
      PROVE  IF clocks'[j].dir = "in"
             THEN \A i \in Previous(e, j)' : clocks'[i].dir = "out"
             ELSE \E i \in Previous(e, j)' :
                    clocks'[i].dir = "in" /\ clocks'[i].session = clocks'[j].session
  BY <1>2, <1>3 DEF AlternatesFor
<1>6. CASE event.dir = "in"
  <2>1. \A i \in Latest(e) : clocks'[i].dir = "out"
    <3>1. SUFFICES ASSUME NEW i \in Latest(e) PROVE clocks[i].dir = "out" BY <1>2, <1>4
    <3>2. clocks[i].dir # "in" BY <1>6 DEF AlternatesFor
    <3>3. clocks[i] \in EventRow BY <1>4, EventsTyped DEF PunchesOf
    <3>4. QED BY <3>2, <3>3 DEF EventRow, Directions
  <2>2. \A j \in PunchesOf(e)' :
          IF clocks'[j].dir = "in"
          THEN \A i \in Previous(e, j)' : clocks'[i].dir = "out"
          ELSE \E i \in Previous(e, j)' :
                 clocks'[i].dir = "in" /\ clocks'[i].session = clocks'[j].session
    BY <1>2, <1>5, <1>6, <2>1
  <2>3. /\ \A i \in Latest(e)' : clocks'[i].dir = "in" => clocks'[i].session \in OpenSessions(e)'
        /\ \A s \in OpenSessions(e)' :
             \E i \in Latest(e)' : clocks'[i].dir = "in" /\ clocks'[i].session = s
    BY <1>2, <1>6
  <2>4. QED BY <2>2, <2>3 DEF AlternatesFor
<1>7. CASE event.dir = "out"
  <2>1. \E i \in Latest(e) : clocks'[i].dir = "in" /\ clocks'[i].session = event.session
    BY <1>2, <1>4, <1>7 DEF AlternatesFor
  <2>2. \A j \in PunchesOf(e)' :
          IF clocks'[j].dir = "in"
          THEN \A i \in Previous(e, j)' : clocks'[i].dir = "out"
          ELSE \E i \in Previous(e, j)' :
                 clocks'[i].dir = "in" /\ clocks'[i].session = clocks'[j].session
    BY <1>2, <1>5, <1>7, <2>1
  <2>3. /\ \A i \in Latest(e)' : clocks'[i].dir = "in" => clocks'[i].session \in OpenSessions(e)'
        /\ \A s \in OpenSessions(e)' :
             \E i \in Latest(e)' : clocks'[i].dir = "in" /\ clocks'[i].session = s
    BY <1>2, <1>7
  <2>4. QED BY <2>2, <2>3 DEF AlternatesFor
<1>8. QED BY <1>6, <1>7 DEF Directions

\* The EXCLUDE constraint lets a session be opened only where none is open.
LEMMA OpensAlone ==
  ASSUME TypeOK, NEW s \in SessionIds \ Live, NEW row \in SessionRow, row.out = None,
         ~Clashes(s, row)
  PROVE  OpenSessions(row.emp) = {}
<1> SUFFICES ASSUME NEW x \in OpenSessions(row.emp) PROVE FALSE OBVIOUS
<1>1. x \in Live \ {s} /\ sessions[x].emp = row.emp /\ sessions[x].out = None
  BY DEF OpenSessions
<1>2. Overlap(sessions[x], row) BY <1>1 DEF Overlap, Empty
<1>3. QED BY <1>1, <1>2 DEF Clashes

LEMMA AlternationStep ==
  ASSUME Inv, Alternation, [Next]_vars
  PROVE  Alternation'
<1> SUFFICES ASSUME NEW e \in Employees, Owned(e, corrected)' = {} PROVE AlternatesFor(e)'
  BY DEF Alternation
<1>0. TypeOK /\ HandlerState BY DEF Inv
<1>1. OwnersKept BY <1>0, OwnersKeptStep
<1>2. corrected \subseteq corrected'
  <2>1. CASE \E r \in Requests : Writes(r)
    BY <2>1, OpenSessionWrites, CloseSessionWrites, RecordBreakWrites, CommitCorrectionWrites
    DEF Writes
  <2>2. CASE \A r \in Requests : ~Writes(r) BY <2>2, QuietStep
  <2>3. QED BY <2>1, <2>2
<1>3. AlternatesFor(e)
  <2>1. Owned(e, corrected) = {} BY <1>1, <1>2 DEF Owned, OwnersKept
  <2>2. QED BY <2>1 DEF Alternation
<1>4. ASSUME NEW event, Appended(event), event.emp # e \/ event.isBreak,
             OpenSessions(e)' = OpenSessions(e)
      PROVE  AlternatesFor(e)'
  <2>1. PICK n : n = Len(clocks) + 1 OBVIOUS
  <2>2. /\ PunchesOf(e)' = PunchesOf(e) /\ Latest(e)' = Latest(e)
        /\ \A j \in PunchesOf(e) : Previous(e, j)' = Previous(e, j)
        /\ \A i \in PunchesOf(e) : clocks'[i] = clocks[i]
    BY <1>0, <1>4, <2>1, AppendedPrevious
  <2>3. QED BY <1>3, <1>4, <2>2, OthersAlternate
<1>5. ASSUME UNCHANGED clocks, OpenSessions(e)' = OpenSessions(e) PROVE AlternatesFor(e)'
  BY <1>3, <1>5 DEF AlternatesFor, Latest, Previous, PunchesOf
<1>6. ASSUME NEW r \in Requests, OpenSession(r) PROVE AlternatesFor(e)'
  <2>1. PICK row : row = NewRow(r) OBVIOUS
  <2>2. PICK s \in SessionIds \ Live :
          /\ row \in SessionRow /\ row # None
          /\ sessions' = [sessions EXCEPT ![s] = row] /\ ~Clashes(s, row)
          /\ Appended(Event(s, row, call[r].at, "in", FALSE, SourceOf(r, "in")))
    BY <1>0, <1>6, <2>1, OpenSessionWrites
  <2>3. PICK event : event = Event(s, row, call[r].at, "in", FALSE, SourceOf(r, "in"))
    OBVIOUS
  <2>4. /\ Appended(event) /\ event.emp = row.emp /\ ~event.isBreak
        /\ event.dir = "in" /\ event.session = s
    BY <2>2, <2>3 DEF Event
  <2>5. row.out = None BY <2>1 DEF NewRow
  <2>6. \A x \in SessionIds : sessions'[x] = IF x = s THEN row ELSE sessions[x]
    BY <1>0, <2>2 DEF TypeOK
  <2>7. OpenSessions(row.emp) = {} BY <1>0, <2>2, <2>5, OpensAlone
  <2>8. OpenSessions(e)' = IF e = row.emp THEN OpenSessions(e) \cup {s} ELSE OpenSessions(e)
    BY <2>2, <2>5, <2>6 DEF OpenSessions, Live
  <2>9. CASE e = row.emp
    BY <1>0, <1>3, <2>4, <2>7, <2>8, <2>9, NextAlternates DEF Directions
  <2>10. CASE e # row.emp BY <1>4, <2>4, <2>8, <2>10
  <2>11. QED BY <2>9, <2>10
<1>7. ASSUME NEW r \in Requests, CloseSession(r) PROVE AlternatesFor(e)'
  <2>1. PICK s : s = found[r].id OBVIOUS
  <2>2. PICK row : row = [sessions[s] EXCEPT !.out = call[r].at] OBVIOUS
  <2>3. PICK event : event = Event(s, row, call[r].at, "out", FALSE, SourceOf(r, "out"))
    OBVIOUS
  <2>4. /\ s \in Live /\ s \in SessionIds /\ sessions[s] \in SessionRow
        /\ sessions[s].out = None /\ row \in SessionRow
        /\ sessions' = [sessions EXCEPT ![s] = row] /\ Appended(event)
        /\ call[r] \in Calls /\ call[r].verb \in {"punch", "kiosk"}
    BY <1>7, <2>1, <2>2, <2>3, CloseSessionWrites
  <2>5. call[r].at # None BY <2>4, CallType, NoneAssumption
  <2>6. row.out # None /\ row.emp = sessions[s].emp /\ row # None
    BY <2>2, <2>4, <2>5, RowAssumption DEF SessionRow
  <2>7. event.emp = row.emp /\ ~event.isBreak /\ event.dir = "out" /\ event.session = s
    BY <2>3 DEF Event
  <2>8. \A x \in SessionIds : sessions'[x] = IF x = s THEN row ELSE sessions[x]
    BY <1>0, <2>4 DEF TypeOK
  <2>9. OpenSessions(e)' = OpenSessions(e) \ {s}
    BY <2>4, <2>6, <2>8 DEF OpenSessions, Live
  <2>10. CASE e = row.emp
    <3>1. s \in OpenSessions(e) BY <2>4, <2>6, <2>10 DEF OpenSessions
    <3>2. \A x \in OpenSessions(e) : x = s
      <4>1. \A i, j \in Latest(e) : i = j
        <5>1. \A i \in PunchesOf(e) : i \in Nat BY <1>0, EventsTyped DEF PunchesOf, TypeOK
        <5>2. QED BY <5>1 DEF Latest, Previous
      <4>2. QED BY <1>3, <3>1, <4>1 DEF AlternatesFor
    <3>3. OpenSessions(e) = {s} /\ OpenSessions(e)' = {} BY <2>9, <3>1, <3>2
    <3>4. QED BY <1>0, <1>3, <2>4, <2>7, <2>10, <3>3, NextAlternates DEF Directions
  <2>11. CASE e # row.emp
    <3>1. s \notin OpenSessions(e) BY <2>6, <2>11 DEF OpenSessions
    <3>2. QED BY <1>4, <2>4, <2>7, <2>9, <2>11, <3>1
  <2>12. QED BY <2>10, <2>11
<1>8. ASSUME NEW r \in Requests, RecordBreak(r) PROVE AlternatesFor(e)'
  <2>1. PICK event :
          event = Event(found[r].id, found[r].row, call[r].at, call[r].dir, TRUE,
                        SourceOf(r, call[r].dir))
    OBVIOUS
  <2>2. Appended(event) /\ UNCHANGED sessions BY <1>8, <2>1, RecordBreakWrites
  <2>3. event.isBreak BY <2>1 DEF Event
  <2>4. OpenSessions(e)' = OpenSessions(e) BY <2>2 DEF OpenSessions, Live
  <2>5. QED BY <1>4, <2>2, <2>3, <2>4
<1>9. ASSUME NEW r \in Requests, CommitCorrection(r) PROVE AlternatesFor(e)'
  <2>1. PICK s, row :
          /\ s = call[r].session /\ row = pending[r].row
          /\ s \in Live /\ s \in SessionIds /\ row # None /\ row.emp = sessions[s].emp
          /\ sessions' = [sessions EXCEPT ![s] = row]
          /\ corrected' = corrected \cup {s} /\ UNCHANGED clocks
    BY <1>9, CommitCorrectionWrites
  <2>2. \A x \in SessionIds : sessions'[x] = IF x = s THEN row ELSE sessions[x]
    BY <1>0, <2>1 DEF TypeOK
  <2>3. e # row.emp
    <3>1. s \in Live' /\ sessions'[s].emp = row.emp BY <2>1, <2>2 DEF Live
    <3>2. QED BY <2>1, <3>1 DEF Owned
  <2>4. OpenSessions(e)' = OpenSessions(e) BY <2>1, <2>2, <2>3 DEF OpenSessions, Live
  <2>5. QED BY <1>5, <2>1, <2>4
<1>10. CASE \A r \in Requests : ~Writes(r)
  <2>1. UNCHANGED <<sessions, clocks>> BY <1>10, QuietStep DEF tables
  <2>2. OpenSessions(e)' = OpenSessions(e) BY <2>1 DEF OpenSessions, Live
  <2>3. QED BY <1>5, <2>1, <2>2
<1>11. QED BY <1>6, <1>7, <1>8, <1>9, <1>10 DEF Writes
--------------------------------------------------------------------------------
(* The theorems.                                                                *)

\* The inductive invariant of the record.  EventStream ties each event to the row
\* it was written with; Punctual carries the check of the instant from the arrival
\* of a punch to its write, FreshReads the check-in a break answers with, Alternation
\* which session the last punch of an employee has left open.
RecordInv ==
  /\ Inv
  /\ EventStream
  /\ Punctual /\ NoFuturePunch
  /\ FreshReads /\ AnswersLive /\ AnswersHold
  /\ Alternation

LEMMA InitRecordInv == Init => RecordInv
<1> SUFFICES ASSUME Init PROVE RecordInv OBVIOUS
<1>1. Inv BY InitInv
<1>2. Live = {} /\ DOMAIN clocks = {} BY DEF Init, Live
<1>3. EventStream /\ NoFuturePunch
  BY <1>2 DEF EventStream, EventsBelong, PunchedIn, InFirst, BoundsRecorded, NoFuturePunch
<1>4. Punctual /\ FreshReads BY DEF Init, Punctual, FreshReads, Busy
<1>5. AnswersLive /\ AnswersHold BY DEF Init, AnswersLive, AnswersHold, NoAnswer
<1>6. Alternation
  BY <1>2 DEF Alternation, AlternatesFor, PunchesOf, Latest, Previous, OpenSessions
<1>7. QED BY <1>1, <1>3, <1>4, <1>5, <1>6 DEF RecordInv

LEMMA RecordInvStep == RecordInv /\ [Next]_vars => RecordInv'
  BY InvStep, EventStreamStep, PunctualStep, NoFuturePunchStep, FreshReadsStep, AnswersStep,
     AlternationStep
  DEF RecordInv

THEOREM RecordInvariance == Spec => []RecordInv
  BY InitRecordInv, RecordInvStep, PTL DEF Spec

\* The events explain the sessions, whatever punches, breaks and corrections race.
THEOREM EventsAlwaysExplain == Spec => []EventsExplainSessions
<1>1. RecordInv => EventsExplainSessions BY EventStreamExplains DEF RecordInv
<1>2. QED BY <1>1, RecordInvariance, PTL

\* No punch on record lies in the future by more than the skew, however long its
\* request was under way.
THEOREM NeverAFuturePunch == Spec => []NoFuturePunch
<1>1. RecordInv => NoFuturePunch BY DEF RecordInv
<1>2. QED BY <1>1, RecordInvariance, PTL

\* What a request was answered of its session stays true until a correction.
THEOREM AnswersAlwaysHold == Spec => []AnswersHold
<1>1. RecordInv => AnswersHold BY DEF RecordInv
<1>2. QED BY <1>1, RecordInvariance, PTL

\* An employee's punches alternate, and a punch-out is of the session punched into.
THEOREM PunchesAlwaysAlternate == Spec => []PunchesAlternate
<1>1. RecordInv => PunchesAlternate
  BY DEF RecordInv, Alternation, AlternatesFor, PunchesAlternate
<1>2. QED BY <1>1, RecordInvariance, PTL

\* A punch answers from and writes to the sessions of its own employee only.
THEOREM OnlyOwnSessions == Spec => OwnSessionsOnly
<1>1. RecordInv /\ [Next]_vars =>
        [\A r \in Requests : Served(r) /\ call[r].verb # "correct" =>
           /\ sessions'[answer'[r].session].emp = call[r].emp
           /\ \A s \in Live : sessions'[s] # sessions[s] => sessions[s].emp = call[r].emp
           /\ clocks' # clocks => clocks'[Len(clocks')].emp = call[r].emp]_vars
  BY OwnSessionStep DEF RecordInv, OwnSession
<1>2. QED BY <1>1, RecordInvariance, PTL DEF Spec, OwnSessionsOnly
--------------------------------------------------------------------------------
(* What a correction is about to commit.                                        *)

\* A correction's bounds were checked when it was accepted, and are what it writes.
ProperRewrites ==
  \A r \in Requests :
    /\ Busy(r) /\ call[r].verb = "correct" => ProperRange(call[r].in, call[r].out)
    /\ pc[r] = "commit" => /\ pending[r].row.in = call[r].in
                           /\ pending[r].row.out = call[r].out

LEMMA PendingKept ==
  ASSUME Inv, [Next]_vars, NEW q \in Requests, pc'[q] = "commit"
  PROVE  UpdateSession(q) \/ (pc[q] = "commit" /\ pending'[q] = pending[q])
<1> SUFFICES ASSUME ~UpdateSession(q)
             PROVE  pc[q] = "commit" /\ pending'[q] = pending[q]
  OBVIOUS
<1>1. ASSUME NEW r \in Requests, NEW ans, Reply(r, ans)
      PROVE  pc[q] = "commit" /\ pending'[q] = pending[q]
  BY <1>1 DEF Reply, Inv, TypeOK
<1>2. ASSUME NEW r \in Requests,
             Receive(r) \/ ReadOpenSession(r) \/ ReadLastEvent(r) \/ ReadSession(r)
      PROVE  pc[q] = "commit" /\ pending'[q] = pending[q]
  BY <1>2 DEF Receive, ReadOpenSession, ReadLastEvent, ReadSession, Inv, TypeOK
<1>3. ASSUME NEW r \in Requests, UpdateSession(r)
      PROVE  pc[q] = "commit" /\ pending'[q] = pending[q]
  <2>1. r # q BY <1>3
  <2>2. QED BY <1>3, <2>1 DEF UpdateSession, Inv, TypeOK
<1>4. ASSUME NEW r \in Requests, Handle(r) \/ Abandon(r)
      PROVE  pc[q] = "commit" /\ pending'[q] = pending[q]
  BY <1>1, <1>2, <1>3, <1>4
  DEF Handle, BreakWithoutSession, AnswerDoubleTap, WrongDirection, OpenSession,
      OpenSessionOverlap, CloseSession, CloseRefused, RecordBreak, UpdateSessionOverlap,
      CommitCorrection, Abandon, Refuse, Rollback
<1>5. CASE Tick \/ SetTimezone \/ EditRoster \/ Quiesce \/ UNCHANGED vars
  BY <1>5 DEF Tick, SetTimezone, EditRoster, Quiesce, vars, locals
<1>6. QED BY <1>2, <1>4, <1>5 DEF Next

LEMMA ProperRewritesStep ==
  ASSUME Inv, ProperRewrites, [Next]_vars
  PROVE  ProperRewrites'
<1>1. ASSUME NEW q \in Requests, Busy(q)', call'[q].verb = "correct"
      PROVE  ProperRange(call'[q].in, call'[q].out)
  <2>1. CASE Receive(q)
    <3>1. PICK c \in Calls : Accepted(c) /\ call' = [call EXCEPT ![q] = c]
      BY <2>1 DEF Receive
    <3>2. call'[q] = c BY <3>1 DEF Inv, TypeOK
    <3>3. QED BY <1>1, <3>1, <3>2 DEF Accepted
  <2>2. CASE ~Receive(q)
    BY <1>1, <2>2, CallsKept DEF Inv, ProperRewrites
  <2>3. QED BY <2>1, <2>2
<1>2. ASSUME NEW q \in Requests, pc'[q] = "commit"
      PROVE  pending'[q].row.in = call'[q].in /\ pending'[q].row.out = call'[q].out
  <2>1. CASE UpdateSession(q)
    <3>1. call' = call BY <2>1 DEF UpdateSession
    <3>2. pending'[q].row = CorrectedRow(q) BY <2>1, RewriteType DEF Inv, TypeOK
    <3>3. QED BY <3>1, <3>2 DEF CorrectedRow
  <2>2. CASE pc[q] = "commit" /\ pending'[q] = pending[q]
    <3>1. ~Receive(q) /\ Busy(q)' BY <1>2, <2>2 DEF Receive, Busy
    <3>2. call'[q] = call[q] BY <3>1, CallsKept DEF Inv
    <3>3. QED BY <2>2, <3>2 DEF ProperRewrites
  <2>3. QED BY <1>2, <2>1, <2>2, PendingKept
<1>3. QED BY <1>1, <1>2 DEF ProperRewrites
--------------------------------------------------------------------------------
(* The refinement of SessionLedger.                                             *)

LedgerOf ==
  [s \in SessionIds |-> IF sessions[s] = None THEN None ELSE IntervalOf(sessions[s])]

LEMMA IntervalType ==
  ASSUME NEW row \in SessionRow
  PROVE  /\ IntervalOf(row) \in Interval /\ IntervalOf(row) # None
         /\ IntervalOf(row).emp = row.emp
         /\ IntervalOf(row).in = row.in /\ IntervalOf(row).out = row.out
<1>1. IntervalOf(row) \in Interval BY DEF IntervalOf, Interval, SessionRow
<1>2. QED BY <1>1, RecordAssumption DEF IntervalOf

\* Rows that do not overlap cover no instant twice.
LEMMA CoversDisjoint ==
  ASSUME NEW a \in SessionRow, NEW b \in SessionRow, ~Overlap(a, b)
  PROVE  Ledger!Covers(IntervalOf(a)) \cap Ledger!Covers(IntervalOf(b)) = {}
<1> SUFFICES ASSUME NEW t \in Ledger!Covers(IntervalOf(a)),
                    t \in Ledger!Covers(IntervalOf(b))
             PROVE  FALSE
  OBVIOUS
<1>1. /\ a.in \in Int /\ a.out \in Optional(Int) /\ b.in \in Int /\ b.out \in Optional(Int)
      /\ Instants \subseteq Int /\ None \notin Int
  BY InstantsType DEF SessionRow
<1>2. \/ t \in Int /\ a.in <= t /\ (a.out # None => t < a.out)
      \/ t = None /\ a.out = None
  BY <1>1 DEF Ledger!Covers, IntervalOf
<1>3. \/ t \in Int /\ b.in <= t /\ (b.out # None => t < b.out)
      \/ t = None /\ b.out = None
  BY <1>1 DEF Ledger!Covers, IntervalOf
<1>4. QED BY <1>1, <1>2, <1>3 DEF Overlap, Empty, Optional

LEMMA LedgerDisjoint ==
  ASSUME NEW table \in [SessionIds -> Optional(SessionRow)],
         \A s, x \in SessionIds :
           table[s] # None /\ table[x] # None /\ s # x /\ table[s].emp = table[x].emp =>
             ~Overlap(table[s], table[x])
  PROVE  Ledger!Disjoint([s \in SessionIds |->
                            IF table[s] = None THEN None ELSE IntervalOf(table[s])])
<1> DEFINE book == [s \in SessionIds |->
                      IF table[s] = None THEN None ELSE IntervalOf(table[s])]
<1> SUFFICES ASSUME NEW s \in SessionIds, NEW x \in SessionIds,
                    book[s] # None, book[x] # None, s # x, book[s].emp = book[x].emp
             PROVE  Ledger!Covers(book[s]) \cap Ledger!Covers(book[x]) = {}
  BY DEF Ledger!Disjoint
<1>1. table[s] # None /\ table[x] # None /\ table[s] \in SessionRow /\ table[x] \in SessionRow
  BY DEF Optional
<1>2. book[s] = IntervalOf(table[s]) /\ book[x] = IntervalOf(table[x])
  BY <1>1
<1>3. table[s].emp = table[x].emp BY <1>1, <1>2, IntervalType
<1>4. ~Overlap(table[s], table[x]) BY <1>1, <1>3
<1>5. QED BY <1>1, <1>2, <1>4, CoversDisjoint

\* A step writes at most one session, and the ledger with it.
LEMMA LedgerWrite ==
  ASSUME Inv, NoOverlap', TypeOK', NEW s \in SessionIds, NEW row \in SessionRow,
         sessions' = [sessions EXCEPT ![s] = row]
  PROVE  Ledger!Write(s, IntervalOf(row))
<1>1. row # None BY RowAssumption
<1>2. LedgerOf' = [LedgerOf EXCEPT ![s] = IntervalOf(row)]
  BY <1>1 DEF LedgerOf, Inv, TypeOK
<1>3. Ledger!Disjoint(LedgerOf')
  <2>1. sessions' \in [SessionIds -> Optional(SessionRow)] BY DEF TypeOK
  <2>2. \A a, x \in SessionIds :
          sessions'[a] # None /\ sessions'[x] # None /\ a # x
            /\ sessions'[a].emp = sessions'[x].emp => ~Overlap(sessions'[a], sessions'[x])
    BY DEF NoOverlap, Live
  <2>3. QED BY <2>1, <2>2, LedgerDisjoint DEF LedgerOf
<1>4. QED BY <1>2, <1>3 DEF Ledger!Write, LedgerOf

\* An open, a close and a committed correction write the ledger; nothing else does.
LEMMA LedgerStep ==
  ASSUME Inv, ProperRewrites, Inv', [Next]_vars
  PROVE  [Ledger!Next]_LedgerOf
<1>1. NoOverlap' /\ TypeOK' BY DEF Inv
<1>2. \A s \in Live : LedgerOf[s] = IntervalOf(sessions[s]) /\ sessions[s] \in SessionRow
  BY DEF LedgerOf, Live, Inv, TypeOK, Optional
<1>3. ASSUME NEW r \in Requests, OpenSession(r) PROVE Ledger!Next
  <2>1. PICK s \in SessionIds \ Live, row \in SessionRow, at \in Instants, e \in Employees :
          /\ row.emp = e /\ row.in = at /\ row.out = None
          /\ sessions' = [sessions EXCEPT ![s] = row]
    <3>1. PICK s \in SessionIds \ Live :
            /\ NewRow(r) \in SessionRow /\ call[r] \in Calls
            /\ call[r].verb \in {"punch", "kiosk"}
            /\ sessions' = [sessions EXCEPT ![s] = NewRow(r)]
      BY <1>3, OpenSessionWrites
    <3>2. call[r].emp \in Employees /\ call[r].at \in Instants BY <3>1, CallType
    <3>3. NewRow(r).emp = call[r].emp /\ NewRow(r).in = call[r].at /\ NewRow(r).out = None
      BY DEF NewRow
    <3>4. QED BY <3>1, <3>2, <3>3
  <2>2. IntervalOf(row) = [emp |-> e, in |-> at, out |-> None] BY <2>1 DEF IntervalOf
  <2>3. Ledger!Write(s, IntervalOf(row)) BY <1>1, <2>1, LedgerWrite
  <2>4. LedgerOf[s] = None BY <2>1 DEF LedgerOf, Live
  <2>5. Ledger!Open(s, e, at)
    BY <2>2, <2>3, <2>4 DEF Ledger!Open, Ledger!Write, LedgerOf
  <2>6. QED BY <2>5 DEF Ledger!Next
<1>4. ASSUME NEW r \in Requests, CloseSession(r) PROVE Ledger!Next
  <2>1. PICK s \in Live, row \in SessionRow, at \in Instants :
          /\ sessions[s].out = None /\ sessions[s].in <= at /\ s \in SessionIds
          /\ row = [sessions[s] EXCEPT !.out = at]
          /\ sessions' = [sessions EXCEPT ![s] = row]
    <3> DEFINE s   == found[r].id
               row == [sessions[s] EXCEPT !.out = call[r].at]
    <3>1. /\ s \in Live /\ row \in SessionRow
          /\ sessions[s].out = None /\ sessions[s].in <= call[r].at /\ s \in SessionIds
          /\ call[r] \in Calls /\ call[r].verb \in {"punch", "kiosk"}
          /\ sessions' = [sessions EXCEPT ![s] = row]
      BY <1>4, CloseSessionWrites
    <3>2. call[r].at \in Instants BY <3>1, CallType
    <3>3. row = [sessions[s] EXCEPT !.out = call[r].at] OBVIOUS
    <3> HIDE DEF s, row
    <3>4. QED BY <3>1, <3>2, <3>3
  <2>2. LedgerOf[s] = IntervalOf(sessions[s]) /\ sessions[s] \in SessionRow BY <1>2
  <2>3. LedgerOf[s] # None /\ LedgerOf[s].out = None /\ LedgerOf[s].in <= at
    BY <2>1, <2>2, IntervalType
  <2>4. IntervalOf(row) = [LedgerOf[s] EXCEPT !.out = at]
    BY <2>1, <2>2 DEF IntervalOf, SessionRow
  <2>5. Ledger!Write(s, IntervalOf(row)) BY <1>1, <2>1, LedgerWrite
  <2>6. Ledger!Close(s, at)
    BY <2>3, <2>4, <2>5 DEF Ledger!Close, Ledger!Write, LedgerOf
  <2>7. QED BY <2>1, <2>6 DEF Ledger!Next
<1>5. ASSUME NEW r \in Requests, CommitCorrection(r) PROVE Ledger!Next
  <2>1. PICK s \in Live, row \in SessionRow, t \in Instants, u \in Optional(Instants) :
          /\ s \in SessionIds /\ row.emp = sessions[s].emp /\ row.in = t /\ row.out = u
          /\ u # None => t < u
          /\ sessions' = [sessions EXCEPT ![s] = row]
    <3>1. /\ call[r].session \in Live /\ call[r].session \in SessionIds
          /\ call[r].verb = "correct" /\ pc[r] = "commit"
          /\ pending[r].row \in SessionRow
          /\ pending[r].row.emp = sessions[call[r].session].emp
          /\ sessions' = [sessions EXCEPT ![call[r].session] = pending[r].row]
      BY <1>5, CommitCorrectionWrites
    <3>2. call[r] \in Calls BY <3>1 DEF Inv, HandlerState, HandlerStateOf, Busy
    <3>3. call[r].in \in Instants /\ call[r].out \in Optional(Instants)
      BY <3>1, <3>2 DEF Calls
    <3>4. pending[r].row.in = call[r].in /\ pending[r].row.out = call[r].out
      BY <3>1 DEF ProperRewrites
    <3>5. ProperRange(call[r].in, call[r].out) BY <3>1 DEF ProperRewrites, Busy
    <3>6. call[r].out # None => call[r].in < call[r].out
      BY <3>3, <3>5, InstantsType DEF ProperRange, Optional
    <3>7. QED BY <3>1, <3>3, <3>4, <3>6
  <2>2. LedgerOf[s] = IntervalOf(sessions[s]) /\ sessions[s] \in SessionRow BY <1>2
  <2>3. LedgerOf[s] # None /\ LedgerOf[s].emp = sessions[s].emp BY <2>2, IntervalType
  <2>4. IntervalOf(row) = [emp |-> LedgerOf[s].emp, in |-> t, out |-> u]
    BY <2>1, <2>3 DEF IntervalOf
  <2>5. Ledger!Write(s, IntervalOf(row)) BY <1>1, <2>1, LedgerWrite
  <2>6. Ledger!Reshape(s, t, u)
    BY <2>1, <2>3, <2>4, <2>5 DEF Ledger!Reshape, Ledger!Write, LedgerOf
  <2>7. QED BY <2>1, <2>6 DEF Ledger!Next, Ledger!Optional, Optional
<1>6. ASSUME UNCHANGED sessions PROVE UNCHANGED LedgerOf BY <1>6 DEF LedgerOf
<1>7. QED
  BY <1>3, <1>4, <1>5, <1>6, RecordBreakWrites, QuietStep DEF Writes, tables

LedgerInv == Inv /\ ProperRewrites

LEMMA InitLedgerInv == Init => LedgerInv
  BY InitInv DEF LedgerInv, Init, ProperRewrites, Busy

THEOREM LedgerInvariance == Spec => []LedgerInv
<1>1. LedgerInv /\ [Next]_vars => LedgerInv' BY InvStep, ProperRewritesStep DEF LedgerInv
<1>2. QED BY InitLedgerInv, <1>1, PTL DEF Spec

\* Sessions open, close and are reshaped one at a time, every timeline disjoint at
\* every step: the table implements the ledger.
THEOREM LedgerImplemented == Spec => ImplementsLedger
<1>1. Init => Ledger!Init BY DEF Init, Ledger!Init
<1>2. LedgerInv /\ LedgerInv' /\ [Next]_vars =>
        [Ledger!Next]_[s \in SessionIds |->
                         IF sessions[s] = None THEN None ELSE IntervalOf(sessions[s])]
  BY LedgerStep DEF LedgerInv, LedgerOf
<1>3. QED
  BY <1>1, <1>2, LedgerInvariance, PTL DEF Spec, ImplementsLedger, Ledger!Spec
================================================================================
