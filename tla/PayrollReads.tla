------------------------------ MODULE PayrollReads ------------------------------
(* What payroll reads of the punch clock: the present days and the overtime of  *)
(* an employee in a pay period.  The overtime minutes of a day live on its      *)
(* rollup row (time_debt); the shift-aware overlay of the composing service     *)
(* writes them, no statement of this repository does, so what a punch or a      *)
(* correction does to the row decides what becomes of them.                     *)
EXTENDS PunchClock, SequencesExt

CONSTANTS
  Stamps,         \* the overtime minutes the overlay may write
  MinutesPerHour, \* 60
  HourScale       \* bound: hours are kept in units of 1/HourScale

ASSUME PayrollAssumption ==
  /\ Stamps \subseteq Int
  /\ MinutesPerHour \in Nat \ {0}
  /\ HourScale \in Nat /\ HourScale >= MinutesPerHour

VARIABLE debt   \* the overtime minutes on the live row of an employee's day, or None

payrollVars == <<vars, debt>>
--------------------------------------------------------------------------------
(* The reads.                                                                   *)

\* Mutant: the last day of the period is not part of it.
RowsBefore(e, from, to) == {d \in Days : from <= d /\ d < to /\ rollup[e][d] # None}

\* The live rows of a period, both ends included.
RowsBetween(e, from, to) == {d \in Days : from <= d /\ d <= to /\ rollup[e][d] # None}

\* ORDER BY date: the i-th day is the one that i of the days are not after.
InDateOrder(days) ==
  [i \in 1..Cardinality(days) |-> CHOOSE d \in days : Cardinality({x \in days : x <= d}) = i]

\* present_days, by date.
PresentDays(e, from, to) == InDateOrder(RowsBetween(e, from, to))

\* SUM ignores a NULL.
Minutes(e, d) == IF debt[e][d] = None THEN 0 ELSE debt[e][d]
SumOfMinutes(e, days) == MapThenSumSet(LAMBDA d : Minutes(e, d), days)

\* Mutant: owed time is subtracted.
SignedHours(minutes) == (2 * minutes * HourScale + MinutesPerHour) \div (2 * MinutesPerHour)

\* Minutes as hours, rounded to the scale of a NUMERIC and never negative.
Hours(minutes) ==
  IF minutes <= 0 THEN 0
  ELSE (2 * minutes * HourScale + MinutesPerHour) \div (2 * MinutesPerHour)

\* overtime_hours: the period's minutes in one sum.
OvertimeHours(e, from, to) == Hours(SumOfMinutes(e, RowsBetween(e, from, to)))

\* overtime_stretches: the hours of each day that has some.
OvertimeStretches(e, from, to) ==
  [d \in {x \in RowsBetween(e, from, to) : Hours(Minutes(e, x)) > 0} |-> Hours(Minutes(e, d))]
--------------------------------------------------------------------------------
(* The overtime minutes over time.                                              *)

\* Mutant: the upsert of a punch writes the column it has no value for.
DebtForgotten(minutes) == None

\* The ON CONFLICT branch of the rollup upsert does not name time_debt.
DebtKept(minutes) == minutes

\* A new row has no minutes, a soft-deleted one takes its minutes with it.
PunchOrCorrect ==
  /\ Next
  /\ debt' = [e \in Employees |-> [d \in Days |->
       IF rollup[e][d] = None \/ rollup'[e][d] = None THEN None
       ELSE IF rollup'[e][d] = rollup[e][d] THEN debt[e][d]
       ELSE DebtKept(debt[e][d])]]

\* The overlay writes the overtime of a day that has a row.
StampOvertime(e, d) ==
  /\ rollup[e][d] # None
  /\ \E m \in Stamps \ {debt[e][d]} : debt' = [debt EXCEPT ![e][d] = m]
  /\ UNCHANGED vars

PayrollInit == Init /\ debt = [e \in Employees |-> [d \in Days |-> None]]

PayrollNext ==
  \/ PunchOrCorrect
  \/ \E e \in Employees, d \in Days : StampOvertime(e, d)

PayrollSpec == PayrollInit /\ [][PayrollNext]_payrollVars
--------------------------------------------------------------------------------
(* Properties                                                                   *)

SessionDays(e) == {sessions[s].date : s \in {x \in Live : sessions[x].emp = e}}

\* Payroll counts presence as the sessions have it: present_days of any period is
\* the list of the dates of the employee's live sessions in it, each once, in order,
\* whatever punches and corrections were made before and in whatever time zone.
PresentDaysAreSessionDays ==
  \A e \in Employees, from, to \in Days :
    LET days == PresentDays(e, from, to)
    IN  /\ Range(days) = SessionDays(e) \cap (from .. to)
        /\ \A i, j \in DOMAIN days : i < j => days[i] < days[j]

\* Two consumers agree on the overtime of a period: the hours priced day by day
\* never sum to less than the period's hours, and to the same (but for one rounding
\* per day) unless a day owes time, which only the period's sum sets off.
Total(stretches) == MapThenSumSet(LAMBDA d : stretches[d], DOMAIN stretches)
OvertimeAddsUp ==
  \A e \in Employees, from, to \in Days :
    LET rows     == RowsBetween(e, from, to)
        daily    == OvertimeStretches(e, from, to)
        rounding == Cardinality(rows) + 1
    IN  /\ \A d \in DOMAIN daily : daily[d] > 0
        /\ OvertimeHours(e, from, to) >= 0
        /\ OvertimeHours(e, from, to) <= Total(daily) + rounding
        /\ (\A d \in rows : Minutes(e, d) >= 0) =>
             Total(daily) <= OvertimeHours(e, from, to) + rounding

\* Consecutive pay periods lose no day and count none twice: two periods that meet
\* report together what the period that covers both reports.
PayPeriodsPartition ==
  \A e \in Employees, from, mid, to \in Days :
    from <= mid /\ mid <= to =>
      /\ PresentDays(e, from, to) =
           PresentDays(e, from, mid) \o PresentDays(e, mid + 1, to)
      /\ Total(OvertimeStretches(e, from, to)) =
           Total(OvertimeStretches(e, from, mid)) + Total(OvertimeStretches(e, mid + 1, to))

\* A day payroll has seen present, and the overtime stamped on it, stand until the
\* day's last session is corrected away: no punch, break or correction of another
\* session takes them back.
PresenceAndOvertimeStand ==
  [][\A e \in Employees, d \in Days :
       d \in SessionDays(e)' =>
         /\ rollup[e][d] # None => rollup'[e][d] # None
         /\ debt[e][d] # None => debt'[e][d] # None]_payrollVars
================================================================================
