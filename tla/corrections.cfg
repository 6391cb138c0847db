SPECIFICATION Spec
CONSTANTS
  None = None
  East = East
  Employees = {e1}
  SessionIds = {s1, s2}
  Requests = {r1, r2, r3, r4}
  Verbs = {"punch", "correct"}
  PunchSources = {"self_service"}
  Shifts = {day}
  ZoneNames = {}
  ZoneOffset <- MCZoneOffset
  DayLength = 2
  PunchClockSkew = 1
  PunchDedupeWindow = 0
  MaxInFlight = 2
  MaxTime = 1
SYMMETRY Interchangeable
INVARIANTS
  LocksProtect
  NoOverlap
  
  EventsExplainSessions
  AnswersHold
PROPERTY ImplementsLedger
