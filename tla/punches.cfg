SPECIFICATION Spec
CONSTANTS
  None = None
  East = East
  Employees = {e1, e2}
  SessionIds = {s1, s2, s3}
  Requests = {r1, r2, r3}
  Verbs = {"punch", "kiosk", "break"}
  PunchSources = {"self_service"}
  Shifts = {}
  ZoneNames = {}
  ZoneOffset <- MCZoneOffset
  DayLength = 3
  PunchClockSkew = 1
  PunchDedupeWindow = 1
  MaxInFlight = 2
  MaxTime = 2
SYMMETRY Interchangeable
INVARIANTS
  NoOverlap
  EventsExplainSessions
  PunchesAlternate
  NoFuturePunch
  AnswersHold
  PresenceMatchesSessions
  RollupBounds
PROPERTY OwnSessionsOnly
