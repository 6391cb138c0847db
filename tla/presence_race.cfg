SPECIFICATION Spec
CONSTANTS
  None = None
  East = East
  Employees = {e1}
  SessionIds = {s1, s2}
  Requests = {r1, r2, r3}
  Verbs = {"punch", "correct"}
  PunchSources = {"self_service"}
  Shifts = {}
  ZoneNames = {}
  ZoneOffset <- MCZoneOffset
  DayLength = 1
  PunchClockSkew = 0
  PunchDedupeWindow = 0
  MaxInFlight = 2
  MaxTime = 2
INVARIANT PresenceMatchesSessions
