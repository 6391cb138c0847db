SPECIFICATION Spec
CONSTANTS
  None = None
  East = East
  Employees = {e1}
  SessionIds = {s1}
  Requests = {r1, r2}
  Verbs = {"punch", "correct"}
  PunchSources = {"self_service"}
  Shifts = {}
  ZoneNames = {}
  ZoneOffset <- MCZoneOffset
  DayLength = 3
  PunchClockSkew = 0
  PunchDedupeWindow = 0
  MaxInFlight = 1
  MaxTime = 2
PROPERTY RollupIsPostCorrectionTruth
