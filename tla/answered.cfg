SPECIFICATION FairSpec
CONSTANTS
  None = None
  East = East
  Employees = {e1}
  SessionIds = {s1, s2}
  Requests = {r1, r2, r3}
  Verbs = {"punch", "kiosk", "correct"}
  PunchSources = {"self_service"}
  Shifts = {}
  ZoneNames = {East}
  ZoneOffset <- MCZoneOffset
  DayLength = 4
  PunchClockSkew = 1
  PunchDedupeWindow = 0
  MaxInFlight = 3
  MaxTime = 0
INVARIANT TypeOK
 
