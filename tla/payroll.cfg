SPECIFICATION PayrollSpec
CONSTANTS
  None = None
  East = East
  Employees = {e1}
  SessionIds = {s1, s2, s3}
  Requests = {r1, r2, r3}
  Verbs = {"punch", "correct"}
  PunchSources = {"self_service"}
  Shifts = {}
  ZoneNames = {East}
  ZoneOffset <- MCZoneOffset
  DayLength = 2
  PunchClockSkew = 1
  PunchDedupeWindow = 0
  MaxInFlight = 1
  MaxTime = 1
  Stamps <- MCStamps
  MinutesPerHour = 60
  HourScale = 100
SYMMETRY Interchangeable
INVARIANTS
  PresentDaysAreSessionDays
  OvertimeAddsUp
  
PROPERTY PresenceAndOvertimeStand
