SPECIFICATION Spec
CONSTANTS
  None = None
  Employees = {e1, e2}
  Badges = {b1, b2}
  Secrets = {x, y}
  Expiries = {1}
  PinIds = {p1, p2, p3}
  Requests = {r1, r2, r3}
  Verbs = {"attempt", "issue", "rotate", "unlock", "revoke"}
  ActingUnit = unit
  MaxInFlight = 2
  MaxTime = 1
  PinMaxAttempts = 2
  PinLockBase = 1
  PinLockMax = 2
  PinAttemptSpacing = 0
SYMMETRY Interchangeable
INVARIANTS
  TypeOK
  OneLivePin
  LockMatchesCounter
  LockedForCause
