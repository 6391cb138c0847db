------------------------------- MODULE PinPolicy -------------------------------
(* The pure policy of the kiosk PIN: when an attempt is throttled, and how the  *)
(* lockout grows with consecutive failures.  Durations are ticks.               *)
EXTENDS Nullable, FiniteSetsExt

CONSTANTS
  PinMaxAttempts,      \* failures before the first lockout (3)
  PinLockBase,         \* the first lockout; it doubles from there (30 s)
  PinLockMax,          \* the longest lockout (15 min)
  PinAttemptSpacing    \* the least time between two attempts (1 s)

ASSUME PinPolicyAssumption ==
  /\ PinMaxAttempts \in Nat \ {0}
  /\ {PinLockBase, PinLockMax, PinAttemptSpacing} \subseteq Nat

\* Mutant: the lockout starts one failure early.
LockoutFromPenultimate(attempts, now) ==
  IF attempts + 1 < PinMaxAttempts THEN None ELSE now + PinLockBase

\* Mutant: the lockout is subtracted from the clock.
LockoutBackwards(attempts, now) ==
  IF attempts < PinMaxAttempts THEN None ELSE now - PinLockBase

\* The end of the lockout after `attempts` consecutive failures, if there is one.
\* The shift that doubles it stops at 16.
LockoutUntil(attempts, now) ==
  IF attempts < PinMaxAttempts THEN None
  ELSE now + Min({PinLockBase * 2^Min({attempts - PinMaxAttempts, 16}), PinLockMax})

\* What an attempt at time t is told before the PIN is even looked at.
Throttle(row, t) ==
  IF row.lockedUntil # None /\ row.lockedUntil > t THEN "pin_locked"
  ELSE IF row.expires # None /\ row.expires <= t THEN "pin_expired"
  ELSE IF row.last # None /\ row.last + PinAttemptSpacing > t THEN "attempt_too_soon"
  ELSE "ok"
================================================================================
