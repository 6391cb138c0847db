------------------------------ MODULE PunchPolicy ------------------------------
(* The pure policy of the punch verbs: which punch instants are accepted, and   *)
(* which punch is a double tap.  Durations are ticks, so that instances can     *)
(* scale them down.                                                             *)
EXTENDS Nullable

CONSTANTS
  PunchClockSkew,     \* how far a client clock may be off (5 minutes)
  PunchDedupeWindow   \* a repeat within this window is a double tap (30 s)

ASSUME PunchPolicyAssumption == {PunchClockSkew, PunchDedupeWindow} \subseteq Nat

\* Mutant: punches of the future pass.
ValidatePunchTimeAnyFuture(at, reasoned, now) ==
  IF at < now - PunchClockSkew /\ ~reasoned THEN "correction_reason_required" ELSE "ok"

\* The verdict on a punch instant: "ok", or the code of the refusal.
ValidatePunchTime(at, reasoned, now) ==
  IF at > now + PunchClockSkew THEN "future_punch"
  ELSE IF at < now - PunchClockSkew /\ ~reasoned THEN "correction_reason_required"
  ELSE "ok"

\* A punch repeats the last clock event: same direction, and not later than the
\* window after it.  The difference is signed, as in the code.
IsDoubleTap(last, dir, at) ==
  last.dir = dir /\ at - last.at <= PunchDedupeWindow
================================================================================
