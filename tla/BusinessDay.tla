------------------------------ MODULE BusinessDay ------------------------------
(* The business day: which calendar day and which wall-clock time an instant   *)
(* belongs to.  Every day boundary of the module goes through these operators. *)
(* Instants and zone offsets are integers on one time scale; a calendar day is *)
(* DayLength of them.  A zone is its offset: daylight saving is left out.      *)
EXTENDS Integers

CONSTANTS
  DayLength,     \* how many ticks a calendar day has
  ZoneNames,     \* the IANA names the time-zone database knows
  ZoneOffset     \* [ZoneNames -> Int], the offset of each of them

ASSUME DayLengthAssumption == DayLength \in Nat \ {0}
ASSUME ZoneAssumption == ZoneOffset \in [ZoneNames -> Int]

\* UTC, which answers for a setting that is absent or not the name of a zone.
UTC == 0

\* The zone a settings value names.
ParseTimezone(name) == IF name \in ZoneNames THEN ZoneOffset[name] ELSE UTC

\* The calendar day instant `at` falls on in a zone.
BusinessDate(at, zone) == (at + zone) \div DayLength

\* The wall-clock time instant `at` reads in a zone.
WallTime(at, zone) == (at + zone) % DayLength
================================================================================
