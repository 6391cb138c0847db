------------------------------ MODULE MCPunchClock ------------------------------
(* Instances of PunchClock for TLC.                                             *)
EXTENDS PunchClock, TLC

CONSTANT East   \* the name of a zone one tick east of UTC

MCZoneOffset == [z \in ZoneNames |-> 1]

\* Requests and session ids are interchangeable; employees are, too.
Interchangeable ==
  Permutations(Requests) \cup Permutations(SessionIds) \cup Permutations(Employees)
================================================================================
