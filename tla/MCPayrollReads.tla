----------------------------- MODULE MCPayrollReads -----------------------------
(* An instance of PayrollReads for TLC.                                         *)
EXTENDS PayrollReads, TLC

CONSTANT East   \* the name of a zone one tick east of UTC

MCZoneOffset == [z \in ZoneNames |-> 1]

\* A day that owes half an hour, one with no overtime, and a third of an hour.
MCStamps == {-30, 20}

Interchangeable == Permutations(Requests) \cup Permutations(SessionIds)
================================================================================
