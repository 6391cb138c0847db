--------------------------- MODULE MCOvertimeLifecycle ---------------------------
(* Instances of OvertimeLifecycle for TLC.                                      *)
EXTENDS OvertimeLifecycle, TLC

Interchangeable == Permutations(Requests) \cup Permutations(Workers)
================================================================================
