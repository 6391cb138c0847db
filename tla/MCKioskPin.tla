------------------------------- MODULE MCKioskPin -------------------------------
(* Instances of KioskPin for TLC.                                               *)
EXTENDS KioskPin, TLC

\* Requests, row ids, employees, badges and PINs are each interchangeable.
Interchangeable ==
  Permutations(Requests) \cup Permutations(PinIds) \cup Permutations(Employees)
  \cup Permutations(Badges) \cup Permutations(Secrets)
================================================================================
