-------------------------- MODULE MCCorrectionLifecycle --------------------------
(* Instances of CorrectionLifecycle for TLC.                                    *)
EXTENDS CorrectionLifecycle, TLC

Interchangeable ==
  Permutations(Corrections) \cup Permutations(Sessions) \cup Permutations(Workers)
================================================================================
