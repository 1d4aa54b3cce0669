--------------------------- MODULE MCHealthMonitor ---------------------------
(* Instances of HealthMonitor for TLC. *)
EXTENDS HealthMonitor, TLC

(* Polling goroutines are interchangeable in the run that checks safety. *)
SlotSymmetry == Permutations(Slots)
=============================================================================
