---------------------------- MODULE MCWorkerPool ----------------------------
(* Instances of WorkerPool for TLC. *)
EXTENDS WorkerPool, TLC

(* Goroutines are interchangeable in the runs that check safety. *)
SlotSymmetry == Permutations(Slots)
=============================================================================
