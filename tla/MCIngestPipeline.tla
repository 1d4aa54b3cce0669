-------------------------- MODULE MCIngestPipeline --------------------------
(* Instances of IngestPipeline for TLC.  An event is named after its kind. *)
EXTENDS IngestPipeline, TLC

MethodByName == [e \in Events |-> IF e = "bare" THEN Missing ELSE "POST"]

(* Worker goroutines are interchangeable in the runs that check safety. *)
WorkerSymmetry == Permutations(Workers)
=============================================================================
