------------------------------ MODULE MCTiering ------------------------------
(* Instances of Tiering for TLC.  Events are numbered
   by the tick of their timestamp. *)
EXTENDS Tiering

StampByNumber == [e \in Events |-> e]

AllHttp == [e \in Events |-> "http"]
=============================================================================
