------------------------------ MODULE MCStudio -----------------------------
(* One project besides "all", a saved report with one widget, and room for *)
(* a second widget and a second report.                                    *)
EXTENDS Studio
CONSTANTS p1, w1, w2
OneWidget == [w \in {w1} |-> "a"]
=============================================================================
