--------------------------- MODULE MCAuditViews ----------------------------
(* One project and one environment besides "all"; each query on its own,   *)
(* the queries of an alert's drawer together with its details.             *)
EXTENDS AuditViews
CONSTANTS p1, e1

Singly ==
    {IF v \in {"related", "affected"} THEN {v, "detail"} ELSE {v} :
        v \in UNION {Mounted(p, [mode |-> m]) : p \in Pages, m \in {"dashboard", "grid"}}}
=============================================================================
