----------------------------- MODULE AuditTrail -----------------------------
(***************************************************************************)
(* What the ingest path promises, without its parts.  A submission is      *)
(* received, and then either stored for good or lost; the Writer promises  *)
(* ("Audit received and will be processed") only what has been received.   *)
(* A lost submission, promised or not, may be received again while copies  *)
(* of its push are under way.  No two stored submissions share a row key.  *)
(***************************************************************************)
CONSTANTS
    Submissions,  \* posts an SDK may make
    RowKey(_)     \* the primary key a submission would be stored under

VARIABLES
    status,       \* of each submission
    promised      \* the submissions answered with 202

trailVars == <<status, promised>>

Init ==
    /\ status = [s \in Submissions |-> "absent"]
    /\ promised = {}

(* a submission enters the system, again perhaps, when a delayed copy of it
   shows up after it was lost *)
Receive(s) ==
    /\ status[s] \in {"absent", "lost"}
    /\ status' = [status EXCEPT ![s] = "pending"]
    /\ UNCHANGED promised

Promise(s) ==
    /\ status[s] # "absent" /\ s \notin promised
    /\ promised' = promised \union {s}
    /\ UNCHANGED status

Store(s) ==
    /\ status[s] = "pending"
    /\ \A r \in Submissions : status[r] = "stored" => RowKey(r) # RowKey(s)
    /\ status' = [status EXCEPT ![s] = "stored"]
    /\ UNCHANGED promised

(* one failure may lose several submissions *)
Lose(S) ==
    /\ \A s \in S : status[s] = "pending"
    /\ status' = [s \in Submissions |-> IF s \in S THEN "lost" ELSE status[s]]
    /\ UNCHANGED promised

Next ==
    \/ \E s \in Submissions : Receive(s) \/ Promise(s) \/ Store(s)
    \/ \E S \in SUBSET Submissions : Lose(S)

Spec == Init /\ [][Next]_trailVars
=============================================================================
