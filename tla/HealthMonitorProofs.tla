------------------------- MODULE HealthMonitorProofs -------------------------
(***************************************************************************)
(* Proofs about HealthMonitor for any number of monitors, requests,        *)
(* goroutines, edits and processes: its type invariant, that the map of    *)
(* cancel functions and the polling goroutines agree, by how much the      *)
(* limit of monitors can be passed, and that the events of a monitor are   *)
(* its transitions.                                                        *)
(***************************************************************************)
EXTENDS HealthMonitor, FiniteSetTheorems, TLAPS

(* A goroutine that is alive has all the fields of one, and the record of a
   goroutine is never the mark of a free slot. *)
LEMMA GoroutineShape ==
  ASSUME TypeOK, NEW g \in Slots
  PROVE  /\ poll[g] \in Goroutines \union {Free}
         /\ poll[g].stage # "free" <=> poll[g] \in Goroutines
         /\ poll[g].stage = "free" <=> poll[g] = Free
BY DEF TypeOK, Goroutines, Stages, Free

(* What a request holds, read from its operation. *)
LEMMA RequestShape ==
  ASSUME TypeOK, NEW r \in Requests
  PROVE  /\ request[r] \in Held \union {NoRequest}
         /\ request[r].op = "update" => request[r].monitor \in Monitors /\ request[r].row \in Rows
BY DEF TypeOK, Held, NoRequest

-----------------------------------------------------------------------------
(* Type correctness *)

(* The type invariant holds initially. *)
LEMMA TypeInit == Init => TypeOK
<1>. SUFFICES ASSUME Init PROVE TypeOK
  OBVIOUS
<1>1. Existing = {} /\ DOMAIN cancels = {}
  BY DEF Init, Existing
<1>2. Range(cancels) = {}
  BY <1>1 DEF Range
<1>3. /\ request \in [Requests -> Held \union {NoRequest}]
      /\ poll \in [Slots -> Goroutines \union {Free}]
  BY DEF Init
<1>4. edits \in 0..MaxEdits /\ processes \in Nat
  BY MonitorAssumption DEF Init
<1>. QED  BY <1>1, <1>2, <1>3, <1>4 DEF Init, TypeOK, Answers

(* Every step keeps the types. *)
LEMMA TypeStep == TypeOK /\ [Next]_vars => TypeOK'
<1>. SUFFICES ASSUME TypeOK, [Next]_vars PROVE TypeOK'
  OBVIOUS
<1>. USE DEF TypeOK, Existing
<1>0. /\ NoRequest \in Held \union {NoRequest}
      /\ [op |-> "create"] \in Held
      /\ "up" \in Answers /\ "unknown" \in Statuses /\ Answers \subseteq Statuses
  BY DEF Held, Answers, Statuses
<1>1. ASSUME NEW g \in Slots, NEW record \in Goroutines, SetPoll(g, record)
      PROVE  poll' \in [Slots -> Goroutines \union {Free}]
  BY <1>1 DEF SetPoll
<1>2. ASSUME NEW g \in Slots, poll[g].stage # "free", Wait(g)
      PROVE  poll' \in [Slots -> Goroutines \union {Free}]
  <2>1. poll[g] \in Goroutines
    BY <1>2, GoroutineShape
  <2>2. [poll[g] EXCEPT !.stage = "waiting", !.prev = "unknown", !.outcome = "up"] \in Goroutines
    BY <2>1 DEF Goroutines, Stages, Statuses, Answers
  <2>. QED  BY <1>1, <1>2, <2>2 DEF Wait
<1>3. ASSUME NEW g \in Slots, poll[g].stage = "recording", AfterRecord(g)
      PROVE  poll' \in [Slots -> Goroutines \union {Free}]
  <2>1. poll[g] \in Goroutines
    BY <1>3, GoroutineShape
  <2>2. [poll[g] EXCEPT !.stage = "firing"] \in Goroutines
    BY <2>1 DEF Goroutines, Stages
  <2>. QED  BY <1>1, <1>2, <1>3, <2>2 DEF AfterRecord
<1>4. ASSUME NEW r \in Requests, CountMonitors(r) PROVE TypeOK'
  BY <1>4, <1>0 DEF CountMonitors, pollerVars, eventVars
<1>5. ASSUME NEW r \in Requests, CreateMonitor(r) PROVE TypeOK'
  <2>1. PICK m \in Monitors : PutRow(m, [enabled |-> TRUE, last |-> "unknown"])
    BY <1>5 DEF CreateMonitor
  <2>2. DOMAIN rows' \subseteq Monitors /\ \A x \in DOMAIN rows' : rows'[x] \in Rows
    BY <2>1, <1>0 DEF PutRow, Rows
  <2>. QED  BY <1>5, <1>0, <2>2 DEF CreateMonitor, pollerVars, eventVars
<1>6. ASSUME NEW r \in Requests, ReadForUpdate(r) PROVE TypeOK'
  <2>1. PICK m \in Existing, enable \in BOOLEAN :
           request' = [request EXCEPT ![r] = [op |-> "update", monitor |-> m,
                                               row |-> [rows[m] EXCEPT !.enabled = enable]]]
    BY <1>6 DEF ReadForUpdate
  <2>2. [rows[m] EXCEPT !.enabled = enable] \in Rows
    BY DEF Rows
  <2>3. [op |-> "update", monitor |-> m, row |-> [rows[m] EXCEPT !.enabled = enable]] \in Held
    BY <2>2 DEF Held
  <2>4. edits' \in 0..MaxEdits
    BY <1>6, MonitorAssumption DEF ReadForUpdate
  <2>. QED  BY <1>6, <2>1, <2>3, <2>4 DEF ReadForUpdate, pollerVars, eventVars
<1>7. ASSUME NEW r \in Requests, SaveUpdate(r) PROVE TypeOK'
  <2>1. request[r].monitor \in Monitors /\ request[r].row \in Rows
    BY <1>7, RequestShape DEF SaveUpdate
  <2>2. DOMAIN rows' \subseteq Monitors /\ \A x \in DOMAIN rows' : rows'[x] \in Rows
    BY <1>7, <2>1 DEF SaveUpdate, PutRow
  <2>. QED  BY <1>7, <1>0, <2>1, <2>2 DEF SaveUpdate, pollerVars
<1>8. ASSUME NEW r \in Requests, RequestFails(r) PROVE TypeOK'
  BY <1>8, <1>0 DEF RequestFails, pollerVars, eventVars
<1>9. ASSUME NEW m \in Monitors, DeleteMonitor(m) PROVE TypeOK'
  BY <1>9 DEF DeleteMonitor, Restrict, readerVars, pollerVars, eventVars
<1>10. ASSUME NEW m \in Monitors, ServiceChanges(m) PROVE TypeOK'
  BY <1>10 DEF ServiceChanges, Answers, readerVars, pollerVars, eventVars
<1>11. CASE ListAllEnabled
  BY <1>11 DEF ListAllEnabled, Enabled, readerVars, eventVars
<1>12. CASE Reconcile
  <2>1. PICK new \in Injection(listed \ DOMAIN cancels, FreeSlots) :
           LET stopped == {cancels[m] : m \in DOMAIN cancels \ listed}
           IN  /\ cancels' = [m \in listed |->
                                IF m \in DOMAIN cancels THEN cancels[m] ELSE new[m]]
               /\ poll' = [g \in Slots |->
                             IF g \in stopped /\ poll[g].stage # "free"
                             THEN [poll[g] EXCEPT !.cancelled = TRUE]
                             ELSE IF g \in Range(new)
                             THEN Started(CHOOSE m \in DOMAIN new : new[m] = g)
                             ELSE poll[g]]
    BY <1>12 DEF Reconcile
  <2>2. new \in [listed \ DOMAIN cancels -> Slots]
    BY DEF Injection, IsInjective, FreeSlots
  <2>3. DOMAIN cancels' \subseteq Monitors /\ Range(cancels') \subseteq Slots
    BY <2>1, <2>2 DEF Range
  <2>4. ASSUME NEW g \in Slots, poll[g].stage # "free"
        PROVE  [poll[g] EXCEPT !.cancelled = TRUE] \in Goroutines
    <3>1. poll[g] \in Goroutines
      BY <2>4, GoroutineShape
    <3>. QED  BY <3>1 DEF Goroutines
  <2>5. ASSUME NEW g \in Range(new)
        PROVE  Started(CHOOSE m \in DOMAIN new : new[m] = g) \in Goroutines
    <3>1. (CHOOSE m \in DOMAIN new : new[m] = g) \in Monitors
      BY <2>2 DEF Range
    <3>. QED  BY <3>1 DEF Started, Goroutines, Stages, Statuses, Answers
  <2>6. poll' \in [Slots -> Goroutines \union {Free}]
    BY <2>1, <2>4, <2>5
  <2>. QED  BY <1>12, <2>3, <2>6 DEF Reconcile, readerVars, eventVars
<1>13. CASE Shutdown
  <2>1. ASSUME NEW g \in Slots, poll[g].stage # "free"
        PROVE  [poll[g] EXCEPT !.cancelled = TRUE] \in Goroutines
    <3>1. poll[g] \in Goroutines
      BY <2>1, GoroutineShape
    <3>. QED  BY <3>1 DEF Goroutines
  <2>2. poll' \in [Slots -> Goroutines \union {Free}]
    BY <1>13, <2>1 DEF Shutdown
  <2>. QED  BY <1>13, <2>2 DEF Shutdown, readerVars, eventVars
<1>14. CASE NewProcess
  <2>1. \A g \in Slots : poll[g].stage = "firing" => poll[g].monitor \in Monitors
    BY GoroutineShape DEF Goroutines
  <2>2. DOMAIN cancels' \subseteq Monitors /\ Range(cancels') \subseteq Slots
    BY <1>14 DEF NewProcess, Range
  <2>3. disturbed' \subseteq Monitors
    BY <1>14, <2>1 DEF NewProcess
  <2>4. poll' \in [Slots -> Goroutines \union {Free}] /\ processes' \in Nat
    BY <1>14 DEF NewProcess
  <2>. QED  BY <1>14, <2>2, <2>3, <2>4 DEF NewProcess, readerVars
<1>15. ASSUME NEW g \in Slots, BeginCheck(g) PROVE TypeOK'
  <2>1. poll[g] \in Goroutines /\ poll[g].stage # "free"
    BY <1>15, GoroutineShape DEF BeginCheck
  <2>2. ASSUME poll[g].monitor \in Enabled
        PROVE  [poll[g] EXCEPT !.stage = "requesting", !.prev = rows[poll[g].monitor].last] \in Goroutines
    BY <2>1, <2>2 DEF Goroutines, Stages, Enabled, Rows
  <2>3. poll' \in [Slots -> Goroutines \union {Free}]
    BY <1>15, <1>1, <1>2, <2>1, <2>2 DEF BeginCheck
  <2>. QED  BY <1>15, <2>3 DEF BeginCheck, readerVars, pollerVars, eventVars
<1>16. ASSUME NEW g \in Slots, Answer(g) PROVE TypeOK'
  <2>1. poll[g] \in Goroutines
    BY <1>16, GoroutineShape DEF Answer
  <2>2. PICK outcome \in Answers :
           SetPoll(g, [poll[g] EXCEPT !.stage = "recording", !.outcome = outcome])
    BY <1>16, <2>1 DEF Answer, Goroutines, Answers
  <2>3. [poll[g] EXCEPT !.stage = "recording", !.outcome = outcome] \in Goroutines
    BY <2>1 DEF Goroutines, Stages
  <2>4. poll' \in [Slots -> Goroutines \union {Free}]
    BY <1>1, <2>2, <2>3
  <2>. QED  BY <1>16, <2>4 DEF Answer, readerVars, pollerVars, eventVars
<1>17. ASSUME NEW g \in Slots, UpdateStatus(g) PROVE TypeOK'
  <2>1. poll[g].outcome \in Answers
    BY <1>17, GoroutineShape DEF UpdateStatus, Goroutines
  <2>2. DOMAIN rows' \subseteq Monitors /\ \A x \in DOMAIN rows' : rows'[x] \in Rows
    BY <1>17, <1>0, <2>1 DEF UpdateStatus, Rows
  <2>3. poll' \in [Slots -> Goroutines \union {Free}]
    BY <1>17, <1>3 DEF UpdateStatus
  <2>. QED  BY <1>17, <2>2, <2>3 DEF UpdateStatus, readerVars, pollerVars, eventVars
<1>18. ASSUME NEW g \in Slots, UpdateStatusFails(g) PROVE TypeOK'
  <2>1. poll[g].monitor \in Monitors
    BY <1>18, GoroutineShape DEF UpdateStatusFails, Goroutines
  <2>2. poll' \in [Slots -> Goroutines \union {Free}]
    BY <1>18, <1>3 DEF UpdateStatusFails
  <2>. QED  BY <1>18, <2>1, <2>2 DEF UpdateStatusFails, readerVars, pollerVars
<1>19. ASSUME NEW g \in Slots, Fire(g) PROVE TypeOK'
  <2>1. poll[g].monitor \in Monitors /\ poll[g].outcome \in Answers
    BY <1>19, GoroutineShape DEF Fire, Goroutines
  <2>2. poll' \in [Slots -> Goroutines \union {Free}]
    BY <1>19, <1>2 DEF Fire
  <2>. QED  BY <1>19, <2>1, <2>2 DEF Fire, readerVars, pollerVars
<1>20. ASSUME NEW g \in Slots, FireFails(g) PROVE TypeOK'
  <2>1. poll[g].monitor \in Monitors
    BY <1>20, GoroutineShape DEF FireFails, Goroutines
  <2>2. poll' \in [Slots -> Goroutines \union {Free}]
    BY <1>20, <1>2 DEF FireFails
  <2>. QED  BY <1>20, <2>1, <2>2 DEF FireFails, readerVars, pollerVars
<1>21. ASSUME NEW g \in Slots, Exit(g) PROVE TypeOK'
  BY <1>21 DEF Exit, SetPoll, readerVars, pollerVars, eventVars
<1>22. CASE UNCHANGED vars
  BY <1>22 DEF vars, readerVars, pollerVars, eventVars
<1>. QED
  BY <1>4, <1>5, <1>6, <1>7, <1>8, <1>9, <1>10, <1>11, <1>12, <1>13, <1>14, <1>15,
     <1>16, <1>17, <1>18, <1>19, <1>20, <1>21, <1>22
     DEF Next, ReaderStep, CheckStep

(* Type correctness of the monitors, the requests in flight, the map of
   cancel functions and the polling goroutines. *)
THEOREM MonitorTypeOK == Spec => []TypeOK
BY TypeInit, TypeStep, PTL DEF Spec

-----------------------------------------------------------------------------
(* The map of cancel functions *)

(* What makes PollersConsistent inductive: once the context of the process is
   done, every goroutine is cancelled, also one that a last reload starts. *)
PollersInv ==
    /\ PollersConsistent
    /\ ctxDone => \A g \in Slots : Alive(g) => poll[g].cancelled

(* The parts of the state that PollersInv reads: a step that leaves the map,
   the context and, of every goroutine, its life, its monitor and whether it
   is cancelled as they are, keeps it. *)
LEMMA SamePollers ==
  ASSUME TypeOK, PollersInv, UNCHANGED <<cancels, ctxDone>>,
         \A g \in Slots :
            /\ (poll[g].stage = "free")' <=> poll[g].stage = "free"
            /\ poll[g].stage # "free" =>
                  (poll[g].monitor)' = poll[g].monitor /\ (poll[g].cancelled)' = poll[g].cancelled
  PROVE  PollersInv'
<1>1. \A m \in DOMAIN cancels : cancels[m] \in Slots
  BY DEF TypeOK, Range
<1>. QED  BY <1>1 DEF PollersInv, PollersConsistent, Alive

(* A check that goes on or ends is such a step. *)
LEMMA SameAfterCheck ==
  ASSUME TypeOK, PollersInv, UNCHANGED <<cancels, ctxDone>>,
         NEW g \in Slots, poll[g].stage # "free",
         NEW record \in Goroutines, SetPoll(g, record),
         record.monitor = poll[g].monitor, record.cancelled = poll[g].cancelled
  PROVE  PollersInv'
<1>1. poll' = [poll EXCEPT ![g] = record] /\ record.stage # "free"
  BY DEF SetPoll, Goroutines, Stages
<1>. QED  BY <1>1, SamePollers DEF TypeOK

(* So is the return to the select. *)
LEMMA SameAfterWait ==
  ASSUME TypeOK, PollersInv, UNCHANGED <<cancels, ctxDone>>,
         NEW g \in Slots, poll[g].stage # "free", Wait(g)
  PROVE  PollersInv'
<1>1. poll[g] \in Goroutines
  BY GoroutineShape
<1>. DEFINE record == [poll[g] EXCEPT !.stage = "waiting", !.prev = "unknown", !.outcome = "up"]
<1>2. /\ record \in Goroutines
      /\ record.monitor = poll[g].monitor /\ record.cancelled = poll[g].cancelled
  BY <1>1 DEF Goroutines, Stages, Statuses, Answers
<1>3. SetPoll(g, record)
  BY DEF Wait
<1>. HIDE DEF record
<1>. QED  BY <1>2, <1>3, SameAfterCheck

(* And so is what follows the comparison with the previous status. *)
LEMMA SameAfterRecord ==
  ASSUME TypeOK, PollersInv, UNCHANGED <<cancels, ctxDone>>,
         NEW g \in Slots, poll[g].stage = "recording", AfterRecord(g)
  PROVE  PollersInv'
<1>1. poll[g] \in Goroutines
  BY GoroutineShape
<1>. DEFINE record == [poll[g] EXCEPT !.stage = "firing"]
<1>2. /\ record \in Goroutines
      /\ record.monitor = poll[g].monitor /\ record.cancelled = poll[g].cancelled
  BY <1>1 DEF Goroutines, Stages
<1>3. Wait(g) \/ SetPoll(g, record)
  BY DEF AfterRecord
<1>. HIDE DEF record
<1>. QED  BY <1>2, <1>3, SameAfterCheck, SameAfterWait

(* Every step keeps the map and the goroutines consistent. *)
LEMMA PollersStep == TypeOK /\ PollersInv /\ [Next]_vars => PollersInv'
<1>. SUFFICES ASSUME TypeOK, PollersInv, [Next]_vars PROVE PollersInv'
  OBVIOUS
<1>1. ASSUME NEW r \in Requests, ReaderStep(r) PROVE PollersInv'
  BY <1>1, SamePollers
     DEF ReaderStep, CountMonitors, CreateMonitor, ReadForUpdate, SaveUpdate, RequestFails, pollerVars
<1>2. ASSUME NEW m \in Monitors, DeleteMonitor(m) \/ ServiceChanges(m) PROVE PollersInv'
  BY <1>2, SamePollers DEF DeleteMonitor, ServiceChanges, pollerVars
<1>3. CASE ListAllEnabled
  BY <1>3, SamePollers DEF ListAllEnabled
<1>4. CASE Reconcile
  <2>1. PICK new \in Injection(listed \ DOMAIN cancels, FreeSlots) :
           LET stopped == {cancels[m] : m \in DOMAIN cancels \ listed}
           IN  /\ cancels' = [m \in listed |->
                                IF m \in DOMAIN cancels THEN cancels[m] ELSE new[m]]
               /\ poll' = [g \in Slots |->
                             IF g \in stopped /\ poll[g].stage # "free"
                             THEN [poll[g] EXCEPT !.cancelled = TRUE]
                             ELSE IF g \in Range(new)
                             THEN Started(CHOOSE m \in DOMAIN new : new[m] = g)
                             ELSE poll[g]]
    BY <1>4 DEF Reconcile
  <2>. DEFINE stopped == {cancels[m] : m \in DOMAIN cancels \ listed}
              owner(g) == CHOOSE m \in DOMAIN new : new[m] = g
  <2>2. /\ new \in [listed \ DOMAIN cancels -> Slots]
        /\ \A m \in DOMAIN new : poll[new[m]].stage = "free"
        /\ \A m, n \in DOMAIN new : new[m] = new[n] => m = n
    BY DEF Injection, IsInjective, FreeSlots
  <2>3. \A m \in DOMAIN cancels : cancels[m] \in Slots
    BY DEF TypeOK, Range
  <2>4. ASSUME NEW g \in stopped, poll[g].stage # "free"
        PROVE  /\ (poll[g].stage)' = poll[g].stage
               /\ (poll[g].cancelled)' = TRUE
    <3>1. g \in Slots /\ poll[g] \in Goroutines
      BY <2>3, <2>4, GoroutineShape
    <3>2. poll'[g] = [poll[g] EXCEPT !.cancelled = TRUE]
      BY <2>1, <2>4, <3>1
    <3>. QED  BY <3>1, <3>2 DEF Goroutines
  <2>5. ASSUME NEW m \in DOMAIN new
        PROVE  /\ new[m] \in Slots
               /\ (poll[new[m]].stage)' = "started"
               /\ (poll[new[m]].monitor)' = m
               /\ (poll[new[m]].cancelled)' = ctxDone
    <3>1. new[m] \in Slots /\ new[m] \in Range(new) /\ poll[new[m]].stage = "free"
      BY <2>2 DEF Range
    <3>2. owner(new[m]) = m
      BY <2>2
    <3>3. poll'[new[m]] = Started(m)
      BY <2>1, <3>1, <3>2
    <3>. QED  BY <3>1, <3>3 DEF Started
  <2>6. ASSUME NEW g \in Slots, g \notin Range(new), g \notin stopped \/ poll[g].stage = "free"
        PROVE  poll'[g] = poll[g]
    BY <2>1, <2>6
  <2>7. ctxDone' = ctxDone
    BY <1>4 DEF Reconcile
  <2>8. ASSUME NEW g \in Slots
        PROVE  \/ \E m \in DOMAIN new : g = new[m]
               \/ g \in stopped /\ poll[g].stage # "free"
               \/ poll'[g] = poll[g]
    BY <2>6 DEF Range
  <2>9. ASSUME ctxDone, NEW g \in Slots, Alive(g)' PROVE (poll[g].cancelled)'
    BY <2>4, <2>5, <2>8, <2>9 DEF Alive, PollersInv
  <2>10. ASSUME ~ctxDone, NEW m \in DOMAIN cancels'
         PROVE  /\ Alive(cancels[m])'
                /\ (poll[cancels[m]].monitor)' = m /\ ~(poll[cancels[m]].cancelled)'
    <3>1. CASE m \in DOMAIN cancels
      <4>1. cancels'[m] = cancels[m] /\ m \in listed
        BY <2>1, <3>1
      <4>2. Alive(cancels[m]) /\ poll[cancels[m]].monitor = m /\ ~poll[cancels[m]].cancelled
        BY <2>10, <3>1 DEF PollersInv, PollersConsistent
      <4>3. cancels[m] \notin Range(new)
        BY <2>2, <4>2 DEF Range, Alive
      <4>4. cancels[m] \notin stopped
        BY <2>10, <4>1, <4>2 DEF PollersInv, PollersConsistent
      <4>5. poll'[cancels[m]] = poll[cancels[m]]
        BY <2>3, <2>6, <3>1, <4>3, <4>4
      <4>. QED  BY <4>1, <4>2, <4>5 DEF Alive
    <3>2. CASE m \notin DOMAIN cancels
      <4>1. cancels'[m] = new[m] /\ m \in DOMAIN new
        BY <2>1, <2>2, <2>10, <3>2
      <4>. QED  BY <2>5, <2>10, <4>1 DEF Alive
    <3>. QED  BY <3>1, <3>2
  <2>11. ASSUME ~ctxDone, NEW g \in Slots, Alive(g)', ~(poll[g].cancelled)'
         PROVE  (poll[g].monitor)' \in DOMAIN cancels' /\ cancels'[(poll[g].monitor)'] = g
    <3>1. CASE \E m \in DOMAIN new : g = new[m]
      <4>1. PICK m \in DOMAIN new : g = new[m]
        BY <3>1
      <4>2. m \in listed /\ m \notin DOMAIN cancels
        BY <2>2
      <4>3. (poll[g].monitor)' = m
        BY <2>5, <4>1
      <4>4. m \in DOMAIN cancels' /\ cancels'[m] = new[m]
        BY <2>1, <4>2
      <4>. QED  BY <4>1, <4>3, <4>4
    <3>2. CASE poll'[g] = poll[g] /\ g \notin stopped
      <4>1. poll[g].monitor \in DOMAIN cancels /\ cancels[poll[g].monitor] = g
        BY <2>11, <3>2 DEF PollersInv, PollersConsistent, Alive
      <4>2. poll[g].monitor \in listed
        BY <3>2, <4>1
      <4>. QED  BY <2>1, <3>2, <4>1, <4>2
    <3>3. CASE poll'[g] = poll[g] /\ g \in stopped
      BY <2>4, <2>11, <3>3 DEF Alive
    <3>. QED  BY <2>4, <2>8, <2>11, <3>1, <3>2, <3>3
  <2>. QED  BY <2>7, <2>9, <2>10, <2>11 DEF PollersInv, PollersConsistent
<1>5. CASE Shutdown
  <2>1. ASSUME NEW g \in Slots, Alive(g)' PROVE (poll[g].cancelled)'
    <3>1. poll[g].stage # "free"
      BY <1>5, <2>1 DEF Shutdown, Alive, Free
    <3>2. poll[g] \in Goroutines
      BY <3>1, GoroutineShape
    <3>3. poll'[g] = [poll[g] EXCEPT !.cancelled = TRUE]
      BY <1>5, <3>1 DEF Shutdown
    <3>. QED  BY <3>2, <3>3 DEF Goroutines
  <2>. QED  BY <1>5, <2>1 DEF Shutdown, PollersInv, PollersConsistent
<1>6. CASE NewProcess
  BY <1>6 DEF NewProcess, Free, Alive, PollersInv, PollersConsistent
<1>7. ASSUME NEW g \in Slots, BeginCheck(g) PROVE PollersInv'
  <2>1. poll[g].stage # "free" /\ poll[g] \in Goroutines
    BY <1>7, GoroutineShape DEF BeginCheck
  <2>. DEFINE record == [poll[g] EXCEPT !.stage = "requesting", !.prev = rows[poll[g].monitor].last]
  <2>2. UNCHANGED <<cancels, ctxDone>>
    BY <1>7 DEF BeginCheck, pollerVars
  <2>3. Wait(g) \/ (poll[g].monitor \in Enabled /\ SetPoll(g, record))
    BY <1>7 DEF BeginCheck
  <2>4. ASSUME poll[g].monitor \in Enabled
        PROVE  /\ record \in Goroutines
               /\ record.monitor = poll[g].monitor /\ record.cancelled = poll[g].cancelled
    BY <2>1, <2>4 DEF Goroutines, Stages, Enabled, TypeOK, Rows
  <2>. HIDE DEF record
  <2>. QED  BY <2>1, <2>2, <2>3, <2>4, SameAfterCheck, SameAfterWait
<1>8. ASSUME NEW g \in Slots, Answer(g) PROVE PollersInv'
  <2>1. poll[g].stage # "free" /\ poll[g] \in Goroutines
    BY <1>8, GoroutineShape DEF Answer
  <2>2. PICK outcome \in Answers :
           SetPoll(g, [poll[g] EXCEPT !.stage = "recording", !.outcome = outcome])
    BY <1>8, <2>1 DEF Answer, Goroutines, Answers, TypeOK
  <2>. DEFINE record == [poll[g] EXCEPT !.stage = "recording", !.outcome = outcome]
  <2>3. /\ record \in Goroutines
        /\ record.monitor = poll[g].monitor /\ record.cancelled = poll[g].cancelled
    BY <2>1 DEF Goroutines, Stages
  <2>4. SetPoll(g, record)
    BY <2>2
  <2>5. UNCHANGED <<cancels, ctxDone>>
    BY <1>8 DEF Answer, pollerVars
  <2>. HIDE DEF record
  <2>. QED  BY <2>1, <2>3, <2>4, <2>5, SameAfterCheck
<1>9. ASSUME NEW g \in Slots, UpdateStatus(g) \/ UpdateStatusFails(g) PROVE PollersInv'
  BY <1>9, SameAfterRecord DEF UpdateStatus, UpdateStatusFails, pollerVars
<1>10. ASSUME NEW g \in Slots, Fire(g) \/ FireFails(g) PROVE PollersInv'
  BY <1>10, SameAfterWait DEF Fire, FireFails, pollerVars
<1>11. ASSUME NEW g \in Slots, Exit(g) PROVE PollersInv'
  <2>1. /\ poll' = [poll EXCEPT ![g] = Free] /\ UNCHANGED <<cancels, ctxDone>>
        /\ poll[g].stage = "waiting" /\ poll[g].cancelled
    BY <1>11 DEF Exit, SetPoll, pollerVars
  <2>2. ~Alive(g)' /\ \A h \in Slots \ {g} : poll'[h] = poll[h]
    BY <2>1 DEF Alive, Free, TypeOK
  <2>3. \A m \in DOMAIN cancels : cancels[m] \in Slots
    BY DEF TypeOK, Range
  <2>4. ~ctxDone => \A m \in DOMAIN cancels : cancels[m] # g
    BY <2>1 DEF PollersInv, PollersConsistent
  <2>. QED  BY <2>1, <2>2, <2>3, <2>4 DEF PollersInv, PollersConsistent, Alive
<1>12. CASE UNCHANGED vars
  BY <1>12, SamePollers DEF vars, pollerVars
<1>. QED
  BY <1>1, <1>2, <1>3, <1>4, <1>5, <1>6, <1>7, <1>8, <1>9, <1>10, <1>11, <1>12
     DEF Next, CheckStep

(* As long as the worker process is not told to stop, reload can stop every
   polling goroutine, and no monitor is polled by two goroutines that were not
   told to stop: for every number of monitors and goroutines, any edits and
   deletions, and any restart. *)
THEOREM MonitorPollersConsistent == Spec => []PollersConsistent
<1>1. Init => PollersInv
  BY DEF Init, PollersInv, PollersConsistent, Alive, Free
<1>2. PollersInv => PollersConsistent
  BY DEF PollersInv
<1>. QED  BY TypeInit, TypeStep, PollersStep, <1>1, <1>2, PTL DEF Spec

-----------------------------------------------------------------------------
(* The limit of monitors *)

Creating == {r \in Requests : request[r].op = "create"}

Updating == {r \in Requests : request[r].op = "update"}

(* rows that exist or that a pending Update would insert again *)
Possible == Existing \union {request[r].monitor : r \in Updating}

(* What makes LimitOvershoot inductive: it counts what the requests that are
   between their two statements may still add. *)
LimitInv == Cardinality(Possible) + Cardinality(Creating) + 1 <= MaxMonitors + Cardinality(Requests)

(* The size of a disjoint union. *)
LEMMA DisjointUnion ==
  ASSUME NEW S, NEW T, IsFiniteSet(S), IsFiniteSet(T), S \intersect T = {}
  PROVE  Cardinality(S \union T) = Cardinality(S) + Cardinality(T)
<1>1. Cardinality(S \union T) = Cardinality(S) + Cardinality(T) - Cardinality(S \intersect T)
  BY FS_Union
<1>2. Cardinality(S \intersect T) = 0
  BY FS_EmptySet
<1>3. Cardinality(S) \in Nat /\ Cardinality(T) \in Nat
  BY FS_CardinalityType
<1>. QED  BY <1>1, <1>2, <1>3

(* One more element. *)
LEMMA OneMore ==
  ASSUME NEW S, NEW x, IsFiniteSet(S)
  PROVE  /\ IsFiniteSet(S \union {x})
         /\ Cardinality(S \union {x}) \in Nat
         /\ Cardinality(S \union {x}) <= Cardinality(S) + 1
<1>1. IsFiniteSet(S \union {x})
  BY FS_AddElement
<1>2. Cardinality(S \union {x}) = IF x \in S THEN Cardinality(S) ELSE Cardinality(S) + 1
  BY FS_AddElement
<1>3. Cardinality(S) \in Nat
  BY FS_CardinalityType
<1>. QED  BY <1>1, <1>2, <1>3

(* These sets are finite, and a request is in one of the two at most. *)
LEMMA LimitSets ==
  ASSUME TypeOK
  PROVE  /\ IsFiniteSet(Existing) /\ Cardinality(Existing) \in Nat
         /\ IsFiniteSet(Possible) /\ Cardinality(Possible) \in Nat
         /\ IsFiniteSet(Creating) /\ Cardinality(Creating) \in Nat
         /\ IsFiniteSet(Updating) /\ Cardinality(Updating) \in Nat
         /\ Cardinality(Requests) \in Nat
         /\ Cardinality(Creating) + Cardinality(Updating) <= Cardinality(Requests)
         /\ Cardinality(Possible) <= Cardinality(Existing) + Cardinality(Updating)
<1>1. Existing \subseteq Monitors /\ IsFiniteSet(Monitors)
  BY MonitorAssumption DEF TypeOK
<1>2. Possible \subseteq Monitors
  BY <1>1, RequestShape DEF Possible, Updating
<1>3. IsFiniteSet(Requests) /\ Creating \subseteq Requests /\ Updating \subseteq Requests
  BY MonitorAssumption DEF Creating, Updating
<1>4. /\ IsFiniteSet(Existing) /\ IsFiniteSet(Possible)
      /\ IsFiniteSet(Creating) /\ IsFiniteSet(Updating)
  BY <1>1, <1>2, <1>3, FS_Subset
<1>5. /\ Cardinality(Existing) \in Nat /\ Cardinality(Possible) \in Nat
      /\ Cardinality(Creating) \in Nat /\ Cardinality(Updating) \in Nat
      /\ Cardinality(Requests) \in Nat
  BY <1>3, <1>4, FS_CardinalityType
<1>6. Cardinality(Creating) + Cardinality(Updating) <= Cardinality(Requests)
  <2>1. Creating \intersect Updating = {} /\ Creating \union Updating \subseteq Requests
    BY DEF Creating, Updating
  <2>2. Cardinality(Creating \union Updating) <= Cardinality(Requests)
    BY <1>3, <2>1, FS_Subset
  <2>3. Cardinality(Creating \union Updating) = Cardinality(Creating) + Cardinality(Updating)
    BY <1>4, <2>1, DisjointUnion
  <2>. QED  BY <2>2, <2>3
<1>7. Cardinality(Possible) <= Cardinality(Existing) + Cardinality(Updating)
  <2>. DEFINE held == {request[r].monitor : r \in Updating}
              pick == [r \in Updating |-> request[r].monitor]
  <2>1. pick \in Surjection(Updating, held)
    BY DEF Surjection
  <2>2. IsFiniteSet(held) /\ Cardinality(held) <= Cardinality(Updating)
    BY <1>4, <2>1, FS_Surjection
  <2>3. Cardinality(held) \in Nat
    BY <2>2, FS_CardinalityType
  <2>4. IsFiniteSet(Existing \intersect held)
    BY <1>4, FS_Subset
  <2>5. Cardinality(Existing \intersect held) \in Nat
    BY <2>4, FS_CardinalityType
  <2>6. Possible = Existing \union held
    BY DEF Possible
  <2>. HIDE DEF held
  <2>7. Cardinality(Possible) = Cardinality(Existing) + Cardinality(held)
                                  - Cardinality(Existing \intersect held)
    BY <1>4, <2>2, <2>6, FS_Union
  <2>. QED  BY <1>5, <2>2, <2>3, <2>5, <2>7
<1>. QED  BY <1>4, <1>5, <1>6, <1>7

(* A step that adds neither a possible row nor a pending Create keeps it. *)
LEMMA LimitShrinks ==
  ASSUME TypeOK, TypeOK', LimitInv, Possible' \subseteq Possible, Creating' \subseteq Creating
  PROVE  LimitInv'
<1>1. /\ Cardinality(Possible') <= Cardinality(Possible)
      /\ Cardinality(Creating') <= Cardinality(Creating)
  BY LimitSets, FS_Subset
<1>2. Cardinality(Possible') \in Nat /\ Cardinality(Creating') \in Nat
  <2>1. IsFiniteSet(Possible') /\ IsFiniteSet(Creating')
    BY LimitSets, FS_Subset
  <2>. QED  BY <2>1, FS_CardinalityType
<1>. QED  BY <1>1, <1>2, LimitSets, MonitorAssumption DEF LimitInv

(* Every step keeps it. *)
LEMMA LimitStep == TypeOK /\ TypeOK' /\ LimitInv /\ [Next]_vars => LimitInv'
<1>. SUFFICES ASSUME TypeOK, TypeOK', LimitInv, [Next]_vars PROVE LimitInv'
  OBVIOUS
<1>0. ASSUME NEW r \in Requests, request' = [request EXCEPT ![r] = NoRequest]
      PROVE  /\ Creating' = Creating \ {r} /\ Updating' = Updating \ {r}
             /\ \A q \in Updating' : request'[q] = request[q]
  BY <1>0 DEF Creating, Updating, NoRequest, TypeOK
<1>1. ASSUME NEW r \in Requests, CountMonitors(r) PROVE LimitInv'
  <2>1. Updating' = Updating /\ Existing' = Existing /\ \A q \in Updating : request'[q] = request[q]
    BY <1>1 DEF CountMonitors, Updating, NoRequest, TypeOK, Existing
  <2>2. Possible' = Possible
    BY <2>1 DEF Possible
  <2>3. Cardinality(Existing) < MaxMonitors
    BY <1>1 DEF CountMonitors
  <2>4. Creating' \subseteq Creating \union {r} /\ Creating' \intersect Updating = {}
    BY <1>1, <2>1 DEF CountMonitors, Creating, Updating, NoRequest, TypeOK
  <2>5. Creating' \union Updating \subseteq Requests
    BY DEF Creating, Updating
  <2>6. IsFiniteSet(Creating') /\ IsFiniteSet(Requests)
    <3>1. IsFiniteSet(Requests) /\ Creating' \subseteq Requests
      BY <2>5, MonitorAssumption
    <3>. QED  BY <3>1, FS_Subset
  <2>7. Cardinality(Creating') \in Nat
    BY <2>6, FS_CardinalityType
  <2>8. Cardinality(Creating') + Cardinality(Updating) <= Cardinality(Requests)
    <3>1. Cardinality(Creating' \union Updating) = Cardinality(Creating') + Cardinality(Updating)
      BY <2>4, <2>6, LimitSets, DisjointUnion
    <3>2. Cardinality(Creating' \union Updating) <= Cardinality(Requests)
      BY <2>5, <2>6, FS_Subset
    <3>. QED  BY <3>1, <3>2
  <2>. QED  BY <2>2, <2>3, <2>7, <2>8, LimitSets, MonitorAssumption DEF LimitInv
<1>2. ASSUME NEW r \in Requests, CreateMonitor(r) PROVE LimitInv'
  <2>1. PICK m \in Monitors : PutRow(m, [enabled |-> TRUE, last |-> "unknown"])
    BY <1>2 DEF CreateMonitor
  <2>2. Creating' = Creating \ {r} /\ r \in Creating
    BY <1>0, <1>2 DEF CreateMonitor, Creating
  <2>3. Possible' \subseteq Possible \union {m}
    <3>1. Existing' = Existing \union {m}
      BY <2>1 DEF PutRow, Existing
    <3>2. Updating' \subseteq Updating /\ \A q \in Updating' : request'[q] = request[q]
      BY <1>0, <1>2 DEF CreateMonitor
    <3>. QED  BY <3>1, <3>2 DEF Possible
  <2>4. Cardinality(Creating') = Cardinality(Creating) - 1
    BY <2>2, LimitSets, FS_RemoveElement
  <2>5. /\ IsFiniteSet(Possible \union {m})
        /\ Cardinality(Possible \union {m}) <= Cardinality(Possible) + 1
        /\ Cardinality(Possible \union {m}) \in Nat
    BY LimitSets, OneMore
  <2>6. Cardinality(Possible') <= Cardinality(Possible \union {m}) /\ IsFiniteSet(Possible')
    BY <2>3, <2>5, FS_Subset
  <2>7. Cardinality(Possible') \in Nat
    BY <2>6, FS_CardinalityType
  <2>. QED  BY <2>4, <2>5, <2>6, <2>7, LimitSets, MonitorAssumption DEF LimitInv
<1>3. ASSUME NEW r \in Requests, ReadForUpdate(r) PROVE LimitInv'
  <2>1. PICK m \in Existing, enable \in BOOLEAN :
           request' = [request EXCEPT ![r] = [op |-> "update", monitor |-> m,
                                               row |-> [rows[m] EXCEPT !.enabled = enable]]]
    BY <1>3 DEF ReadForUpdate
  <2>2. Existing' = Existing
    BY <1>3 DEF ReadForUpdate, Existing
  <2>3. \A q \in Requests : q # r => request'[q] = request[q]
    BY <2>1 DEF TypeOK
  <2>4. request'[r].op = "update" /\ request'[r].monitor = m
    BY <2>1 DEF TypeOK
  <2>5. Creating' \subseteq Creating
    BY <2>3, <2>4 DEF Creating
  <2>6. Possible' \subseteq Possible
    BY <2>2, <2>3, <2>4 DEF Possible, Updating
  <2>. QED  BY <2>5, <2>6, LimitShrinks
<1>4. ASSUME NEW r \in Requests, SaveUpdate(r) PROVE LimitInv'
  <2>1. Existing' = Existing \union {request[r].monitor} /\ r \in Updating
    BY <1>4 DEF SaveUpdate, PutRow, Existing, Updating
  <2>2. Possible' \subseteq Possible /\ Creating' \subseteq Creating
    BY <1>0, <1>4, <2>1 DEF SaveUpdate, Possible
  <2>. QED  BY <2>2, LimitShrinks
<1>5. ASSUME NEW r \in Requests, RequestFails(r) PROVE LimitInv'
  <2>1. Possible' \subseteq Possible /\ Creating' \subseteq Creating
    BY <1>0, <1>5 DEF RequestFails, Possible, Existing
  <2>. QED  BY <2>1, LimitShrinks
<1>6. ASSUME Existing' \subseteq Existing, UNCHANGED request PROVE LimitInv'
  <2>1. Possible' \subseteq Possible /\ Creating' \subseteq Creating
    BY <1>6 DEF Possible, Creating, Updating
  <2>. QED  BY <2>1, LimitShrinks
<1>7. ASSUME NEW m \in Monitors, DeleteMonitor(m) \/ ServiceChanges(m) PROVE LimitInv'
  BY <1>6, <1>7 DEF DeleteMonitor, ServiceChanges, Restrict, Existing, readerVars
<1>8. CASE ListAllEnabled \/ Reconcile \/ Shutdown \/ NewProcess \/ UNCHANGED vars
  BY <1>6, <1>8 DEF ListAllEnabled, Reconcile, Shutdown, NewProcess, vars, Existing, readerVars
<1>9. ASSUME NEW g \in Slots, CheckStep(g) \/ UpdateStatusFails(g) \/ FireFails(g) \/ Exit(g)
      PROVE  LimitInv'
  BY <1>6, <1>9
     DEF CheckStep, BeginCheck, Answer, UpdateStatus, UpdateStatusFails, Fire, FireFails, Exit,
         Existing, readerVars
<1>. QED
  BY <1>1, <1>2, <1>3, <1>4, <1>5, <1>7, <1>8, <1>9 DEF Next, ReaderStep

(* Create's count and insert are two statements, and Update may insert a row
   again: the limit of monitors is passed by at most one monitor less than
   there are requests at the same time, however many there are. *)
THEOREM MonitorLimitOvershoot == Spec => []LimitOvershoot
<1>1. Init => LimitInv
  <2>. SUFFICES ASSUME Init PROVE LimitInv
    OBVIOUS
  <2>1. Updating = {} /\ Creating = {} /\ Existing = {}
    BY DEF Init, Updating, Creating, NoRequest, Existing
  <2>2. Possible = {}
    BY <2>1 DEF Possible
  <2>3. Cardinality(Requests) \in Nat
    BY MonitorAssumption, FS_CardinalityType
  <2>. QED  BY <2>1, <2>2, <2>3, FS_EmptySet, MonitorAssumption DEF LimitInv
<1>2. TypeOK /\ LimitInv => LimitOvershoot
  <2>. SUFFICES ASSUME TypeOK, LimitInv PROVE LimitOvershoot
    OBVIOUS
  <2>1. Cardinality(Existing) <= Cardinality(Possible)
    BY LimitSets, FS_Subset DEF Possible
  <2>. QED  BY <2>1, LimitSets, MonitorAssumption DEF LimitInv, LimitOvershoot
<1>. QED  BY TypeInit, TypeStep, LimitStep, <1>1, <1>2, PTL DEF Spec

-----------------------------------------------------------------------------
(* The events of a monitor are its transitions *)

(* a goroutine, cancelled or not, that polls the monitor *)
Polls(g, m) == poll[g].stage # "free" /\ poll[g].monitor = m

(* A monitor whose row was never saved by an Update is enabled until it is
   deleted for good, so reload takes it out of the map only after that, and
   only one goroutine ever polls it at a time, cancelled ones included. *)
PollingInv(m) ==
    /\ m \in Existing => rows[m].enabled /\ m \notin deleted
    /\ m \in DOMAIN cancels \union listed => m \in Existing \union deleted
    /\ reloading /\ m \in DOMAIN cancels \ listed => m \notin Existing
    /\ \A g \in Slots : Polls(g, m) =>
          /\ m \in Existing \union deleted
          /\ m \in DOMAIN cancels \/ m \notin Existing \union listed
          /\ \A h \in Slots : Polls(h, m) => g = h

(* The last event is the status that a check under way has read, and differs
   from the one that is about to be fired; between checks it is the row's. *)
HistoryInv(m) ==
    /\ m \notin Existing \union deleted => lastEvent[m] = "none"
    /\ \A g \in Slots : Polls(g, m) =>
          /\ poll[g].stage \in {"requesting", "recording"} => lastEvent[m] \in {"none", poll[g].prev}
          /\ poll[g].stage = "firing" =>
                /\ lastEvent[m] # poll[g].outcome
                /\ m \in Existing => rows[m].last = poll[g].outcome
    /\ m \in Existing /\ (\A g \in Slots : Polls(g, m) => poll[g].stage # "firing")
          => lastEvent[m] \in {"none", rows[m].last}

(* What makes EventsTrackStatus inductive. *)
TrackInv == \A m \in Monitors \ disturbed : PollingInv(m) /\ HistoryInv(m)

(* PollingInv reads the map, reload's list, the rows' enabled and which
   goroutines poll the monitor; one that stops polling does not disturb it. *)
LEMMA PollingFrame ==
  ASSUME NEW m \in Monitors, PollingInv(m), UNCHANGED <<cancels, listed, reloading, deleted>>,
         Existing' = Existing, m \in Existing => (rows[m].enabled)' = rows[m].enabled,
         \A g \in Slots : Polls(g, m)' => Polls(g, m)
  PROVE  PollingInv(m)'
BY DEF PollingInv

(* HistoryInv is kept by a step that leaves the last event and the status in
   the row alone, keeps a goroutine that is firing, and lets the others go on
   as they are, or return to the select, or start. *)
LEMMA HistoryFrame ==
  ASSUME NEW m \in Monitors, HistoryInv(m), lastEvent'[m] = lastEvent[m],
         m \in Existing \union deleted => m \in (Existing \union deleted)',
         m \in Existing' => m \in Existing /\ (rows[m].last)' = rows[m].last,
         \A g \in Slots : Polls(g, m)' =>
            \/ (poll[g].stage)' \in {"started", "waiting"}
            \/ /\ Polls(g, m)
               /\ (poll[g].stage)' = poll[g].stage
               /\ (poll[g].prev)' = poll[g].prev /\ (poll[g].outcome)' = poll[g].outcome,
         \A g \in Slots : Polls(g, m) /\ poll[g].stage = "firing"
                             => Polls(g, m)' /\ (poll[g].stage)' = "firing"
  PROVE  HistoryInv(m)'
BY DEF HistoryInv

(* One goroutine takes a step. *)
LEMMA SetPollFacts ==
  ASSUME TypeOK, NEW g \in Slots, NEW record, SetPoll(g, record)
  PROVE  /\ poll'[g] = record
         /\ \A h \in Slots : h # g => poll'[h] = poll[h]
BY DEF SetPoll, TypeOK

(* What the goroutine is after Wait. *)
LEMMA WaitFacts ==
  ASSUME TypeOK, NEW g \in Slots, poll[g].stage # "free", Wait(g)
  PROVE  \E record \in Goroutines :
            /\ SetPoll(g, record) /\ record.stage = "waiting" /\ record.monitor = poll[g].monitor
<1>. DEFINE record == [poll[g] EXCEPT !.stage = "waiting", !.prev = "unknown", !.outcome = "up"]
<1>1. poll[g] \in Goroutines
  BY GoroutineShape
<1>2. record \in Goroutines /\ record.stage = "waiting" /\ record.monitor = poll[g].monitor
  BY <1>1 DEF Goroutines, Stages, Statuses, Answers
<1>3. SetPoll(g, record)
  BY DEF Wait
<1>. QED  BY <1>2, <1>3

(* Every step of a goroutine keeps its monitor or ends it. *)
LEMMA CheckKeepsMonitor ==
  ASSUME TypeOK, NEW g \in Slots,
         CheckStep(g) \/ UpdateStatusFails(g) \/ FireFails(g) \/ Exit(g)
  PROVE  /\ poll[g].stage # "free" /\ poll[g] \in Goroutines
         /\ \E record \in Goroutines \union {Free} :
               /\ SetPoll(g, record)
               /\ record.stage = "free" \/ record.monitor = poll[g].monitor
<1>1. poll[g].stage # "free" /\ poll[g] \in Goroutines
  BY GoroutineShape DEF CheckStep, BeginCheck, Answer, UpdateStatus, Fire, UpdateStatusFails,
     FireFails, Exit
<1>2. ASSUME Wait(g) PROVE \E record \in Goroutines : SetPoll(g, record) /\ record.monitor = poll[g].monitor
  BY <1>1, <1>2, WaitFacts
<1>3. ASSUME SetPoll(g, [poll[g] EXCEPT !.stage = "firing"])
      PROVE  \E record \in Goroutines : SetPoll(g, record) /\ record.monitor = poll[g].monitor
  <2>1. LET record == [poll[g] EXCEPT !.stage = "firing"]
        IN  record \in Goroutines /\ record.monitor = poll[g].monitor
    BY <1>1 DEF Goroutines, Stages
  <2>. QED  BY <1>3, <2>1
<1>4. CASE BeginCheck(g)
  <2>. DEFINE record == [poll[g] EXCEPT !.stage = "requesting", !.prev = rows[poll[g].monitor].last]
  <2>1. Wait(g) \/ (poll[g].monitor \in Enabled /\ SetPoll(g, record))
    BY <1>4 DEF BeginCheck
  <2>2. ASSUME poll[g].monitor \in Enabled
        PROVE  record \in Goroutines /\ record.monitor = poll[g].monitor
    BY <1>1, <2>2 DEF Goroutines, Stages, Enabled, TypeOK, Rows
  <2>. HIDE DEF record
  <2>. QED  BY <1>1, <1>2, <2>1, <2>2
<1>5. CASE Answer(g)
  <2>1. PICK outcome \in Answers :
           SetPoll(g, [poll[g] EXCEPT !.stage = "recording", !.outcome = outcome])
    BY <1>5, <1>1 DEF Answer, Goroutines, Answers, TypeOK
  <2>2. LET record == [poll[g] EXCEPT !.stage = "recording", !.outcome = outcome]
        IN  record \in Goroutines /\ record.monitor = poll[g].monitor
    BY <1>1 DEF Goroutines, Stages
  <2>. QED  BY <1>1, <2>1, <2>2
<1>6. CASE UpdateStatus(g) \/ UpdateStatusFails(g)
  BY <1>1, <1>2, <1>3, <1>6 DEF UpdateStatus, UpdateStatusFails, AfterRecord
<1>7. CASE Fire(g) \/ FireFails(g)
  BY <1>1, <1>2, <1>7 DEF Fire, FireFails
<1>8. CASE Exit(g)
  BY <1>1, <1>8 DEF Exit, Free
<1>. QED  BY <1>4, <1>5, <1>6, <1>7, <1>8 DEF CheckStep

(* Every step keeps PollingInv for a monitor that it does not disturb. *)
LEMMA PollingStep ==
  ASSUME TypeOK, NEW m \in Monitors, m \notin disturbed', PollingInv(m), [Next]_vars
  PROVE  PollingInv(m)'
<1>a. ASSUME UNCHANGED poll PROVE \A g \in Slots : Polls(g, m)' <=> Polls(g, m)
  BY <1>a DEF Polls
<1>1. ASSUME NEW r \in Requests, CountMonitors(r) \/ ReadForUpdate(r) \/ RequestFails(r)
      PROVE  PollingInv(m)'
  BY <1>1, <1>a, PollingFrame DEF CountMonitors, ReadForUpdate, RequestFails, pollerVars, Existing
<1>2. ASSUME NEW r \in Requests, CreateMonitor(r) PROVE PollingInv(m)'
  <2>1. PICK n \in Monitors \ (Existing \union deleted) :
           PutRow(n, [enabled |-> TRUE, last |-> "unknown"])
    BY <1>2 DEF CreateMonitor
  <2>2. UNCHANGED <<deleted, cancels, listed, reloading, poll>>
    BY <1>2 DEF CreateMonitor, pollerVars
  <2>3. /\ Existing' = Existing \union {n} /\ (rows[n].enabled)' = TRUE
        /\ m # n /\ m \in Existing => (rows[m].enabled)' = rows[m].enabled
    BY <2>1 DEF PutRow, Existing
  <2>4. CASE m # n
    BY <1>a, <2>2, <2>3, <2>4 DEF PollingInv
  <2>5. CASE m = n
    BY <1>a, <2>1, <2>2, <2>3, <2>5 DEF PollingInv
  <2>. QED  BY <2>4, <2>5
<1>3. ASSUME NEW r \in Requests, SaveUpdate(r) PROVE PollingInv(m)'
  <2>. DEFINE n == request[r].monitor
  <2>1. n # m /\ PutRow(n, request[r].row) /\ UNCHANGED <<deleted, cancels, listed, reloading, poll>>
    BY <1>3 DEF SaveUpdate, pollerVars
  <2>2. /\ m \in Existing' <=> m \in Existing
        /\ m \in Existing => (rows[m].enabled)' = rows[m].enabled
    BY <2>1 DEF PutRow, Existing
  <2>. QED  BY <1>a, <2>1, <2>2 DEF PollingInv
<1>4. ASSUME NEW n \in Monitors, DeleteMonitor(n) PROVE PollingInv(m)'
  <2>1. /\ rows' = Restrict(rows, Existing \ {n}) /\ deleted' = deleted \union {n} /\ n \in Existing
        /\ UNCHANGED <<cancels, listed, reloading, poll>>
    BY <1>4 DEF DeleteMonitor, pollerVars
  <2>2. /\ Existing' = Existing \ {n}
        /\ m # n /\ m \in Existing => (rows[m].enabled)' = rows[m].enabled
    BY <2>1 DEF Restrict, Existing
  <2>. QED  BY <1>a, <2>1, <2>2 DEF PollingInv
<1>5. ASSUME NEW n \in Monitors, ServiceChanges(n) PROVE PollingInv(m)'
  BY <1>5, <1>a, PollingFrame DEF ServiceChanges, pollerVars, Existing
<1>6. CASE ListAllEnabled
  <2>1. /\ UNCHANGED <<rows, deleted, cancels, poll>> /\ listed' = Enabled
    BY <1>6 DEF ListAllEnabled
  <2>2. Existing' = Existing /\ (m \in Enabled <=> m \in Existing)
    BY <2>1 DEF Existing, Enabled, PollingInv
  <2>. QED  BY <1>a, <2>1, <2>2 DEF PollingInv
<1>7. CASE Reconcile
  <2>1. PICK new \in Injection(listed \ DOMAIN cancels, FreeSlots) :
           LET stopped == {cancels[n] : n \in DOMAIN cancels \ listed}
           IN  /\ cancels' = [n \in listed |->
                                IF n \in DOMAIN cancels THEN cancels[n] ELSE new[n]]
               /\ poll' = [g \in Slots |->
                             IF g \in stopped /\ poll[g].stage # "free"
                             THEN [poll[g] EXCEPT !.cancelled = TRUE]
                             ELSE IF g \in Range(new)
                             THEN Started(CHOOSE n \in DOMAIN new : new[n] = g)
                             ELSE poll[g]]
    BY <1>7 DEF Reconcile
  <2>2. /\ new \in [listed \ DOMAIN cancels -> Slots]
        /\ \A n \in DOMAIN new : poll[new[n]].stage = "free"
        /\ \A n, p \in DOMAIN new : new[n] = new[p] => n = p
    BY DEF Injection, IsInjective, FreeSlots
  <2>3. /\ UNCHANGED <<rows, deleted>> /\ listed' = {} /\ reloading /\ ~reloading'
    BY <1>7 DEF Reconcile
  <2>4. Existing' = Existing /\ DOMAIN cancels' = listed
    BY <2>1, <2>3 DEF Existing
  <2>5. ASSUME NEW g \in Slots, Polls(g, m)'
        PROVE  Polls(g, m) \/ (m \in DOMAIN new /\ g = new[m])
    <3>1. CASE g \in Range(new) /\ poll[g].stage = "free"
      <4>1. PICK n \in DOMAIN new : g = new[n]
        BY <3>1 DEF Range
      <4>2. (CHOOSE p \in DOMAIN new : new[p] = g) = n
        BY <2>2, <4>1
      <4>3. poll'[g] = Started(n)
        BY <2>1, <3>1, <4>2
      <4>. QED  BY <2>5, <4>1, <4>3 DEF Polls, Started
    <3>2. CASE poll[g].stage # "free"
      <4>1. poll[g] \in Goroutines /\ g \notin Range(new)
        BY <2>2, <3>2, GoroutineShape DEF Range
      <4>2. poll'[g] = poll[g] \/ poll'[g] = [poll[g] EXCEPT !.cancelled = TRUE]
        BY <2>1, <3>2, <4>1
      <4>. QED  BY <2>5, <4>1, <4>2 DEF Polls, Goroutines
    <3>3. CASE g \notin Range(new) /\ poll[g].stage = "free"
      <4>1. poll'[g] = poll[g]
        BY <2>1, <3>3
      <4>. QED  BY <2>5, <4>1 DEF Polls
    <3>. QED  BY <3>1, <3>2, <3>3
  <2>6. m \in DOMAIN new => m \in listed /\ m \notin DOMAIN cancels
    BY <2>2
  <2>7. ASSUME m \in DOMAIN new PROVE \A g \in Slots : ~Polls(g, m)
    BY <2>6, <2>7 DEF PollingInv
  <2>8. ASSUME NEW g \in Slots, Polls(g, m)'
        PROVE  m \in Existing \union deleted /\ (m \in listed \/ m \notin Existing)
    BY <2>3, <2>5, <2>6, <2>8 DEF PollingInv
  <2>9. ASSUME NEW g \in Slots, NEW h \in Slots, Polls(g, m)', Polls(h, m)' PROVE g = h
    BY <2>5, <2>7, <2>9 DEF PollingInv
  <2>10. (m \in Existing => (rows[m].enabled)' = rows[m].enabled) /\ deleted' = deleted
    BY <2>3
  <2>. QED  BY <2>3, <2>4, <2>8, <2>9, <2>10 DEF PollingInv
<1>8. CASE Shutdown
  <2>1. ASSUME NEW g \in Slots, Polls(g, m)' PROVE Polls(g, m)
    <3>1. poll[g].stage # "free"
      BY <1>8, <2>1 DEF Shutdown, Polls, Free
    <3>2. poll[g] \in Goroutines
      BY <3>1, GoroutineShape
    <3>3. poll'[g] = [poll[g] EXCEPT !.cancelled = TRUE]
      BY <1>8, <3>1 DEF Shutdown
    <3>. QED  BY <2>1, <3>2, <3>3 DEF Goroutines, Polls
  <2>2. Existing' = Existing /\ UNCHANGED <<rows, cancels, listed, reloading, deleted>>
    BY <1>8 DEF Shutdown, Existing
  <2>. QED  BY <2>1, <2>2, PollingFrame
<1>9. CASE NewProcess
  <2>1. \A g \in Slots : ~Polls(g, m)'
    BY <1>9 DEF NewProcess, Polls, Free
  <2>2. /\ UNCHANGED <<rows, deleted>> /\ DOMAIN cancels' = {} /\ listed' = {}
        /\ Existing' = Existing
    BY <1>9 DEF NewProcess, Existing
  <2>. QED  BY <2>1, <2>2 DEF PollingInv
<1>10. ASSUME NEW g \in Slots, CheckStep(g) \/ UpdateStatusFails(g) \/ FireFails(g) \/ Exit(g)
       PROVE  PollingInv(m)'
  <2>1. poll[g].stage # "free"
    BY <1>10, CheckKeepsMonitor
  <2>2. PICK record : SetPoll(g, record) /\ (record.stage = "free" \/ record.monitor = poll[g].monitor)
    BY <1>10, CheckKeepsMonitor
  <2>3. \A h \in Slots : Polls(h, m)' => Polls(h, m)
    <3>1. poll'[g] = record /\ \A h \in Slots : h # g => poll'[h] = poll[h]
      BY <2>2, SetPollFacts
    <3>. QED  BY <2>1, <2>2, <3>1 DEF Polls
  <2>4. /\ UNCHANGED <<cancels, listed, reloading, deleted>> /\ Existing' = Existing
        /\ m \in Existing => (rows[m].enabled)' = rows[m].enabled
    <3>1. CASE UpdateStatus(g)
      <4>1. ASSUME m \in Existing PROVE (rows[m].enabled)' = rows[m].enabled
        <5>1. rows[m] \in Rows
          BY <4>1 DEF TypeOK
        <5>2. rows'[m] = rows[m] \/ rows'[m] = [rows[m] EXCEPT !.last = poll[g].outcome]
          BY <3>1, <4>1 DEF UpdateStatus
        <5>. QED  BY <5>1, <5>2 DEF Rows
      <4>. QED  BY <3>1, <4>1 DEF UpdateStatus, Existing, pollerVars
    <3>2. CASE ~UpdateStatus(g)
      BY <1>10, <3>2 DEF CheckStep, BeginCheck, Answer, Fire, UpdateStatusFails, FireFails, Exit,
         Existing, pollerVars
    <3>. QED  BY <3>1, <3>2
  <2>. QED  BY <2>3, <2>4, PollingFrame
<1>11. CASE UNCHANGED vars
  BY <1>11, <1>a, PollingFrame DEF vars, pollerVars, Existing
<1>. QED
  BY <1>1, <1>2, <1>3, <1>4, <1>5, <1>6, <1>7, <1>8, <1>9, <1>10, <1>11 DEF Next, ReaderStep

(* Every step keeps HistoryInv for a monitor that it does not disturb. *)
LEMMA HistoryStep ==
  ASSUME TypeOK, NEW m \in Monitors, m \notin disturbed', PollingInv(m), HistoryInv(m), [Next]_vars
  PROVE  HistoryInv(m)'
<1>a. ASSUME UNCHANGED <<poll, lastEvent>>,
             m \in Existing \union deleted => m \in (Existing \union deleted)',
             m \in Existing' => m \in Existing /\ (rows[m].last)' = rows[m].last
      PROVE  HistoryInv(m)'
  <2>1. \A g \in Slots : Polls(g, m)' <=> Polls(g, m)
    BY <1>a DEF Polls
  <2>. QED  BY <1>a, <2>1, HistoryFrame
<1>1. ASSUME NEW r \in Requests, CountMonitors(r) \/ ReadForUpdate(r) \/ RequestFails(r)
      PROVE  HistoryInv(m)'
  BY <1>1, <1>a DEF CountMonitors, ReadForUpdate, RequestFails, eventVars, Existing
<1>2. ASSUME NEW r \in Requests, CreateMonitor(r) PROVE HistoryInv(m)'
  <2>1. PICK n \in Monitors \ (Existing \union deleted) :
           PutRow(n, [enabled |-> TRUE, last |-> "unknown"])
    BY <1>2 DEF CreateMonitor
  <2>2. UNCHANGED <<deleted, poll, lastEvent>>
    BY <1>2 DEF CreateMonitor, eventVars
  <2>3. /\ Existing' = Existing \union {n}
        /\ m # n /\ m \in Existing => (rows[m].last)' = rows[m].last
    BY <2>1 DEF PutRow, Existing
  <2>4. CASE m # n
    BY <1>a, <2>2, <2>3, <2>4
  <2>5. CASE m = n
    <3>1. lastEvent'[m] = "none" /\ \A g \in Slots : ~Polls(g, m)
      BY <2>1, <2>2, <2>5 DEF HistoryInv, PollingInv
    <3>2. \A g \in Slots : ~Polls(g, m)'
      BY <2>2, <3>1 DEF Polls
    <3>. QED  BY <3>1, <3>2 DEF HistoryInv
  <2>. QED  BY <2>4, <2>5
<1>3. ASSUME NEW r \in Requests, SaveUpdate(r) PROVE HistoryInv(m)'
  <2>. DEFINE n == request[r].monitor
  <2>1. n # m /\ PutRow(n, request[r].row) /\ UNCHANGED <<deleted, poll, lastEvent>>
    BY <1>3 DEF SaveUpdate
  <2>2. /\ m \in Existing' <=> m \in Existing
        /\ m \in Existing => (rows[m].last)' = rows[m].last
    BY <2>1 DEF PutRow, Existing
  <2>. QED  BY <1>a, <2>1, <2>2
<1>4. ASSUME NEW n \in Monitors, DeleteMonitor(n) PROVE HistoryInv(m)'
  <2>1. /\ rows' = Restrict(rows, Existing \ {n}) /\ deleted' = deleted \union {n} /\ n \in Existing
        /\ UNCHANGED <<poll, lastEvent>>
    BY <1>4 DEF DeleteMonitor, eventVars
  <2>2. /\ Existing' = Existing \ {n}
        /\ m # n /\ m \in Existing => (rows[m].last)' = rows[m].last
    BY <2>1 DEF Restrict, Existing
  <2>. QED  BY <1>a, <2>1, <2>2
<1>5. ASSUME NEW n \in Monitors, ServiceChanges(n) PROVE HistoryInv(m)'
  BY <1>5, <1>a DEF ServiceChanges, eventVars, Existing
<1>6. CASE ListAllEnabled
  BY <1>6, <1>a DEF ListAllEnabled, eventVars, Existing
<1>7. CASE Reconcile
  <2>1. /\ Existing' = Existing /\ UNCHANGED <<rows, deleted, lastEvent>>
    BY <1>7 DEF Reconcile, eventVars, Existing
  <2>2. ASSUME NEW g \in Slots, poll[g].stage = "free"
        PROVE  poll'[g].stage \in {"free", "started"}
    BY <1>7, <2>2 DEF Reconcile, Started
  <2>3. ASSUME NEW g \in Slots, poll[g].stage # "free"
        PROVE  /\ (poll[g].stage)' = poll[g].stage /\ (poll[g].monitor)' = poll[g].monitor
               /\ (poll[g].prev)' = poll[g].prev /\ (poll[g].outcome)' = poll[g].outcome
    <3>1. poll[g] \in Goroutines
      BY <2>3, GoroutineShape
    <3>2. PICK new \in Injection(listed \ DOMAIN cancels, FreeSlots) :
             LET stopped == {cancels[n] : n \in DOMAIN cancels \ listed}
             IN  poll' = [h \in Slots |->
                             IF h \in stopped /\ poll[h].stage # "free"
                             THEN [poll[h] EXCEPT !.cancelled = TRUE]
                             ELSE IF h \in Range(new)
                             THEN Started(CHOOSE n \in DOMAIN new : new[n] = h)
                             ELSE poll[h]]
      BY <1>7 DEF Reconcile
    <3>3. g \notin Range(new)
      BY <2>3 DEF Injection, IsInjective, FreeSlots, Range
    <3>4. poll'[g] = poll[g] \/ poll'[g] = [poll[g] EXCEPT !.cancelled = TRUE]
      BY <3>2, <3>3
    <3>. QED  BY <3>1, <3>4 DEF Goroutines
  <2>4. \A g \in Slots : Polls(g, m)' =>
            \/ (poll[g].stage)' = "started"
            \/ /\ Polls(g, m)
               /\ (poll[g].stage)' = poll[g].stage
               /\ (poll[g].prev)' = poll[g].prev /\ (poll[g].outcome)' = poll[g].outcome
    BY <2>2, <2>3 DEF Polls
  <2>5. \A g \in Slots : Polls(g, m) => Polls(g, m)' /\ (poll[g].stage)' = poll[g].stage
    BY <2>3 DEF Polls
  <2>. QED  BY <2>1, <2>4, <2>5, HistoryFrame
<1>8. CASE Shutdown
  <2>1. ASSUME NEW g \in Slots
        PROVE  /\ (poll[g].stage)' = poll[g].stage
               /\ poll[g].stage # "free" =>
                     /\ (poll[g].monitor)' = poll[g].monitor
                     /\ (poll[g].prev)' = poll[g].prev /\ (poll[g].outcome)' = poll[g].outcome
    <3>1. CASE poll[g].stage = "free"
      BY <1>8, <3>1 DEF Shutdown, Free
    <3>2. CASE poll[g].stage # "free"
      <4>1. poll[g] \in Goroutines
        BY <3>2, GoroutineShape
      <4>2. poll'[g] = [poll[g] EXCEPT !.cancelled = TRUE]
        BY <1>8, <3>2 DEF Shutdown
      <4>. QED  BY <4>1, <4>2 DEF Goroutines
    <3>. QED  BY <3>1, <3>2
  <2>2. \A g \in Slots : Polls(g, m)' <=> Polls(g, m)
    BY <2>1 DEF Polls
  <2>3. \A g \in Slots : Polls(g, m) =>
            /\ (poll[g].stage)' = poll[g].stage
            /\ (poll[g].prev)' = poll[g].prev /\ (poll[g].outcome)' = poll[g].outcome
    BY <2>1 DEF Polls
  <2>4. /\ Existing' = Existing /\ UNCHANGED <<rows, deleted, lastEvent>>
    BY <1>8 DEF Shutdown, eventVars, Existing
  <2>. QED  BY <2>2, <2>3, <2>4, HistoryFrame
<1>9. CASE NewProcess
  <2>1. \A g \in Slots : ~Polls(g, m)'
    BY <1>9 DEF NewProcess, Polls, Free
  <2>2. \A g \in Slots : Polls(g, m) => poll[g].stage # "firing"
    BY <1>9 DEF NewProcess, Polls
  <2>3. /\ Existing' = Existing /\ UNCHANGED <<rows, deleted, lastEvent>>
    BY <1>9 DEF NewProcess, Existing
  <2>. QED  BY <2>1, <2>2, <2>3, HistoryFrame
<1>10. ASSUME NEW g \in Slots, CheckStep(g) \/ UpdateStatusFails(g) \/ FireFails(g) \/ Exit(g)
       PROVE  HistoryInv(m)'
  <2>0. poll[g].stage # "free" /\ poll[g] \in Goroutines
    BY <1>10, CheckKeepsMonitor
  <2>1. deleted' = deleted /\ Existing' = Existing
    BY <1>10 DEF CheckStep, BeginCheck, Answer, UpdateStatus, Fire, UpdateStatusFails, FireFails,
       Exit, Existing
  <2>2. CASE poll[g].monitor # m
    <3>1. PICK record :
             SetPoll(g, record) /\ (record.stage = "free" \/ record.monitor = poll[g].monitor)
      BY <1>10, CheckKeepsMonitor
    <3>2. poll'[g] = record /\ \A h \in Slots : h # g => poll'[h] = poll[h]
      BY <3>1, SetPollFacts
    <3>3. \A h \in Slots : (Polls(h, m)' <=> Polls(h, m)) /\ (Polls(h, m) => poll'[h] = poll[h])
      BY <2>0, <2>2, <3>1, <3>2 DEF Polls
    <3>4. lastEvent'[m] = lastEvent[m]
      BY <1>10, <2>0, <2>2 DEF CheckStep, BeginCheck, Answer, UpdateStatus, Fire, UpdateStatusFails,
         FireFails, Exit, eventVars, TypeOK, Goroutines
    <3>5. m \in Existing => (rows[m].last)' = rows[m].last
      BY <1>10, <2>2 DEF CheckStep, BeginCheck, Answer, UpdateStatus, Fire, UpdateStatusFails,
         FireFails, Exit
    <3>. QED  BY <2>1, <3>3, <3>4, <3>5, HistoryFrame
  <2>3. CASE poll[g].monitor = m
    <3>0. /\ Polls(g, m)
          /\ \A h \in Slots : Polls(h, m) => h = g
      BY <2>0, <2>3 DEF Polls, PollingInv
    <3>a. ASSUME NEW record, SetPoll(g, record)
          PROVE  poll'[g] = record /\ \A h \in Slots : Polls(h, m)' => h = g
      <4>1. poll'[g] = record /\ \A h \in Slots : h # g => poll'[h] = poll[h]
        BY <3>a, SetPollFacts
      <4>. QED  BY <3>0, <4>1 DEF Polls
    <3>b. ASSUME Wait(g)
          PROVE  (poll[g].stage)' = "waiting" /\ \A h \in Slots : Polls(h, m)' => h = g
      BY <2>0, <3>a, <3>b, WaitFacts
    <3>1. CASE BeginCheck(g)
      <4>1. UNCHANGED <<rows, lastEvent>> /\ poll[g].stage # "firing"
        BY <3>1 DEF BeginCheck, eventVars
      <4>2. m \in Existing => lastEvent[m] \in {"none", rows[m].last}
        BY <3>0, <4>1 DEF HistoryInv
      <4>3. CASE Wait(g)
        BY <2>1, <3>b, <4>1, <4>2, <4>3 DEF HistoryInv
      <4>4. CASE /\ m \in Enabled
                 /\ SetPoll(g, [poll[g] EXCEPT !.stage = "requesting", !.prev = rows[m].last])
        <5>1. /\ (poll[g].stage)' = "requesting" /\ (poll[g].prev)' = rows[m].last
              /\ \A h \in Slots : Polls(h, m)' => h = g
          <6>1. /\ poll'[g] = [poll[g] EXCEPT !.stage = "requesting", !.prev = rows[m].last]
                /\ \A h \in Slots : Polls(h, m)' => h = g
            BY <3>a, <4>4
          <6>. QED  BY <2>0, <6>1 DEF Goroutines
        <5>2. lastEvent[m] \in {"none", rows[m].last}
          BY <4>2, <4>4 DEF Enabled
        <5>3. m \in Existing
          BY <4>4 DEF Enabled
        <5>. QED  BY <2>1, <4>1, <5>1, <5>2, <5>3 DEF HistoryInv
      <4>. QED  BY <2>3, <3>1, <4>3, <4>4 DEF BeginCheck
    <3>2. CASE Answer(g)
      <4>1. PICK outcome : SetPoll(g, [poll[g] EXCEPT !.stage = "recording", !.outcome = outcome])
        BY <3>2 DEF Answer
      <4>2. /\ (poll[g].stage)' = "recording" /\ (poll[g].prev)' = poll[g].prev
            /\ \A h \in Slots : Polls(h, m)' => h = g
        <5>1. /\ poll'[g] = [poll[g] EXCEPT !.stage = "recording", !.outcome = outcome]
              /\ \A h \in Slots : Polls(h, m)' => h = g
          BY <3>a, <4>1
        <5>. QED  BY <2>0, <5>1 DEF Goroutines
      <4>3. /\ UNCHANGED <<rows, lastEvent>> /\ poll[g].stage = "requesting"
        BY <3>2 DEF Answer, eventVars
      <4>4. m \in Existing => lastEvent[m] \in {"none", rows[m].last}
        BY <3>0, <4>3 DEF HistoryInv
      <4>5. lastEvent[m] \in {"none", poll[g].prev}
        BY <3>0, <4>3 DEF HistoryInv
      <4>. QED  BY <2>1, <4>2, <4>3, <4>4, <4>5 DEF HistoryInv
    <3>3. CASE UpdateStatus(g)
      <4>1. /\ lastEvent' = lastEvent /\ poll[g].stage = "recording" /\ AfterRecord(g)
        BY <3>3 DEF UpdateStatus, eventVars
      <4>2. m \in Existing => (rows[m].last)' = poll[g].outcome
        <5>1. ASSUME m \in Existing PROVE (rows[m].last)' = poll[g].outcome
          <6>1. rows'[m] = [rows[m] EXCEPT !.last = poll[g].outcome] /\ rows[m] \in Rows
            BY <2>3, <3>3, <5>1 DEF UpdateStatus, TypeOK
          <6>. QED  BY <6>1 DEF Rows
        <5>. QED  BY <5>1
      <4>3. lastEvent[m] \in {"none", poll[g].prev} /\ lastEvent[m] \in {"none", "up", "down"}
        BY <3>0, <4>1 DEF HistoryInv, TypeOK, Answers
      <4>4. poll[g].outcome \in {"up", "down"}
        BY <2>0 DEF Goroutines, Answers
      <4>5. CASE poll[g].prev \in {poll[g].outcome, "unknown"}
        <5>1. Wait(g)
          BY <4>1, <4>5 DEF AfterRecord
        <5>2. lastEvent[m] \in {"none", poll[g].outcome}
          BY <4>3, <4>5
        <5>3. m \notin Existing \union deleted => lastEvent[m] = "none"
          BY DEF HistoryInv
        <5>. QED  BY <2>1, <3>b, <4>1, <4>2, <5>1, <5>2, <5>3 DEF HistoryInv
      <4>6. CASE poll[g].prev \notin {poll[g].outcome, "unknown"}
        <5>1. SetPoll(g, [poll[g] EXCEPT !.stage = "firing"])
          BY <4>1, <4>6 DEF AfterRecord
        <5>2. /\ (poll[g].stage)' = "firing" /\ (poll[g].outcome)' = poll[g].outcome
              /\ (poll[g].monitor)' = m
              /\ \A h \in Slots : Polls(h, m)' => h = g
          BY <2>0, <2>3, <3>a, <5>1 DEF Goroutines
        <5>3. lastEvent[m] # poll[g].outcome
          BY <4>3, <4>4, <4>6
        <5>4. Polls(g, m)'
          BY <5>2 DEF Polls
        <5>5. m \notin Existing \union deleted => lastEvent[m] = "none"
          BY DEF HistoryInv
        <5>. QED  BY <2>1, <4>1, <4>2, <5>2, <5>3, <5>4, <5>5 DEF HistoryInv
      <4>. QED  BY <4>5, <4>6
    <3>4. CASE Fire(g)
      <4>1. /\ poll[g].stage = "firing" /\ Wait(g) /\ rows' = rows
            /\ lastEvent' = [lastEvent EXCEPT ![m] = poll[g].outcome]
        BY <2>3, <3>4 DEF Fire
      <4>2. lastEvent'[m] = poll[g].outcome
        BY <4>1 DEF TypeOK
      <4>3. m \in Existing => rows[m].last = poll[g].outcome
        BY <3>0, <4>1 DEF HistoryInv
      <4>4. m \in Existing \union deleted
        BY <3>0 DEF PollingInv
      <4>. QED  BY <2>1, <3>b, <4>1, <4>2, <4>3, <4>4 DEF HistoryInv
    <3>5. CASE UpdateStatusFails(g) \/ FireFails(g)
      BY <2>3, <3>5 DEF UpdateStatusFails, FireFails
    <3>6. CASE Exit(g)
      <4>1. poll[g].stage = "waiting" /\ UNCHANGED <<rows, lastEvent>> /\ SetPoll(g, Free)
        BY <3>6 DEF Exit, eventVars
      <4>2. \A h \in Slots : ~Polls(h, m)'
        BY <3>a, <4>1 DEF Polls, Free
      <4>3. m \in Existing => lastEvent[m] \in {"none", rows[m].last}
        BY <3>0, <4>1 DEF HistoryInv
      <4>. QED  BY <2>1, <4>1, <4>2, <4>3 DEF HistoryInv
    <3>. QED  BY <1>10, <3>1, <3>2, <3>3, <3>4, <3>5, <3>6 DEF CheckStep
  <2>. QED  BY <2>2, <2>3
<1>11. CASE UNCHANGED vars
  BY <1>11, <1>a DEF vars, eventVars, Existing
<1>. QED
  BY <1>1, <1>2, <1>3, <1>4, <1>5, <1>6, <1>7, <1>8, <1>9, <1>10, <1>11 DEF Next, ReaderStep

(* Events alternate and agree with the row, for any number of monitors and
   goroutines, whatever is created, deleted, cancelled and restarted, except
   for a monitor with a saved Update, a lost write or an event cut short. *)
THEOREM MonitorEventsTrackStatus == Spec => []EventsTrackStatus
<1>1. Init => TrackInv
  BY DEF Init, TrackInv, PollingInv, HistoryInv, Polls, Free, Existing
<1>2. TypeOK /\ TrackInv /\ [Next]_vars => TrackInv'
  <2>. SUFFICES ASSUME TypeOK, TrackInv, [Next]_vars, NEW m \in Monitors, m \notin disturbed'
                PROVE  PollingInv(m)' /\ HistoryInv(m)'
    BY DEF TrackInv
  <2>1. disturbed \subseteq disturbed'
    BY DEF Next, ReaderStep, CountMonitors, CreateMonitor, ReadForUpdate, SaveUpdate, RequestFails,
       DeleteMonitor, ServiceChanges, ListAllEnabled, Reconcile, Shutdown, NewProcess, CheckStep,
       BeginCheck, Answer, UpdateStatus, Fire, UpdateStatusFails, FireFails, Exit, vars, eventVars
  <2>2. PollingInv(m) /\ HistoryInv(m)
    BY <2>1 DEF TrackInv
  <2>. QED  BY <2>2, PollingStep, HistoryStep
<1>3. TypeOK /\ TrackInv => EventsTrackStatus
  <2>. SUFFICES ASSUME TypeOK, TrackInv PROVE EventsTrackStatus
    OBVIOUS
  <2>1. ASSUME NEW g \in Slots, poll[g].stage = "firing", poll[g].monitor \notin disturbed
        PROVE  lastEvent[poll[g].monitor] # poll[g].outcome
    <3>1. poll[g].monitor \in Monitors /\ poll[g].stage # "free"
      BY <2>1, GoroutineShape DEF Goroutines
    <3>. QED  BY <2>1, <3>1 DEF TrackInv, HistoryInv, Polls
  <2>2. ASSUME NEW m \in Existing \ disturbed, lastEvent[m] # "none",
               \A g \in Slots : poll[g].stage = "firing" => poll[g].monitor # m
        PROVE  lastEvent[m] = rows[m].last
    <3>1. m \in Monitors
      BY DEF TypeOK
    <3>. QED  BY <2>2, <3>1 DEF TrackInv, HistoryInv, Polls
  <2>. QED  BY <2>1, <2>2 DEF EventsTrackStatus
<1>. QED  BY TypeInit, TypeStep, <1>1, <1>2, <1>3, PTL DEF Spec
=============================================================================
