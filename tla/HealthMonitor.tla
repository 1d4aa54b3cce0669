---------------------------- MODULE HealthMonitor ----------------------------
(***************************************************************************)
(* The healthcheck monitors (internal/healthcheck): the Reader's handlers  *)
(* that create, update and delete them, the poller of the worker process   *)
(* that reconciles one goroutine per enabled monitor with the table, and   *)
(* the checks that record a status and fire an event on a transition.      *)
(*                                                                         *)
(* One project stands for all.  A monitor's row is abstracted to enabled   *)
(* and last_status; what the checked service answers is "up" (the expected *)
(* status in time) or "down".  The history of results and its pruning are  *)
(* written by the same steps and read by nothing modelled here.            *)
(***************************************************************************)
EXTENDS Naturals, FiniteSets, Functions

CONSTANTS
    Monitors,       \* ids; each is given out once
    Flaky,          \* monitors whose service goes down and comes back
    Requests,       \* requests that the Reader handles at the same time
    Slots,          \* bound: polling goroutines alive at the same time
    MaxMonitors,    \* maxMonitorsPerProject (10 in the code)
    Faults,         \* TRUE: writes may fail and the process may die
    MaxEdits,       \* bound: updates of monitors
    MaxProcesses    \* bound: starts of the worker process

ASSUME MonitorAssumption ==
    /\ IsFiniteSet(Monitors) /\ IsFiniteSet(Requests) /\ IsFiniteSet(Slots)
    /\ Flaky \subseteq Monitors
    /\ MaxMonitors \in Nat \ {0}
    /\ Faults \in BOOLEAN
    /\ MaxEdits \in Nat /\ MaxProcesses \in Nat

Answers == {"up", "down"}
Statuses == Answers \union {"unknown"}
Rows == [enabled : BOOLEAN, last : Statuses]

VARIABLES
    rows,       \* healthcheck_monitors: id -> row
    deleted,    \* ids that were deleted
    request,    \* what each request of the Reader holds
    edits,      \* updates so far
    cancels,    \* Poller.cancels: id -> the goroutine its cancel belongs to
    poll,       \* the polling goroutines
    listed,     \* monitors that reload has read
    reloading,  \* reload is between its query and the reconciliation
    ctxDone,    \* the context of the worker process is cancelled
    processes,  \* worker processes so far
    service,    \* what each monitored service answers
    lastEvent,  \* history: the last event of each monitor
    disturbed   \* history: monitors with an edited row or a lost write

readerVars  == <<request, edits>>
pollerVars  == <<cancels, listed, reloading, ctxDone, processes>>
eventVars   == <<lastEvent, disturbed>>
vars == <<rows, deleted, readerVars, pollerVars, poll, service, eventVars>>

NoRequest == [op |-> "none"]
Free == [stage |-> "free"]

Init ==
    /\ rows = [m \in {} |-> m]
    /\ deleted = {}
    /\ request = [r \in Requests |-> NoRequest]
    /\ edits = 0
    /\ cancels = [m \in {} |-> m]
    /\ poll = [g \in Slots |-> Free]
    /\ listed = {} /\ reloading = FALSE
    /\ ctxDone = FALSE
    /\ processes = 1
    /\ service = [m \in Monitors |-> "up"]
    /\ lastEvent = [m \in Monitors |-> "none"]
    /\ disturbed = {}

Existing == DOMAIN rows

PutRow(m, row) == rows' = [x \in Existing \union {m} |-> IF x = m THEN row ELSE rows[x]]

-----------------------------------------------------------------------------
(* The handlers of the Reader *)

(* Create counts the monitors of the project and refuses at the limit ... *)
CountMonitors(r) ==
    /\ request[r] = NoRequest
    /\ Cardinality(Existing) < MaxMonitors
    /\ request' = [request EXCEPT ![r] = [op |-> "create"]]
    /\ UNCHANGED <<rows, deleted, edits, pollerVars, poll, service, eventVars>>

(* ... and inserts in a statement of its own *)
CreateMonitor(r) ==
    /\ request[r].op = "create"
    /\ \E m \in Monitors \ (Existing \union deleted) :
          PutRow(m, [enabled |-> TRUE, last |-> "unknown"])
    /\ request' = [request EXCEPT ![r] = NoRequest]
    /\ UNCHANGED <<deleted, edits, pollerVars, poll, service, eventVars>>

(* Update reads the whole row and changes the fields of the body in it ... *)
ReadForUpdate(r) ==
    /\ request[r] = NoRequest
    /\ edits < MaxEdits
    /\ edits' = edits + 1
    /\ \E m \in Existing, enable \in BOOLEAN :
          request' = [request EXCEPT ![r] =
                        [op |-> "update", monitor |-> m,
                         row |-> [rows[m] EXCEPT !.enabled = enable]]]
    /\ UNCHANGED <<rows, deleted, pollerVars, poll, service, eventVars>>

(* ... and saves the whole row; gorm's Save inserts it when it is gone *)
SaveUpdate(r) ==
    /\ request[r].op = "update"
    /\ PutRow(request[r].monitor, request[r].row)
    /\ disturbed' = disturbed \union {request[r].monitor}
    /\ request' = [request EXCEPT ![r] = NoRequest]
    /\ UNCHANGED <<deleted, edits, pollerVars, poll, service, lastEvent>>

(* a statement of the handler failed: 500, and nothing is written *)
RequestFails(r) ==
    /\ Faults
    /\ request[r] # NoRequest
    /\ request' = [request EXCEPT ![r] = NoRequest]
    /\ UNCHANGED <<rows, deleted, edits, pollerVars, poll, service, eventVars>>

DeleteMonitor(m) ==
    /\ m \in Existing
    /\ rows' = Restrict(rows, Existing \ {m})
    /\ deleted' = deleted \union {m}
    /\ UNCHANGED <<readerVars, pollerVars, poll, service, eventVars>>

-----------------------------------------------------------------------------
(* Poller.reload; one whose query fails changes nothing *)

Enabled == {m \in Existing : rows[m].enabled}

ListAllEnabled ==
    /\ ~reloading
    /\ reloading' = TRUE
    /\ listed' = Enabled
    /\ UNCHANGED <<rows, deleted, readerVars, cancels, ctxDone, processes, poll, service, eventVars>>

FreeSlots == {g \in Slots : poll[g].stage = "free"}

(* a new goroutine; its context is a child of the process's context *)
Started(m) == [stage |-> "started", monitor |-> m, cancelled |-> ctxDone,
               prev |-> "unknown", outcome |-> "up"]

(* Mutant: the cancel function is called and stays in the map. *)
ReconcileKeeping ==
    /\ reloading
    /\ \E new \in Injection(listed \ DOMAIN cancels, FreeSlots) :
          LET stopped == {cancels[m] : m \in DOMAIN cancels \ listed}
          IN  /\ cancels' = [m \in DOMAIN cancels \union listed |->
                               IF m \in DOMAIN cancels THEN cancels[m] ELSE new[m]]
              /\ poll' = [g \in Slots |->
                            IF g \in stopped /\ poll[g].stage # "free"
                            THEN [poll[g] EXCEPT !.cancelled = TRUE]
                            ELSE IF g \in Range(new)
                            THEN Started(CHOOSE m \in DOMAIN new : new[m] = g)
                            ELSE poll[g]]
    /\ reloading' = FALSE
    /\ listed' = {}
    /\ UNCHANGED <<rows, deleted, readerVars, ctxDone, processes, service, eventVars>>

(* under the mutex: goroutines of monitors that are no longer listed are
   cancelled, and listed monitors without one get one *)
Reconcile ==
    /\ reloading
    /\ \E new \in Injection(listed \ DOMAIN cancels, FreeSlots) :
          LET stopped == {cancels[m] : m \in DOMAIN cancels \ listed}
          IN  /\ cancels' = [m \in listed |->
                               IF m \in DOMAIN cancels THEN cancels[m] ELSE new[m]]
              /\ poll' = [g \in Slots |->
                            IF g \in stopped /\ poll[g].stage # "free"
                            THEN [poll[g] EXCEPT !.cancelled = TRUE]
                            ELSE IF g \in Range(new)
                            THEN Started(CHOOSE m \in DOMAIN new : new[m] = g)
                            ELSE poll[g]]
    /\ reloading' = FALSE
    /\ listed' = {}
    /\ UNCHANGED <<rows, deleted, readerVars, ctxDone, processes, service, eventVars>>

-----------------------------------------------------------------------------
(* pollMonitor and check *)

SetPoll(g, record) == poll' = [poll EXCEPT ![g] = record]

(* back in the select; what a check has read and found is gone with its stack *)
Wait(g) == SetPoll(g, [poll[g] EXCEPT !.stage = "waiting", !.prev = "unknown", !.outcome = "up"])

(* Mutant: the monitor is checked when its goroutine starts and never again. *)
BeginCheckOnce(g) ==
    /\ poll[g].stage = "started"
    /\ LET m == poll[g].monitor
       IN  \/ /\ m \in Enabled
              /\ SetPoll(g, [poll[g] EXCEPT !.stage = "requesting", !.prev = rows[m].last])
           \/ /\ m \notin Enabled \/ Faults
              /\ Wait(g)
    /\ UNCHANGED <<rows, deleted, readerVars, pollerVars, service, eventVars>>

(* the first check, or a tick: check reads the row, and only goes on when the
   query succeeds and the monitor is there and enabled.  The select may take the tick although the
   context is done as well. *)
BeginCheck(g) ==
    /\ poll[g].stage \in {"started", "waiting"}
    /\ LET m == poll[g].monitor
       IN  \/ /\ m \in Enabled
              /\ SetPoll(g, [poll[g] EXCEPT !.stage = "requesting", !.prev = rows[m].last])
           \/ /\ m \notin Enabled \/ Faults
              /\ Wait(g)
    /\ UNCHANGED <<rows, deleted, readerVars, pollerVars, service, eventVars>>

(* the request ends with what the service answers, or, when the context is
   cancelled, with an error, which counts as down *)
Answer(g) ==
    /\ poll[g].stage = "requesting"
    /\ \E outcome \in {service[poll[g].monitor]} \union
                      (IF poll[g].cancelled THEN {"down"} ELSE {}) :
          SetPoll(g, [poll[g] EXCEPT !.stage = "recording", !.outcome = outcome])
    /\ UNCHANGED <<rows, deleted, readerVars, pollerVars, service, eventVars>>

(* Mutant: recoveries are not compared with the previous status. *)
AfterRecordDownOnly(g) ==
    IF poll[g].outcome = "up" THEN Wait(g) ELSE SetPoll(g, [poll[g] EXCEPT !.stage = "firing"])

(* recordResult compares with the status that check has read *)
AfterRecord(g) ==
    IF poll[g].prev \in {poll[g].outcome, "unknown"} THEN Wait(g)
    ELSE SetPoll(g, [poll[g] EXCEPT !.stage = "firing"])

UpdateStatus(g) ==
    /\ poll[g].stage = "recording"
    /\ rows' = [m \in Existing |-> IF m = poll[g].monitor
                                   THEN [rows[m] EXCEPT !.last = poll[g].outcome] ELSE rows[m]]
    /\ AfterRecord(g)
    /\ UNCHANGED <<deleted, readerVars, pollerVars, service, eventVars>>

(* a failed write is logged; the event is fired all the same *)
UpdateStatusFails(g) ==
    /\ Faults
    /\ poll[g].stage = "recording"
    /\ AfterRecord(g)
    /\ disturbed' = disturbed \union {poll[g].monitor}
    /\ UNCHANGED <<rows, deleted, readerVars, pollerVars, service, lastEvent>>

(* CreateHealthEvent *)
Fire(g) ==
    /\ poll[g].stage = "firing"
    /\ lastEvent' = [lastEvent EXCEPT ![poll[g].monitor] = poll[g].outcome]
    /\ Wait(g)
    /\ UNCHANGED <<rows, deleted, readerVars, pollerVars, service, disturbed>>

FireFails(g) ==
    /\ Faults
    /\ poll[g].stage = "firing"
    /\ Wait(g)
    /\ disturbed' = disturbed \union {poll[g].monitor}
    /\ UNCHANGED <<rows, deleted, readerVars, pollerVars, service, lastEvent>>

(* Mutant: the select has no case for the context. *)
ExitNever(g) == FALSE /\ UNCHANGED vars

(* the select took the case of the context *)
Exit(g) ==
    /\ poll[g].stage = "waiting" /\ poll[g].cancelled
    /\ SetPoll(g, Free)
    /\ UNCHANGED <<rows, deleted, readerVars, pollerVars, service, eventVars>>

-----------------------------------------------------------------------------
(* The worker process and the world *)

(* a signal cancels the context of the process and with it all goroutines *)
Shutdown ==
    /\ ~ctxDone /\ processes < MaxProcesses
    /\ ctxDone' = TRUE
    /\ poll' = [g \in Slots |-> IF poll[g].stage = "free" THEN Free
                                ELSE [poll[g] EXCEPT !.cancelled = TRUE]]
    /\ UNCHANGED <<rows, deleted, readerVars, cancels, listed, reloading, processes, service, eventVars>>

(* the process ends, after a shutdown or by a crash, whatever its goroutines
   are doing, and the next one starts *)
NewProcess ==
    /\ ctxDone \/ Faults
    /\ processes < MaxProcesses
    /\ processes' = processes + 1
    /\ ctxDone' = FALSE
    /\ cancels' = [m \in {} |-> m]
    /\ poll' = [g \in Slots |-> Free]
    /\ listed' = {} /\ reloading' = FALSE
    /\ disturbed' = disturbed \union {poll[g].monitor : g \in {h \in Slots : poll[h].stage = "firing"}}
    /\ UNCHANGED <<rows, deleted, readerVars, service, lastEvent>>

(* a service that is not flaky is up all the time *)
ServiceChanges(m) ==
    /\ m \in Flaky
    /\ service' = [service EXCEPT ![m] = IF @ = "up" THEN "down" ELSE "up"]
    /\ UNCHANGED <<rows, deleted, readerVars, pollerVars, poll, eventVars>>

ReaderStep(r) == CountMonitors(r) \/ CreateMonitor(r) \/ ReadForUpdate(r) \/ SaveUpdate(r) \/ RequestFails(r)

CheckStep(g) == BeginCheck(g) \/ Answer(g) \/ UpdateStatus(g) \/ Fire(g)

Next ==
    \/ \E r \in Requests : ReaderStep(r)
    \/ \E m \in Monitors : DeleteMonitor(m) \/ ServiceChanges(m)
    \/ ListAllEnabled \/ Reconcile \/ Shutdown \/ NewProcess
    \/ \E g \in Slots : CheckStep(g) \/ UpdateStatusFails(g) \/ FireFails(g) \/ Exit(g)

Spec == Init /\ [][Next]_vars

(***************************************************************************)
(* Fairness.  The tickers of reload and of every goroutine keep ticking,   *)
(* a request to a service ends (it has a timeout), handlers finish, and a  *)
(* process that was told to stop ends and is started again.  The select of *)
(* a cancelled goroutine may take its tick some times but not always.      *)
(***************************************************************************)
Fairness ==
    /\ WF_vars(ListAllEnabled) /\ WF_vars(Reconcile)
    /\ WF_vars(ctxDone /\ NewProcess)
    /\ \A g \in Slots : WF_vars(CheckStep(g)) /\ SF_vars(Exit(g))
    /\ \A r \in Requests : WF_vars(CreateMonitor(r) \/ SaveUpdate(r))

FairSpec == Spec /\ Fairness

-----------------------------------------------------------------------------
(* Correctness *)

Stages == {"started", "waiting", "requesting", "recording", "firing"}

Goroutines == [stage : Stages, monitor : Monitors, cancelled : BOOLEAN,
               prev : Statuses, outcome : Answers]

Held == [op : {"create"}] \union [op : {"update"}, monitor : Monitors, row : Rows]

(* The shape of the state. *)
TypeOK ==
    /\ Existing \subseteq Monitors /\ \A m \in Existing : rows[m] \in Rows
    /\ deleted \subseteq Monitors
    /\ request \in [Requests -> Held \union {NoRequest}]
    /\ edits \in 0..MaxEdits
    /\ DOMAIN cancels \subseteq Monitors /\ Range(cancels) \subseteq Slots
    /\ poll \in [Slots -> Goroutines \union {Free}]
    /\ listed \subseteq Monitors /\ reloading \in BOOLEAN
    /\ ctxDone \in BOOLEAN /\ processes \in Nat
    /\ service \in [Monitors -> Answers]
    /\ lastEvent \in [Monitors -> Answers \union {"none"}]
    /\ disturbed \subseteq Monitors

Alive(g) == poll[g].stage # "free"

(* The map of cancel functions of Poller and the goroutines agree: as long as
   the process runs, a monitor in the map has a goroutine of its own that
   polls it and was not told to stop; and at any time a goroutine that was not
   told to stop is in the map, so reload can still stop it, and no monitor is
   polled by two of them. *)
PollersConsistent ==
    /\ ~ctxDone => \A m \in DOMAIN cancels :
          /\ Alive(cancels[m])
          /\ poll[cancels[m]].monitor = m /\ ~poll[cancels[m]].cancelled
    /\ \A g \in Slots :
          Alive(g) /\ ~poll[g].cancelled
             => poll[g].monitor \in DOMAIN cancels /\ cancels[poll[g].monitor] = g

(* Create counts and inserts in two statements, and Update inserts what was
   deleted since it was read: with two requests at the same time a project has
   more than the documented maximum of monitors.  It is passed only by as many
   as there are other requests, however often they are repeated. *)
LimitOvershoot == Cardinality(Existing) + 1 <= MaxMonitors + Cardinality(Requests)

(* The events of a monitor are its transitions: whatever is deleted, cancelled
   or restarted, they alternate, and the last one is the status in its row once
   recordResult has written both.  Only an Update that saved the row, a write
   that failed and a process that ended between the two writes disturb it. *)
EventsTrackStatus ==
    /\ \A g \in Slots :
          poll[g].stage = "firing" /\ poll[g].monitor \notin disturbed
             => lastEvent[poll[g].monitor] # poll[g].outcome
    /\ \A m \in Existing \ disturbed :
          /\ lastEvent[m] # "none"
          /\ \A g \in Slots : poll[g].stage = "firing" => poll[g].monitor # m
          => lastEvent[m] = rows[m].last

(* The status of a monitor that stays enabled follows a service that stays up
   or stays down, whatever edits, cancelled checks and restarts came first. *)
StatusFollowsService ==
    \A m \in Monitors, s \in Answers :
        <>[](m \in Enabled /\ service[m] = s) => <>[](m \in Enabled => rows[m].last = s)

(* A monitor that is deleted or paused, and stays so, is no longer polled. *)
PausedIsNotPolled ==
    \A m \in Monitors :
        <>[](m \notin Enabled) => <>[](\A g \in Slots : Alive(g) => poll[g].monitor # m)
=============================================================================
