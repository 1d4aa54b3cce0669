----------------------------- MODULE WorkerPool -----------------------------
(***************************************************************************)
(* The goroutine pool of the worker process (internal/worker): Start, the  *)
(* monitor goroutine that evaluates the queue length, scaling under        *)
(* workerMutex, the stop channels, and shutdown through the context and    *)
(* the wait group.                                                         *)
(*                                                                         *)
(* A goroutine is a slot; a slot is reused after its goroutine has ended.  *)
(* The map workerChannels goes from worker ids to the slot whose stop      *)
(* channel it holds.  The scale factor is the rational FactorNum /         *)
(* FactorDen.                                                              *)
(***************************************************************************)
EXTENDS Naturals, FiniteSets, Functions

CONSTANTS
    MinWorkerCount, MaxWorkerCount, InitialWorkerCount,
    ScaleUpThreshold, ScaleDownThreshold,
    FactorNum, FactorDen,
    EnableAutoscaling,
    Loads,           \* queue lengths the environment produces
    MaxLoadChanges,  \* bound: changes of the queue length
    Slots            \* bound: as many goroutines as can be alive at the same time

ASSUME PoolAssumption ==
    /\ MinWorkerCount \in Nat \ {0}
    /\ MaxWorkerCount \in Nat
    /\ MinWorkerCount <= MaxWorkerCount
    /\ InitialWorkerCount \in Nat \ {0}
    /\ ScaleUpThreshold \in Nat \ {0}
    /\ ScaleDownThreshold \in Nat \ {0}
    /\ FactorNum \in Nat \ {0}
    /\ FactorDen \in Nat \ {0}
    /\ EnableAutoscaling \in BOOLEAN
    /\ Loads \subseteq Nat
    /\ MaxLoadChanges \in Nat
    /\ IsFiniteSet(Slots)

VARIABLES
    active,       \* activeWorkers
    channels,     \* workerChannels: worker id -> slot
    goroutine,    \* "free", "polling" or "busy" for each slot
    stopped,      \* slots whose stop channel was sent to and closed
    wg,           \* counter of the wait group
    cooled,       \* the cooldown since lastScaleTime has passed
    ctxDone,      \* the context is cancelled
    starter,      \* Start: "scaling", "waiting" or "returned"
    monitor,      \* the monitor goroutine
    seen,         \* the queue length the monitor read
    target,       \* the worker count evaluateScaling decided on
    load,         \* the length of the queue
    loadChanges   \* changes of it so far

poolVars    == <<active, channels, cooled>>
workerVars  == <<goroutine, stopped, wg>>
monitorVars == <<monitor, seen, target>>
envVars     == <<load, loadChanges>>
vars == <<poolVars, workerVars, monitorVars, envVars, ctxDone, starter>>

Init ==
    /\ active = 0
    /\ channels = [id \in {} |-> id]
    /\ goroutine = [s \in Slots |-> "free"]
    /\ stopped = {}
    /\ wg = 1                       \* wg.Add(1) for the monitor
    /\ cooled = FALSE
    /\ ctxDone = FALSE
    /\ starter = "scaling"
    /\ monitor = "idle"
    /\ seen = 0
    /\ target = 0
    /\ load \in Loads
    /\ loadChanges = 0

-----------------------------------------------------------------------------
(* scaleWorkers, under workerMutex *)

(* Mutant: only the lower limit. *)
ClampBelow(n) == IF n < MinWorkerCount THEN MinWorkerCount ELSE n

Clamp(n) == IF n < MinWorkerCount THEN MinWorkerCount
            ELSE IF n > MaxWorkerCount THEN MaxWorkerCount ELSE n

(* Mutant: the id is the number of workers. *)
NextWorkerIDsByCount == {active}

(* one more than the largest id in use, or zero *)
NextWorkerIDs == {n \in {0} \union {id + 1 : id \in DOMAIN channels} :
                    \A id \in DOMAIN channels : id < n}

FreeSlots == {s \in Slots : goroutine[s] = "free" /\ s \notin Range(channels)}

(* Mutant: one wg.Add(1) for all new workers. *)
ScaleUpAddOnce(n) ==
    /\ \E next \in NextWorkerIDs :
          \E new \in Injection(next..(next + (n - active) - 1), FreeSlots) :
             /\ channels' = [id \in DOMAIN channels \union DOMAIN new |->
                               IF id \in DOMAIN new THEN new[id] ELSE channels[id]]
             /\ goroutine' = [s \in Slots |-> IF s \in Range(new) THEN "polling"
                                              ELSE goroutine[s]]
    /\ wg' = wg + 1
    /\ active' = n
    /\ cooled' = FALSE
    /\ UNCHANGED stopped

(* new workers, under consecutive ids and with a goroutine each *)
ScaleUp(n) ==
    /\ \E next \in NextWorkerIDs :
          \E new \in Injection(next..(next + (n - active) - 1), FreeSlots) :
             /\ channels' = [id \in DOMAIN channels \union DOMAIN new |->
                               IF id \in DOMAIN new THEN new[id] ELSE channels[id]]
             /\ goroutine' = [s \in Slots |-> IF s \in Range(new) THEN "polling"
                                              ELSE goroutine[s]]
    /\ wg' = wg + (n - active)
    /\ active' = n
    /\ cooled' = FALSE
    /\ UNCHANGED stopped

Alive == {s \in Slots : goroutine[s] # "free"}

(* the ids come from ranging over the map: any of them, as many as are
   there; a stop sent to a goroutine that has left already goes nowhere *)
ScaleDown(n) ==
    /\ active > MinWorkerCount
    /\ \E ids \in SUBSET DOMAIN channels :
          /\ \/ Cardinality(ids) = active - n
             \/ ids = DOMAIN channels /\ Cardinality(ids) < active - n
          /\ stopped' = stopped \union ({channels[id] : id \in ids} \intersect Alive)
          /\ channels' = Restrict(channels, DOMAIN channels \ ids)
    /\ active' = n
    /\ cooled' = FALSE
    /\ UNCHANGED <<goroutine, wg>>

Unscaled(n) == n = active \/ (n < active /\ active <= MinWorkerCount)

ScaleWorkers(n) ==
    \/ Clamp(n) > active /\ ScaleUp(Clamp(n))
    \/ Clamp(n) < active /\ ScaleDown(Clamp(n))
    \/ Unscaled(Clamp(n)) /\ UNCHANGED <<poolVars, workerVars>>

-----------------------------------------------------------------------------
(* Start *)

StartWorkers ==
    /\ starter = "scaling"
    /\ ScaleWorkers(InitialWorkerCount)
    /\ starter' = "waiting"
    /\ UNCHANGED <<monitorVars, envVars, ctxDone>>

StartReturns ==
    /\ starter = "waiting" /\ wg = 0
    /\ starter' = "returned"
    /\ UNCHANGED <<poolVars, workerVars, monitorVars, envVars, ctxDone>>

-----------------------------------------------------------------------------
(* monitorQueueWithAutoscaling and evaluateScaling *)

Overloaded(q) == q > ScaleUpThreshold * 5

(* a tick: the queue length is read, and the scaling is evaluated after the
   cooldown, or during it in an emergency; a tick whose LLEN fails is logged
   and changes nothing, which is a stuttering step *)
MonitorTick ==
    /\ monitor = "idle"
    /\ seen' = load
    /\ monitor' = IF /\ EnableAutoscaling
                     /\ cooled \/ (Overloaded(load) /\ active < MaxWorkerCount)
                  THEN "evaluating" ELSE "idle"
    /\ UNCHANGED <<poolVars, workerVars, target, envVars, ctxDone, starter>>

CeilDiv(a, b) == (a + b - 1) \div b

MoreWorkers(cur) ==
    LET wanted == IF Overloaded(seen) THEN MaxWorkerCount
                  ELSE IF seen > ScaleUpThreshold * 3
                       THEN CeilDiv(cur * FactorNum * 3, FactorDen * 2)
                       ELSE CeilDiv(cur * FactorNum, FactorDen)
        capped == IF wanted > MaxWorkerCount THEN MaxWorkerCount ELSE wanted
    IN  IF capped <= cur THEN cur + 1 ELSE capped

FewerWorkers(cur) ==
    LET wanted == (cur * FactorDen) \div FactorNum
    IN  IF wanted < MinWorkerCount THEN MinWorkerCount ELSE wanted

WantsMore(cur) == seen > ScaleUpThreshold /\ cur < MaxWorkerCount

(* Mutant: never down to the minimum. *)
WantsFewerThanMost(cur) ==
    /\ ~WantsMore(cur)
    /\ seen < ScaleDownThreshold /\ cur > MinWorkerCount + 1
    /\ FewerWorkers(cur) < cur

WantsFewer(cur) ==
    /\ ~WantsMore(cur)
    /\ seen < ScaleDownThreshold /\ cur > MinWorkerCount
    /\ FewerWorkers(cur) < cur

(* evaluateScaling reads activeWorkers and releases the lock *)
MonitorEvaluate ==
    /\ monitor = "evaluating"
    /\ \/ /\ WantsMore(active)
          /\ target' = MoreWorkers(active)
          /\ monitor' = "scaling"
       \/ /\ WantsFewer(active)
          /\ target' = FewerWorkers(active)
          /\ monitor' = "scaling"
       \/ /\ ~WantsMore(active) /\ ~WantsFewer(active)
          /\ monitor' = "idle"
          /\ UNCHANGED target
    /\ UNCHANGED <<poolVars, workerVars, seen, envVars, ctxDone, starter>>

MonitorScale ==
    /\ monitor = "scaling"
    /\ ScaleWorkers(target)
    /\ monitor' = "idle"
    /\ UNCHANGED <<seen, target, envVars, ctxDone, starter>>

MonitorExit ==
    /\ monitor = "idle" /\ ctxDone
    /\ monitor' = "exited"
    /\ wg' = wg - 1
    /\ UNCHANGED <<poolVars, goroutine, stopped, seen, target, envVars, ctxDone, starter>>

-----------------------------------------------------------------------------
(* runWorkerWithControl: one iteration of the select.  When several cases
   are ready Go takes any of them. *)

WorkerTick(s) ==
    /\ goroutine[s] = "polling"
    /\ goroutine' = [goroutine EXCEPT ![s] = "busy"]
    /\ UNCHANGED <<poolVars, stopped, wg, monitorVars, envVars, ctxDone, starter>>

(* the queue was empty, or processWithRetry returned *)
WorkerDone(s) ==
    /\ goroutine[s] = "busy"
    /\ goroutine' = [goroutine EXCEPT ![s] = "polling"]
    /\ UNCHANGED <<poolVars, stopped, wg, monitorVars, envVars, ctxDone, starter>>

(* Mutant: the select has no case for the context. *)
WorkerExitOnStop(s) ==
    /\ goroutine[s] = "polling"
    /\ s \in stopped
    /\ goroutine' = [goroutine EXCEPT ![s] = "free"]
    /\ stopped' = stopped \ {s}
    /\ wg' = wg - 1
    /\ UNCHANGED <<poolVars, monitorVars, envVars, ctxDone, starter>>

(* Mutant: the select has no case for the stop channel. *)
WorkerExitOnContext(s) ==
    /\ goroutine[s] = "polling"
    /\ ctxDone
    /\ goroutine' = [goroutine EXCEPT ![s] = "free"]
    /\ stopped' = stopped \ {s}
    /\ wg' = wg - 1
    /\ UNCHANGED <<poolVars, monitorVars, envVars, ctxDone, starter>>

WorkerExit(s) ==
    /\ goroutine[s] = "polling"
    /\ s \in stopped \/ ctxDone
    /\ goroutine' = [goroutine EXCEPT ![s] = "free"]
    /\ stopped' = stopped \ {s}
    /\ wg' = wg - 1
    /\ UNCHANGED <<poolVars, monitorVars, envVars, ctxDone, starter>>

-----------------------------------------------------------------------------
(* The environment *)

(* SIGINT or SIGTERM: SetupSignalHandler cancels the context *)
Signal ==
    /\ ~ctxDone
    /\ ctxDone' = TRUE
    /\ UNCHANGED <<poolVars, workerVars, monitorVars, envVars, starter>>

CooldownPasses ==
    /\ ~cooled
    /\ cooled' = TRUE
    /\ UNCHANGED <<active, channels, workerVars, monitorVars, envVars, ctxDone, starter>>

LoadChanges ==
    /\ loadChanges < MaxLoadChanges
    /\ loadChanges' = loadChanges + 1
    /\ load' \in Loads \ {load}
    /\ UNCHANGED <<poolVars, workerVars, monitorVars, ctxDone, starter>>

Next ==
    \/ StartWorkers \/ StartReturns
    \/ MonitorTick \/ MonitorEvaluate \/ MonitorScale \/ MonitorExit
    \/ \E s \in Slots : WorkerTick(s) \/ WorkerDone(s) \/ WorkerExit(s)
    \/ Signal \/ CooldownPasses \/ LoadChanges

Spec == Init /\ [][Next]_vars

(***************************************************************************)
(* Fairness.  The steps of Start and of the monitor are not blocked by     *)
(* anyone, an event takes a worker a bounded time (every database attempt  *)
(* ends and there are MaxRetries of them), and time passes.  Go's select   *)
(* chooses at random among the ready cases, so a worker or a monitor whose *)
(* exit is ready again and again does not take its ticker for ever: strong *)
(* fairness.  Redis answers LLEN again sooner or later.                    *)
(***************************************************************************)
Fairness ==
    /\ WF_vars(StartWorkers) /\ WF_vars(StartReturns)
    /\ WF_vars(MonitorTick) /\ WF_vars(MonitorEvaluate) /\ WF_vars(MonitorScale)
    /\ SF_vars(MonitorExit)
    /\ \A s \in Slots : WF_vars(WorkerDone(s)) /\ SF_vars(WorkerExit(s))
    /\ WF_vars(CooldownPasses)

FairSpec == Spec /\ Fairness

-----------------------------------------------------------------------------
(* Correctness *)

(* The shape of the state. *)
TypeOK ==
    /\ active \in Nat
    /\ DOMAIN channels \subseteq Nat /\ Range(channels) \subseteq Slots
    /\ goroutine \in [Slots -> {"free", "polling", "busy"}]
    /\ stopped \subseteq Slots
    /\ wg \in Nat
    /\ cooled \in BOOLEAN /\ ctxDone \in BOOLEAN
    /\ starter \in {"scaling", "waiting", "returned"}
    /\ monitor \in {"idle", "evaluating", "scaling", "exited"}
    /\ seen \in Nat /\ target \in Nat /\ load \in Nat
    /\ loadChanges \in 0..MaxLoadChanges

(* "Worker count is always clamped between WORKER_MIN_COUNT and
   WORKER_MAX_COUNT" (README of the worker): once the first scaling has
   happened, whoever of Start and the monitor did it. *)
WithinLimits ==
    active # 0 \/ starter # "scaling" => active \in MinWorkerCount..MaxWorkerCount

(* The counter and the map of stop channels agree, every channel belongs to
   a goroutine of its own that has not been told to stop, and that goroutine
   is alive until shutdown: sending to a channel under the mutex can never
   block, no goroutine is orphaned by an id used twice, and no slot of the
   pool is held by a dead worker. *)
PoolConsistent ==
    /\ active = Cardinality(DOMAIN channels)
    /\ \A i, j \in DOMAIN channels : channels[i] = channels[j] => i = j
    /\ \A i \in DOMAIN channels :
          /\ channels[i] \notin stopped
          /\ ~ctxDone => channels[i] \in Alive
    /\ stopped \subseteq Alive

(* The wait group counts the goroutines that are alive, the monitor among
   them: Wait neither returns early nor waits for nobody. *)
WaitGroupExact ==
    wg = Cardinality(Alive) + (IF monitor = "exited" THEN 0 ELSE 1)

(* When Start returns, and main closes Redis and the database after it, no
   worker is polling or writing and the monitor cannot start another one. *)
ReturnedMeansStopped ==
    starter = "returned" => Alive = {} /\ monitor = "exited"

(* A signal ends the process: Start returns however busy the pool is and
   whatever the monitor was doing. *)
ShutdownCompletes == ctxDone ~> starter = "returned"

(* A worker told to stop leaves, after the event it is working on. *)
StoppedWorkerLeaves == \A s \in Slots : s \in stopped ~> s \notin stopped

(* A queue that stays over five times the threshold gets every worker there
   may be, and one that stays under the lower threshold goes back to the
   minimum (for a scale factor above 1). *)
ScalesToLoad ==
    EnableAutoscaling =>
        /\ <>[](Overloaded(load) /\ ~ctxDone) => <>[](active = MaxWorkerCount)
        /\ <>[](load < ScaleDownThreshold /\ ~ctxDone) => <>[](active = MinWorkerCount)
=============================================================================
