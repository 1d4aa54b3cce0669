-------------------------- MODULE WorkerPoolProofs --------------------------
(***************************************************************************)
(* Theorems about WorkerPool, for every configuration with at least one    *)
(* worker and MinWorkerCount <= MaxWorkerCount, every scale factor, every  *)
(* pair of thresholds and every sequence of queue lengths.                 *)
(***************************************************************************)
EXTENDS WorkerPool, FiniteSetTheorems, TLAPS

(* Clamping ends between the two limits. *)
LEMMA ClampRange ==
    ASSUME NEW n \in Nat
    PROVE  Clamp(n) \in MinWorkerCount..MaxWorkerCount /\ Clamp(n) \in Nat
BY PoolAssumption DEF Clamp

(* What evaluateScaling decides on is a natural number. *)
LEMMA TargetNat ==
    ASSUME NEW cur \in Nat
    PROVE  MoreWorkers(cur) \in Nat /\ FewerWorkers(cur) \in Nat
<1> USE PoolAssumption
<1>1. \A a, b \in Nat : b # 0 => CeilDiv(a, b) \in Nat
  BY DEF CeilDiv
<1>2. cur * FactorNum \in Nat /\ cur * FactorNum * 3 \in Nat
  OBVIOUS
<1>3. FactorDen * 2 \in Nat /\ FactorDen * 2 # 0
  OBVIOUS
<1>4. CeilDiv(cur * FactorNum, FactorDen) \in Nat
  BY <1>1, <1>2
<1>5. CeilDiv(cur * FactorNum * 3, FactorDen * 2) \in Nat
  BY <1>1, <1>2, <1>3
<1>6. MoreWorkers(cur) \in Nat
  BY <1>4, <1>5 DEF MoreWorkers
<1>7. cur * FactorDen \in Nat
  OBVIOUS
<1>8. (cur * FactorDen) \div FactorNum \in Nat
  BY <1>7
<1>9. FewerWorkers(cur) \in Nat
  BY <1>8 DEF FewerWorkers
<1> QED
  BY <1>6, <1>9

(* The inductive invariant.  The limits need only the first two conjuncts;
   the counter of the wait group, and with it ReturnedMeansStopped, needs to
   know who is alive. *)
PoolInv ==
    /\ TypeOK
    /\ WithinLimits
    /\ IsFiniteSet(DOMAIN channels)
    /\ PoolConsistent
    /\ WaitGroupExact
    /\ ReturnedMeansStopped

(* scaleWorkers ends within the limits whatever it is asked for. *)
LEMMA ScaleWithin ==
    ASSUME NEW n \in Nat, active \in Nat, ScaleWorkers(n)
    PROVE  \/ active' \in MinWorkerCount..MaxWorkerCount
           \/ active' = active /\ active \in MinWorkerCount..MaxWorkerCount
<1>1. Clamp(n) \in MinWorkerCount..MaxWorkerCount /\ Clamp(n) \in Nat
  BY ClampRange
<1>2. CASE Clamp(n) > active /\ ScaleUp(Clamp(n))
  BY <1>1, <1>2 DEF ScaleUp
<1>3. CASE Clamp(n) < active /\ ScaleDown(Clamp(n))
  BY <1>1, <1>3 DEF ScaleDown
<1>4. CASE Unscaled(Clamp(n)) /\ UNCHANGED <<poolVars, workerVars>>
  BY <1>1, <1>4, PoolAssumption DEF Unscaled, poolVars
<1> QED
  BY <1>2, <1>3, <1>4 DEF ScaleWorkers

(* Whoever is alive is one of finitely many goroutines. *)
LEMMA AliveFinite == IsFiniteSet(Alive) /\ Cardinality(Alive) \in Nat
<1>1. Alive \subseteq Slots
  BY DEF Alive
<1>2. IsFiniteSet(Alive)
  BY <1>1, PoolAssumption, FS_Subset
<1> QED
  BY <1>2, FS_CardinalityType

(* What a scale-up does to the map, the goroutines and the wait group. *)
LEMMA ScaleUpStep ==
    ASSUME PoolInv, NEW n \in Nat, n > active, ScaleUp(n), ctxDone' = ctxDone
    PROVE  /\ DOMAIN channels' \subseteq Nat /\ Range(channels') \subseteq Slots
           /\ goroutine' \in [Slots -> {"free", "polling", "busy"}]
           /\ IsFiniteSet(DOMAIN channels')
           /\ PoolConsistent'
           /\ Cardinality(Alive') = Cardinality(Alive) + (n - active)
<1> DEFINE D == DOMAIN channels
<1>1. PICK next \in NextWorkerIDs :
        \E new \in Injection(next..(next + (n - active) - 1), FreeSlots) :
           /\ channels' = [id \in DOMAIN channels \union DOMAIN new |->
                             IF id \in DOMAIN new THEN new[id] ELSE channels[id]]
           /\ goroutine' = [s \in Slots |-> IF s \in Range(new) THEN "polling"
                                            ELSE goroutine[s]]
  BY DEF ScaleUp
<1> DEFINE I == next..(next + (n - active) - 1)
<1>2. PICK new \in Injection(I, FreeSlots) :
           /\ channels' = [id \in D \union DOMAIN new |->
                             IF id \in DOMAIN new THEN new[id] ELSE channels[id]]
           /\ goroutine' = [s \in Slots |-> IF s \in Range(new) THEN "polling"
                                            ELSE goroutine[s]]
  BY <1>1
<1>3. /\ active \in Nat /\ D \subseteq Nat /\ IsFiniteSet(D) /\ active = Cardinality(D)
      /\ Range(channels) \subseteq Slots
      /\ goroutine \in [Slots -> {"free", "polling", "busy"}]
  BY DEF PoolInv, TypeOK, PoolConsistent
<1>4. next \in Nat /\ \A id \in D : id < next
  BY <1>3 DEF NextWorkerIDs
<1>5. /\ DOMAIN new = I /\ new \in [I -> FreeSlots]
      /\ \A i, j \in I : new[i] = new[j] => i = j
  BY <1>2 DEF Injection, IsInjective
<1>6. I \subseteq Nat /\ I \intersect D = {}
  BY <1>3, <1>4
<1>7. DOMAIN channels' = D \union I
  BY <1>2, <1>5
<1>8. /\ \A id \in I : channels'[id] = new[id]
      /\ \A id \in D : channels'[id] = channels[id]
  BY <1>2, <1>5, <1>6
<1>9. IsFiniteSet(I) /\ Cardinality(I) = n - active
  <2> DEFINE last == next + (n - active) - 1
  <2>1. next \in Int /\ last \in Int /\ ~(next > last) /\ last - next + 1 = n - active
    BY <1>3, <1>4
  <2> HIDE DEF last
  <2>2. IsFiniteSet(next..last) /\ Cardinality(next..last) = last - next + 1
    BY <2>1, FS_Interval
  <2> QED
    BY <2>1, <2>2 DEF last
<1>10. IsFiniteSet(D \union I) /\ Cardinality(D \union I) = n
  <2>1. D \intersect I = {}
    BY <1>6
  <2>2. IsFiniteSet(D \union I)
        /\ Cardinality(D \union I) = Cardinality(D) + Cardinality(I) - Cardinality(D \intersect I)
    BY <1>3, <1>9, FS_Union
  <2>3. Cardinality(D \intersect I) = 0
    BY <2>1, FS_EmptySet
  <2> QED
    BY <1>3, <1>9, <2>2, <2>3
<1>11. \A id \in I : new[id] \in Slots /\ goroutine[new[id]] = "free"
                      /\ new[id] \notin Range(channels)
  BY <1>5 DEF FreeSlots
<1>12. Range(channels') \subseteq Slots
  <2>1. \A id \in D : channels[id] \in Slots
    BY <1>3 DEF Range
  <2> QED
    BY <1>7, <1>8, <1>11, <2>1 DEF Range
<1>13. Alive' = Alive \union Range(new) /\ Alive \intersect Range(new) = {}
  <2>1. Range(new) \subseteq Slots /\ \A s \in Range(new) : goroutine[s] = "free"
    BY <1>5, <1>11 DEF Range
  <2> QED
    BY <1>2, <2>1 DEF Alive
<1>14. IsFiniteSet(Range(new)) /\ Cardinality(Range(new)) = n - active
  <2>1. new \in Surjection(I, Range(new)) /\ new \in Injection(I, Range(new))
    BY <1>5 DEF Surjection, Injection, IsInjective, Range
  <2> QED
    BY <1>9, <2>1, FS_Surjection
<1>15. Cardinality(Alive') = Cardinality(Alive) + (n - active)
  <2>1. Cardinality(Alive \intersect Range(new)) = 0
    BY <1>13, FS_EmptySet
  <2>2. Cardinality(Alive \union Range(new))
          = Cardinality(Alive) + Cardinality(Range(new)) - Cardinality(Alive \intersect Range(new))
    BY <1>14, AliveFinite, FS_Union
  <2> QED
    BY <1>3, <1>13, <1>14, <2>1, <2>2, AliveFinite
<1>16. PoolConsistent'
  <2>1. active' = n /\ stopped' = stopped
    BY DEF ScaleUp
  <2>2. active' = Cardinality(DOMAIN channels')
    BY <1>7, <1>10, <2>1
  <2>3. \A i, j \in DOMAIN channels' : channels'[i] = channels'[j] => i = j
    <3>1. \A i, j \in D : channels[i] = channels[j] => i = j
      BY DEF PoolInv, PoolConsistent
    <3>2. \A i \in D, j \in I : channels[i] # new[j]
      BY <1>11 DEF Range
    <3> QED
      BY <1>5, <1>7, <1>8, <3>1, <3>2
  <2>4. stopped' \subseteq Alive'
    BY <1>13, <2>1 DEF PoolInv, PoolConsistent
  <2>5. \A i \in DOMAIN channels' :
           channels'[i] \notin stopped' /\ (~ctxDone' => channels'[i] \in Alive')
    <3>1. \A i \in D : channels[i] \notin stopped /\ (~ctxDone => channels[i] \in Alive)
      BY DEF PoolInv, PoolConsistent
    <3>2. \A i \in I : new[i] \in Range(new) /\ new[i] \notin Alive
      BY <1>5, <1>11 DEF Range, Alive
    <3>3. \A i \in I : new[i] \notin stopped
      BY <3>2 DEF PoolInv, PoolConsistent
    <3> QED
      BY <1>7, <1>8, <1>13, <2>1, <3>1, <3>2, <3>3
  <2> QED
    BY <2>2, <2>3, <2>4, <2>5 DEF PoolConsistent
<1>17. goroutine' \in [Slots -> {"free", "polling", "busy"}]
  BY <1>2, <1>3
<1> QED
  BY <1>6, <1>3, <1>7, <1>10, <1>12, <1>15, <1>16, <1>17

(* What a scale-down does to the map and the stop channels. *)
LEMMA ScaleDownStep ==
    ASSUME PoolInv, NEW n \in Nat, n < active, ScaleDown(n), ctxDone' = ctxDone
    PROVE  /\ DOMAIN channels' \subseteq Nat /\ Range(channels') \subseteq Slots
           /\ stopped' \subseteq Slots
           /\ IsFiniteSet(DOMAIN channels')
           /\ PoolConsistent'
           /\ Alive' = Alive
<1> DEFINE D == DOMAIN channels
<1>1. PICK ids \in SUBSET D :
          /\ \/ Cardinality(ids) = active - n
             \/ ids = D /\ Cardinality(ids) < active - n
          /\ stopped' = stopped \union ({channels[id] : id \in ids} \intersect Alive)
          /\ channels' = Restrict(channels, D \ ids)
  BY DEF ScaleDown
<1>2. /\ active \in Nat /\ D \subseteq Nat /\ IsFiniteSet(D) /\ active = Cardinality(D)
      /\ Range(channels) \subseteq Slots /\ stopped \subseteq Alive
  BY DEF PoolInv, TypeOK, PoolConsistent
<1>3. Cardinality(ids) = active - n
  BY <1>1, <1>2
<1>4. DOMAIN channels' = D \ ids /\ \A i \in D \ ids : channels'[i] = channels[i]
  BY <1>1 DEF Restrict
<1>5. IsFiniteSet(D \ ids) /\ Cardinality(D \ ids) = n
  <2>1. D \intersect ids = ids
    OBVIOUS
  <2>2. /\ IsFiniteSet(D \ ids)
        /\ Cardinality(D \ ids) = Cardinality(D) - Cardinality(D \intersect ids)
    BY <1>2, FS_Difference
  <2>3. Cardinality(D \intersect ids) = active - n
    BY <1>3, <2>1
  <2>4. Cardinality(D) = active /\ active \in Nat
    BY <1>2
  <2>5. active - (active - n) = n
    BY <2>4
  <2> QED
    BY <2>2, <2>3, <2>4, <2>5
<1>6. Alive' = Alive /\ Alive \subseteq Slots /\ active' = n
  BY DEF ScaleDown, Alive
<1>7. Range(channels') \subseteq Slots
  BY <1>2, <1>4 DEF Range
<1>8. PoolConsistent'
  <2>1. \A i, j \in D : channels[i] = channels[j] => i = j
    BY DEF PoolInv, PoolConsistent
  <2>2. \A i \in D : channels[i] \notin stopped /\ (~ctxDone => channels[i] \in Alive)
    BY DEF PoolInv, PoolConsistent
  <2>3. \A i \in D \ ids : channels[i] \notin {channels[id] : id \in ids}
    BY <2>1
  <2>4. \A i \in D \ ids : channels[i] \notin stopped'
    BY <1>1, <2>2, <2>3
  <2>5. stopped' \subseteq Alive'
    BY <1>1, <1>2, <1>6
  <2>6. active' = Cardinality(DOMAIN channels')
    BY <1>4, <1>5, <1>6
  <2>7. \A i, j \in DOMAIN channels' : channels'[i] = channels'[j] => i = j
    BY <1>4, <2>1
  <2>8. \A i \in DOMAIN channels' :
           channels'[i] \notin stopped' /\ (~ctxDone' => channels'[i] \in Alive')
    BY <1>4, <1>6, <2>2, <2>4
  <2> QED
    BY <2>5, <2>6, <2>7, <2>8 DEF PoolConsistent
<1> QED
  BY <1>1, <1>2, <1>4, <1>5, <1>6, <1>7, <1>8

(* What scaleWorkers does to the pool, for any requested count. *)
LEMMA ScaleStep ==
    ASSUME PoolInv, NEW n \in Nat, ScaleWorkers(n), ctxDone' = ctxDone
    PROVE  /\ active' \in MinWorkerCount..MaxWorkerCount
           /\ DOMAIN channels' \subseteq Nat /\ Range(channels') \subseteq Slots
           /\ goroutine' \in [Slots -> {"free", "polling", "busy"}]
           /\ stopped' \subseteq Slots
           /\ wg' \in Nat /\ cooled' \in BOOLEAN
           /\ IsFiniteSet(DOMAIN channels')
           /\ PoolConsistent'
           /\ wg' - wg = Cardinality(Alive') - Cardinality(Alive)
<1> USE PoolAssumption
<1>0. active \in Nat /\ wg \in Nat /\ Clamp(n) \in Nat /\ Cardinality(Alive) \in Nat
  BY ClampRange, AliveFinite DEF PoolInv, TypeOK
<1>1. active' \in MinWorkerCount..MaxWorkerCount
  BY <1>0, ScaleWithin
<1>2. CASE Clamp(n) > active /\ ScaleUp(Clamp(n))
  <2>1. wg' = wg + (Clamp(n) - active) /\ stopped' = stopped /\ cooled' = FALSE
    BY <1>2 DEF ScaleUp
  <2>2. /\ DOMAIN channels' \subseteq Nat /\ Range(channels') \subseteq Slots
        /\ goroutine' \in [Slots -> {"free", "polling", "busy"}]
        /\ IsFiniteSet(DOMAIN channels')
        /\ PoolConsistent'
        /\ Cardinality(Alive') = Cardinality(Alive) + (Clamp(n) - active)
    BY <1>0, <1>2, ScaleUpStep
  <2>3. wg' \in Nat /\ wg' - wg = Cardinality(Alive') - Cardinality(Alive)
    BY <1>0, <1>2, <2>1, <2>2
  <2> QED
    BY <1>1, <2>1, <2>2, <2>3 DEF PoolInv, TypeOK
<1>3. CASE Clamp(n) < active /\ ScaleDown(Clamp(n))
  <2>1. wg' = wg /\ goroutine' = goroutine /\ cooled' = FALSE
    BY <1>3 DEF ScaleDown
  <2>2. /\ DOMAIN channels' \subseteq Nat /\ Range(channels') \subseteq Slots
        /\ stopped' \subseteq Slots
        /\ IsFiniteSet(DOMAIN channels')
        /\ PoolConsistent'
        /\ Alive' = Alive
    BY <1>0, <1>3, ScaleDownStep
  <2>3. wg' - wg = Cardinality(Alive') - Cardinality(Alive)
    BY <1>0, <2>1, <2>2
  <2> QED
    BY <1>1, <2>1, <2>2, <2>3 DEF PoolInv, TypeOK
<1>4. CASE Unscaled(Clamp(n)) /\ UNCHANGED <<poolVars, workerVars>>
  <2>1. UNCHANGED <<active, channels, cooled, goroutine, stopped, wg>>
    BY <1>4 DEF poolVars, workerVars
  <2>2. Alive' = Alive
    BY <2>1 DEF Alive
  <2>3. PoolConsistent'
    BY <2>1, <2>2 DEF PoolInv, PoolConsistent
  <2> QED
    BY <1>0, <1>1, <2>1, <2>2, <2>3 DEF PoolInv, TypeOK
<1> QED
  BY <1>2, <1>3, <1>4 DEF ScaleWorkers

(* A step that leaves the pool and its goroutines alone. *)
LEMMA PoolFrame ==
    ASSUME PoolInv, UNCHANGED <<active, channels, goroutine, stopped, wg>>,
           ctxDone => ctxDone', ctxDone' \in BOOLEAN,
           cooled' \in BOOLEAN,
           starter' = starter \/ (starter' = "returned" /\ wg = 0 /\ starter = "waiting"),
           monitor' \in {"idle", "evaluating", "scaling", "exited"},
           monitor' = "exited" <=> monitor = "exited",
           seen' \in Nat, target' \in Nat, load' \in Nat,
           loadChanges' \in 0..MaxLoadChanges
    PROVE  PoolInv'
<1>1. Alive' = Alive
  BY DEF Alive
<1>2. TypeOK'
  BY DEF PoolInv, TypeOK
<1>3. WithinLimits'
  BY DEF PoolInv, WithinLimits
<1>4. PoolConsistent'
  BY <1>1 DEF PoolInv, PoolConsistent
<1>5. WaitGroupExact'
  BY <1>1 DEF PoolInv, WaitGroupExact
<1>6. ReturnedMeansStopped'
  <2>1. CASE starter' = starter
    BY <1>1, <2>1 DEF PoolInv, ReturnedMeansStopped
  <2>2. CASE wg = 0
    <3>1. Cardinality(Alive) = 0 /\ monitor = "exited"
      BY <2>2, AliveFinite DEF PoolInv, WaitGroupExact
    <3>2. Alive = {}
      BY <3>1, AliveFinite, FS_EmptySet
    <3> QED
      BY <1>1, <3>1, <3>2 DEF ReturnedMeansStopped
  <2> QED
    BY <2>1, <2>2
<1>7. IsFiniteSet(DOMAIN channels')
  BY DEF PoolInv
<1> QED
  BY <1>2, <1>3, <1>4, <1>5, <1>6, <1>7 DEF PoolInv

(* Every step preserves the invariant. *)
LEMMA PoolStep ==
    ASSUME PoolInv, [Next]_vars
    PROVE  PoolInv'
<1> USE PoolAssumption
<1>0. /\ TypeOK /\ WaitGroupExact /\ ReturnedMeansStopped /\ PoolConsistent
      /\ WithinLimits /\ IsFiniteSet(DOMAIN channels)
      /\ Cardinality(Alive) \in Nat
  BY AliveFinite DEF PoolInv
<1>1. ASSUME NEW n \in Nat, ScaleWorkers(n), ctxDone' = ctxDone,
             starter # "returned", starter' \in {starter, "waiting"},
             monitor # "exited" => monitor' \in {"idle", "evaluating", "scaling"},
             monitor = "exited" => monitor' = monitor,
             UNCHANGED <<seen, target, load, loadChanges>>
      PROVE  PoolInv'
  <2>1. /\ active' \in MinWorkerCount..MaxWorkerCount
        /\ DOMAIN channels' \subseteq Nat /\ Range(channels') \subseteq Slots
        /\ goroutine' \in [Slots -> {"free", "polling", "busy"}]
        /\ stopped' \subseteq Slots
        /\ wg' \in Nat /\ cooled' \in BOOLEAN
        /\ IsFiniteSet(DOMAIN channels')
        /\ PoolConsistent'
        /\ wg' - wg = Cardinality(Alive') - Cardinality(Alive)
    BY <1>1, ScaleStep
  <2>2. TypeOK'
    BY <1>0, <1>1, <2>1 DEF TypeOK
  <2>3. WithinLimits'
    BY <2>1 DEF WithinLimits
  <2>4. WaitGroupExact'
    <3>1. Cardinality(Alive') \in Nat
      <4>1. Alive' \subseteq Slots
        BY DEF Alive
      <4> QED
        BY <4>1, FS_Subset, FS_CardinalityType
    <3>2. wg \in Nat /\ wg = Cardinality(Alive) + (IF monitor = "exited" THEN 0 ELSE 1)
      BY <1>0 DEF TypeOK, WaitGroupExact
    <3>3. monitor' = "exited" <=> monitor = "exited"
      BY <1>1
    <3>4. wg' = Cardinality(Alive') + (wg - Cardinality(Alive))
      BY <1>0, <2>1, <3>1, <3>2
    <3> QED
      BY <1>0, <2>1, <3>1, <3>2, <3>3, <3>4 DEF WaitGroupExact
  <2>5. ReturnedMeansStopped'
    BY <1>1 DEF ReturnedMeansStopped
  <2> QED
    BY <2>1, <2>2, <2>3, <2>4, <2>5 DEF PoolInv
<1>2. CASE StartWorkers
  <2>1. /\ ScaleWorkers(InitialWorkerCount) /\ ctxDone' = ctxDone
        /\ starter # "returned" /\ starter' = "waiting" /\ monitor' = monitor
        /\ UNCHANGED <<seen, target, load, loadChanges>>
    BY <1>2 DEF StartWorkers, monitorVars, envVars
  <2>2. InitialWorkerCount \in Nat /\ (monitor # "exited" => monitor' \in {"idle", "evaluating", "scaling"})
    BY <1>0, <2>1 DEF TypeOK
  <2> QED
    BY <1>1, <2>1, <2>2
<1>3. CASE MonitorScale
  <2>1. /\ ScaleWorkers(target) /\ ctxDone' = ctxDone /\ monitor = "scaling"
        /\ starter' = starter /\ monitor' = "idle"
        /\ UNCHANGED <<seen, target, load, loadChanges>>
    BY <1>3 DEF MonitorScale, envVars
  <2>2. target \in Nat /\ starter # "returned"
    BY <1>0, <2>1 DEF TypeOK, ReturnedMeansStopped
  <2> QED
    BY <1>1, <2>1, <2>2
<1>4. CASE StartReturns
  BY <1>0, <1>4, PoolFrame
     DEF StartReturns, TypeOK, poolVars, workerVars, monitorVars, envVars
<1>5. CASE MonitorTick
  BY <1>0, <1>5, PoolFrame DEF MonitorTick, TypeOK, poolVars, workerVars, envVars
<1>6. CASE MonitorEvaluate
  <2>1. target' \in Nat
    BY <1>0, <1>6, TargetNat DEF MonitorEvaluate, TypeOK
  <2> QED
    BY <1>0, <1>6, <2>1, PoolFrame DEF MonitorEvaluate, TypeOK, poolVars, workerVars, envVars
<1>7. CASE MonitorExit
  <2>1. Alive' = Alive
    BY <1>7 DEF MonitorExit, Alive
  <2>2. wg = Cardinality(Alive) + 1 /\ wg' = wg - 1 /\ monitor' = "exited"
    BY <1>0, <1>7 DEF MonitorExit, WaitGroupExact
  <2>3. wg' = Cardinality(Alive')
    BY <1>0, <2>1, <2>2
  <2>4. UNCHANGED <<active, channels, cooled, goroutine, stopped, seen, target, load,
                    loadChanges, ctxDone, starter>>
    BY <1>7 DEF MonitorExit, poolVars, envVars
  <2>5. TypeOK'
    BY <1>0, <2>1, <2>2, <2>3, <2>4 DEF TypeOK
  <2>6. WaitGroupExact'
    BY <1>0, <2>1, <2>2, <2>3 DEF WaitGroupExact
  <2> QED
    BY <1>0, <1>7, <2>1, <2>2, <2>4, <2>5, <2>6
       DEF PoolInv, WithinLimits, PoolConsistent, ReturnedMeansStopped, MonitorExit
<1>8. ASSUME NEW s \in Slots, WorkerTick(s) \/ WorkerDone(s)
      PROVE  PoolInv'
  <2>1. UNCHANGED <<active, channels, cooled, stopped, wg, monitor, seen, target, load,
                    loadChanges, ctxDone, starter>>
    BY <1>8 DEF WorkerTick, WorkerDone, poolVars, monitorVars, envVars
  <2>2. goroutine' \in [Slots -> {"free", "polling", "busy"}] /\ Alive' = Alive
    BY <1>0, <1>8 DEF WorkerTick, WorkerDone, Alive, TypeOK
  <2> QED
    BY <1>0, <2>1, <2>2
       DEF PoolInv, TypeOK, WithinLimits, PoolConsistent, WaitGroupExact, ReturnedMeansStopped
<1>9. ASSUME NEW s \in Slots, WorkerExit(s)
      PROVE  PoolInv'
  <2>1. UNCHANGED <<active, channels, cooled, monitor, seen, target, load,
                    loadChanges, ctxDone, starter>>
    BY <1>9 DEF WorkerExit, poolVars, monitorVars, envVars
  <2>2. /\ goroutine' \in [Slots -> {"free", "polling", "busy"}]
        /\ s \in Alive /\ Alive' = Alive \ {s} /\ stopped' = stopped \ {s}
    BY <1>0, <1>9 DEF WorkerExit, Alive, TypeOK
  <2>3. Cardinality(Alive') = Cardinality(Alive) - 1
    BY <2>2, AliveFinite, FS_RemoveElement
  <2>4. Cardinality(Alive) # 0
    BY <2>2, AliveFinite, FS_EmptySet
  <2>5. wg' = wg - 1 /\ wg' \in Nat
    BY <1>0, <1>9, <2>4 DEF WorkerExit, WaitGroupExact, TypeOK
  <2>6. WaitGroupExact'
    BY <1>0, <2>1, <2>3, <2>4, <2>5 DEF WaitGroupExact
  <2>7. PoolConsistent'
    BY <1>0, <1>9, <2>1, <2>2 DEF PoolConsistent, WorkerExit
  <2>8. TypeOK' /\ WithinLimits' /\ IsFiniteSet(DOMAIN channels')
    BY <1>0, <2>1, <2>2, <2>5 DEF TypeOK, WithinLimits
  <2>9. ReturnedMeansStopped'
    BY <1>0, <2>1, <2>2 DEF ReturnedMeansStopped
  <2> QED
    BY <2>6, <2>7, <2>8, <2>9 DEF PoolInv
<1>10. CASE Signal
  BY <1>0, <1>10, PoolFrame DEF Signal, TypeOK, poolVars, workerVars, monitorVars, envVars
<1>11. CASE CooldownPasses
  BY <1>0, <1>11, PoolFrame DEF CooldownPasses, TypeOK, workerVars, monitorVars, envVars
<1>12. CASE LoadChanges
  BY <1>0, <1>12, PoolFrame DEF LoadChanges, TypeOK, poolVars, workerVars, monitorVars
<1>13. CASE UNCHANGED vars
  BY <1>0, <1>13, PoolFrame DEF vars, TypeOK, poolVars, workerVars, monitorVars, envVars
<1> QED
  BY <1>2, <1>3, <1>4, <1>5, <1>6, <1>7, <1>8, <1>9, <1>10, <1>11, <1>12, <1>13 DEF Next

(* The invariant holds in every reachable state. *)
LEMMA PoolInvariant == Spec => []PoolInv
<1>1. Init => PoolInv
  <2> SUFFICES ASSUME Init PROVE PoolInv
    OBVIOUS
  <2>1. DOMAIN channels = {} /\ Range(channels) = {}
    BY DEF Init, Range
  <2>2. IsFiniteSet(DOMAIN channels) /\ Cardinality(DOMAIN channels) = 0
    BY <2>1, FS_EmptySet
  <2>a. Alive = {}
    BY DEF Init, Alive
  <2>3. Alive = {} /\ Cardinality(Alive) = 0
    BY <2>a, FS_EmptySet
  <2>b. load \in Nat /\ loadChanges \in 0..MaxLoadChanges
    BY PoolAssumption DEF Init
  <2>c. /\ DOMAIN channels \subseteq Nat /\ Range(channels) \subseteq Slots
        /\ stopped \subseteq Slots
        /\ goroutine \in [Slots -> {"free", "polling", "busy"}]
    BY <2>1 DEF Init
  <2>4. TypeOK
    BY <2>b, <2>c DEF Init, TypeOK
  <2>5. PoolConsistent
    BY <2>1, <2>2, <2>3 DEF Init, PoolConsistent
  <2>6. WaitGroupExact
    BY <2>3 DEF Init, WaitGroupExact
  <2> QED
    BY <2>2, <2>4, <2>5, <2>6 DEF Init, PoolInv, WithinLimits, ReturnedMeansStopped
<1>2. PoolInv /\ [Next]_vars => PoolInv'
  BY PoolStep
<1> QED
  BY <1>1, <1>2, PTL DEF Spec

(* Type correctness of the pool in every reachable state. *)
THEOREM PoolTypeOK == Spec => []TypeOK
<1>1. PoolInv => TypeOK
  BY DEF PoolInv
<1> QED
  BY <1>1, PoolInvariant, PTL

(* The number of active workers stays between the configured limits from the
   first scaling on, although evaluateScaling decides on a count it read
   before it released the mutex, and although Start and the monitor race for
   the first scaling. *)
THEOREM PoolWithinLimits == Spec => []WithinLimits
<1>1. PoolInv => WithinLimits
  BY DEF PoolInv
<1> QED
  BY <1>1, PoolInvariant, PTL

(* activeWorkers and workerChannels agree, no stop channel is shared or used
   twice, and until shutdown every channel has a live goroutine behind it. *)
THEOREM PoolIsConsistent == Spec => []PoolConsistent
<1>1. PoolInv => PoolConsistent
  BY DEF PoolInv
<1> QED
  BY <1>1, PoolInvariant, PTL

(* The wait group counts the live goroutines and the monitor, also when a
   scale-up adds to it while Start is waiting. *)
THEOREM PoolWaitGroupExact == Spec => []WaitGroupExact
<1>1. PoolInv => WaitGroupExact
  BY DEF PoolInv
<1> QED
  BY <1>1, PoolInvariant, PTL

(* When Start returns no goroutine of the pool is alive, not even one that
   the monitor started while the context was being cancelled. *)
THEOREM PoolReturnedMeansStopped == Spec => []ReturnedMeansStopped
<1>1. PoolInv => ReturnedMeansStopped
  BY DEF PoolInv
<1> QED
  BY <1>1, PoolInvariant, PTL
=============================================================================
