---------------------------- MODULE TieringProofs ----------------------------
(***************************************************************************)
(* Theorems about Tiering, for every set of events, every retention, every *)
(* hour of the run and every timing: raw rows are counted before they are  *)
(* deleted, GetHistory counts no event twice, and the raw retention holds. *)
(***************************************************************************)
EXTENDS Tiering, FiniteSetTheorems, TLAPS

(* Multiplying by a positive number respects the order. *)
LEMMA TimesMonotone ==
    ASSUME NEW a \in Int, NEW b \in Int, NEW c \in Nat, a <= b
    PROVE  a * c <= b * c
OBVIOUS

(* Division by the length of an hour or a day, the only facts used of it. *)
LEMMA DivFacts ==
    ASSUME NEW t \in Nat, NEW n \in Nat \ {0}
    PROVE  /\ t \div n \in Nat
           /\ (t \div n) * n <= t
           /\ t < (t \div n) * n + n
           /\ t % n = t - (t \div n) * n
OBVIOUS

(* A moment lies in its hour. *)
LEMMA HourFacts ==
    ASSUME NEW t \in Nat
    PROVE  /\ Hour(t) \in Nat
           /\ Hour(t) * TicksPerHour <= t
           /\ t < Hour(t) * TicksPerHour + TicksPerHour
           /\ t % TicksPerHour = t - Hour(t) * TicksPerHour
BY DivFacts, TieringAssumption DEF Hour

(* The hour of a time is the one that contains it. *)
LEMMA SameHour ==
    ASSUME NEW t \in Nat, NEW h \in Nat,
           h * TicksPerHour <= t, t < h * TicksPerHour + TicksPerHour
    PROVE  Hour(t) = h
<1>0. /\ TicksPerHour \in Nat \ {0} /\ Hour(t) \in Nat
      /\ Hour(t) * TicksPerHour <= t
      /\ t < Hour(t) * TicksPerHour + TicksPerHour
  BY HourFacts, TieringAssumption
<1>1. CASE h < Hour(t)
  <2>1. (h + 1) * TicksPerHour <= Hour(t) * TicksPerHour
    BY <1>0, <1>1, TimesMonotone
  <2>2. (h + 1) * TicksPerHour = h * TicksPerHour + TicksPerHour
    BY <1>0
  <2>. QED  BY <1>0, <2>1, <2>2
<1>2. CASE Hour(t) < h
  <2>1. (Hour(t) + 1) * TicksPerHour <= h * TicksPerHour
    BY <1>0, <1>2, TimesMonotone
  <2>2. (Hour(t) + 1) * TicksPerHour = Hour(t) * TicksPerHour + TicksPerHour
    BY <1>0
  <2>. QED  BY <1>0, <2>1, <2>2
<1>. QED  BY <1>0, <1>1, <1>2

(* The cutoff of a raw aggregation either lies after the whole hour of an
   older event, or it splits that hour. *)
LEMMA CutoffAfterHour ==
    ASSUME NEW t \in Nat, NEW c \in Int, t < c, Hour(t) \notin SplitHours(c)
    PROVE  (Hour(t) + 1) * TicksPerHour <= c
<1>0. /\ TicksPerHour \in Nat \ {0} /\ Hour(t) \in Nat /\ c \in Nat
      /\ Hour(t) * TicksPerHour <= t
      /\ (Hour(t) + 1) * TicksPerHour = Hour(t) * TicksPerHour + TicksPerHour
  BY HourFacts, TieringAssumption
<1>1. SUFFICES ASSUME c < Hour(t) * TicksPerHour + TicksPerHour
               PROVE  FALSE
  BY <1>0
<1>2. Hour(c) = Hour(t)
  BY <1>0, <1>1, SameHour
<1>3. c % TicksPerHour = c - Hour(t) * TicksPerHour
  BY <1>0, <1>2, HourFacts
<1>4. c % TicksPerHour # 0
  BY <1>0, <1>3
<1>. QED  BY <1>0, <1>2, <1>4 DEF SplitHours

(* The next run is a time. *)
LEMMA NextRunType ==
    ASSUME NEW t \in Nat
    PROVE  NextRun(t) \in Nat
<1>1. Hour(t) \in Nat
  BY HourFacts
<1>2. Day(Hour(t)) \in Nat
  BY <1>1, DivFacts, TieringAssumption DEF Day
<1>3. RunHour \in Nat /\ TicksPerHour \in Nat /\ DayLength \in Nat
  BY TieringAssumption DEF DayLength
<1>. QED  BY <1>2, <1>3 DEF NextRun

-----------------------------------------------------------------------------
(* Type correctness: a summary row counts only folded events of its period. *)
THEOREM TieringTypeOK == Spec => []TypeOK
<1>0. /\ TicksPerHour \in Nat \ {0} /\ HoursPerDay \in Nat \ {0}
      /\ RawDays \in Nat /\ HourlyDays \in Nat /\ MaxTime \in Nat
      /\ DayLength \in Nat /\ Stamp \in [Events -> Nat]
  BY TieringAssumption DEF DayLength
<1>1. Init => TypeOK
  <2>. SUFFICES ASSUME Init PROVE TypeOK
    OBVIOUS
  <2>1. next \in Nat
    BY NextRunType DEF Init
  <2>2. DOMAIN hourly = {} /\ DOMAIN daily = {}
    BY DEF Init
  <2>3. now \in 0..MaxTime /\ rawCutoff \in Int /\ hourlyCutoff \in Int
    BY <1>0 DEF Init
  <2>. QED  BY <2>1, <2>2, <2>3 DEF Init, TypeOK
<1>2. TypeOK /\ [Next]_vars => TypeOK'
  <2>. SUFFICES ASSUME TypeOK, [Next]_vars PROVE TypeOK'
    OBVIOUS
  <2>. USE DEF TypeOK
  <2>0. /\ now \in Nat
        /\ \A e \in Events : Stamp[e] \in Nat /\ Hour(Stamp[e]) \in Nat
        /\ \A h \in Nat : Day(h) \in Nat
    BY <1>0, HourFacts, DivFacts DEF Day
  <2>1. ASSUME NEW e \in Events, Arrive(e) PROVE TypeOK'
    BY <2>1 DEF Arrive, cutoffs, runs
  <2>2. CASE Tick
    BY <2>2, <1>0 DEF Tick, tables, cutoffs, runs
  <2>3. CASE StartRun
    <3>1. rawCutoff' \in Int
      BY <2>3, <2>0, <1>0 DEF StartRun
    <3>2. SplitHours(rawCutoff') \subseteq Nat
      BY <3>1, HourFacts DEF SplitHours
    <3>. QED  BY <2>3, <3>1, <3>2 DEF StartRun, tables
  <2>4. CASE InsertHourly
    <3>1. NewHours \subseteq Nat
      BY <2>0 DEF NewHours
    <3>2. DOMAIN hourly' = DOMAIN hourly \union NewHours
      BY <2>4 DEF InsertHourly
    <3>3. folded' = folded \union {e \in raw : Eligible(e) /\ Hour(Stamp[e]) \in NewHours}
      BY <2>4 DEF InsertHourly
    <3>4. folded \subseteq folded' /\ folded' \subseteq arrived
      BY <3>3
    <3>5. ASSUME NEW h \in DOMAIN hourly'
          PROVE  hourly'[h] \subseteq {e \in folded' : Hour(Stamp[e]) = h}
      <4>1. CASE h \in NewHours
        BY <4>1, <3>2, <3>3, <2>4 DEF InsertHourly, HourGroup
      <4>2. CASE h \notin NewHours
        BY <4>2, <3>2, <3>4, <2>4 DEF InsertHourly
      <4>. QED  BY <4>1, <4>2
    <3>6. \A d \in DOMAIN daily : daily[d] \subseteq {e \in folded' : Day(Hour(Stamp[e])) = d}
      BY <3>4
    <3>. QED  BY <2>4, <3>1, <3>2, <3>4, <3>5, <3>6 DEF InsertHourly, cutoffs, runs
  <2>5. CASE DeleteRaw
    <3>1. hourlyCutoff' \in Int
      BY <2>5, <2>0, <1>0 DEF DeleteRaw, StartDaily
    <3>2. raw' \subseteq arrived
      BY <2>5 DEF DeleteRaw
    <3>. QED  BY <2>5, <3>1, <3>2 DEF DeleteRaw, StartDaily, runs
  <2>6. CASE RawFails
    <3>1. hourlyCutoff' \in Int
      BY <2>6, <2>0, <1>0 DEF RawFails, StartDaily
    <3>. QED  BY <2>6, <3>1 DEF RawFails, StartDaily, tables
  <2>7. CASE InsertDaily
    <3>1. DOMAIN daily' = DOMAIN daily \union NewDays /\ NewDays \subseteq Nat
      BY <2>7, <2>0 DEF InsertDaily, NewDays, OldHours
    <3>2. ASSUME NEW d \in DOMAIN daily'
          PROVE  daily'[d] \subseteq {e \in folded : Day(Hour(Stamp[e])) = d}
      <4>1. CASE d \in NewDays
        BY <4>1, <3>1, <2>7 DEF InsertDaily, DayGroup, OldHours
      <4>2. CASE d \notin NewDays
        BY <4>2, <3>1, <2>7 DEF InsertDaily
      <4>. QED  BY <4>1, <4>2
    <3>. QED  BY <2>7, <3>1, <3>2 DEF InsertDaily, cutoffs, runs
  <2>8. CASE DeleteHourly
    BY <2>8, <2>0, NextRunType DEF DeleteHourly, Schedule, Restrict, cutoffs, runs
  <2>9. CASE DailyFails
    BY <2>9, <2>0, NextRunType DEF DailyFails, Schedule, tables, cutoffs, runs
  <2>10. CASE ProcessStops
    BY <2>10 DEF ProcessStops, tables, cutoffs, runs
  <2>11. CASE Restart
    BY <2>11, <2>0, NextRunType DEF Restart, Schedule, tables, cutoffs, runs
  <2>12. CASE UNCHANGED vars
    BY <2>12 DEF vars, tables, cutoffs, runs
  <2>. QED  BY <2>1, <2>2, <2>3, <2>4, <2>5, <2>6, <2>7, <2>8, <2>9, <2>10, <2>11, <2>12 DEF Next
<1>. QED  BY <1>1, <1>2, PTL DEF Spec

-----------------------------------------------------------------------------
(* A step preserves FoldInv.  The two steps that matter are the INSERT, which
   counts every matching event whose hour has no row yet (CutoffAfterHour:
   the hour is over, or split), and the arrival of an event, which is too
   young to belong to a summarised hour or to match the DELETE. *)
LEMMA FoldStep ==
    ASSUME TypeOK, TypeOK', FoldInv, [Next]_vars
    PROVE  FoldInv'
<1>. SUFFICES ASSUME MaxLateness < RawDays * DayLength PROVE FoldInv'
  BY DEF FoldInv
<1>0. /\ TicksPerHour \in Nat \ {0} /\ MaxLateness \in Nat
      /\ RawDays * DayLength \in Nat /\ Stamp \in [Events -> Nat]
      /\ now \in Nat /\ rawCutoff \in Int
  BY TieringAssumption DEF DayLength, TypeOK
<1>1. \A e \in Events : Stamp[e] \in Nat /\ Hour(Stamp[e]) \in Nat
  BY <1>0, HourFacts
<1>2. /\ \A e \in arrived \ raw : e \in folded \/ Hour(Stamp[e]) \in split
      /\ job \in {"insertHourly", "deleteRaw"} =>
            /\ rawCutoff <= now - RawDays * DayLength
            /\ SplitHours(rawCutoff) \subseteq split
      /\ \A h \in DOMAIN hourly \ split :
            /\ (h + 1) * TicksPerHour <= now - RawDays * DayLength
            /\ \A e \in arrived : Hour(Stamp[e]) = h /\ Owned(e) => e \in folded
      /\ job = "deleteRaw" =>
            \A e \in raw : Eligible(e) => e \in folded \/ Hour(Stamp[e]) \in split
  BY DEF FoldInv
<1>3. ASSUME NEW e \in Events, Arrive(e) PROVE FoldInv'
  <2>1. /\ arrived' = arrived \union {e} /\ raw' = raw \union {e}
        /\ UNCHANGED <<now, hourly, daily, folded, job, rawCutoff, hourlyCutoff, split>>
        /\ Stamp[e] \in (now - MaxLateness)..now
    BY <1>3 DEF Arrive, cutoffs, runs
  <2>2. now - RawDays * DayLength < Stamp[e]
    BY <2>1, <1>0, <1>1
  <2>3. ASSUME NEW h \in DOMAIN hourly \ split PROVE Hour(Stamp[e]) # h
    <3>1. (h + 1) * TicksPerHour <= now - RawDays * DayLength /\ h \in Nat
      BY <1>2, <2>3 DEF TypeOK
    <3>2. Stamp[e] < Hour(Stamp[e]) * TicksPerHour + TicksPerHour
      BY <1>1, HourFacts
    <3>3. (h + 1) * TicksPerHour = h * TicksPerHour + TicksPerHour
      BY <1>0, <3>1
    <3>. QED  BY <1>0, <1>1, <2>2, <3>1, <3>2, <3>3
  <2>4. job = "deleteRaw" => ~Eligible(e)
    BY <1>0, <1>1, <1>2, <2>2 DEF Eligible
  <2>5. \A x \in arrived' \ raw' : x \in folded' \/ Hour(Stamp[x]) \in split'
    BY <1>2, <2>1
  <2>6. \A h \in DOMAIN hourly' \ split' :
           /\ (h + 1) * TicksPerHour <= now' - RawDays * DayLength
           /\ \A x \in arrived' : Hour(Stamp[x]) = h /\ Owned(x) => x \in folded'
    BY <1>2, <2>1, <2>3
  <2>7. job' = "deleteRaw" =>
           \A x \in raw' : Eligible(x)' => x \in folded' \/ Hour(Stamp[x]) \in split'
    BY <1>2, <2>1, <2>4 DEF Eligible
  <2>8. job' \in {"insertHourly", "deleteRaw"} =>
           /\ rawCutoff' <= now' - RawDays * DayLength
           /\ SplitHours(rawCutoff') \subseteq split'
    BY <1>2, <2>1
  <2>. QED  BY <2>5, <2>6, <2>7, <2>8 DEF FoldInv, Owned
<1>4. CASE Tick
  <2>1. /\ now' = now + 1
        /\ UNCHANGED <<arrived, raw, hourly, folded, job, rawCutoff, split>>
    BY <1>4 DEF Tick, tables, cutoffs, runs
  <2>2. \A x \in Int : x <= now - RawDays * DayLength => x <= now' - RawDays * DayLength
    BY <2>1, <1>0
  <2>3. \A h \in DOMAIN hourly : (h + 1) * TicksPerHour \in Int
    BY <1>0 DEF TypeOK
  <2>. QED  BY <1>0, <1>2, <2>1, <2>2, <2>3 DEF FoldInv, Eligible, Owned
<1>5. CASE StartRun
  <2>1. /\ rawCutoff' = now - RawDays * DayLength
        /\ split' = split \union SplitHours(rawCutoff')
        /\ job' = "insertHourly"
        /\ UNCHANGED <<now, arrived, raw, hourly, folded>>
    BY <1>5 DEF StartRun, tables
  <2>2. rawCutoff' <= now' - RawDays * DayLength
    BY <2>1, <1>0
  <2>. QED  BY <1>2, <2>1, <2>2 DEF FoldInv, Owned
<1>6. CASE InsertHourly
  <2>1. /\ job = "insertHourly" /\ job' = "deleteRaw"
        /\ UNCHANGED <<now, arrived, raw, rawCutoff, split>>
        /\ folded' = folded \union {e \in raw : Eligible(e) /\ Hour(Stamp[e]) \in NewHours}
        /\ DOMAIN hourly' = DOMAIN hourly \union NewHours
    BY <1>6 DEF InsertHourly, cutoffs, runs
  <2>2. rawCutoff <= now - RawDays * DayLength /\ SplitHours(rawCutoff) \subseteq split
    BY <1>2, <2>1
  <2>3. ASSUME NEW h \in NewHours \ split
        PROVE  (h + 1) * TicksPerHour <= rawCutoff
    <3>1. PICK e \in raw : Eligible(e) /\ h = Hour(Stamp[e])
      BY <2>3 DEF NewHours
    <3>2. Stamp[e] \in Nat /\ Stamp[e] < rawCutoff /\ h \notin SplitHours(rawCutoff)
      BY <1>1, <2>2, <2>3, <3>1 DEF TypeOK, Eligible
    <3>. QED  BY <1>0, <3>1, <3>2, CutoffAfterHour
  <2>4. ASSUME NEW h \in NewHours \ split, NEW e \in arrived, Hour(Stamp[e]) = h, Owned(e)
        PROVE  e \in folded'
    <3>1. CASE e \notin raw
      BY <3>1, <1>2, <2>1, <2>4
    <3>2. CASE e \in raw
      <4>1. Stamp[e] \in Nat /\ h \in Nat
        BY <1>1, <2>4 DEF TypeOK
      <4>2. Stamp[e] < h * TicksPerHour + TicksPerHour
        BY <4>1, <2>4, HourFacts
      <4>3. (h + 1) * TicksPerHour = h * TicksPerHour + TicksPerHour
        BY <4>1, <1>0
      <4>4. Stamp[e] < rawCutoff
        BY <1>0, <2>3, <4>1, <4>2, <4>3
      <4>. QED  BY <2>1, <2>4, <3>2, <4>4 DEF Eligible, Owned
    <3>. QED  BY <3>1, <3>2
  <2>5. \A h \in DOMAIN hourly' \ split' :
           /\ (h + 1) * TicksPerHour <= now' - RawDays * DayLength
           /\ \A x \in arrived' : Hour(Stamp[x]) = h /\ Owned(x) => x \in folded'
    <3>. SUFFICES ASSUME NEW h \in DOMAIN hourly' \ split'
                  PROVE  /\ (h + 1) * TicksPerHour <= now - RawDays * DayLength
                         /\ \A x \in arrived : Hour(Stamp[x]) = h /\ Owned(x) => x \in folded'
      BY <2>1
    <3>1. CASE h \in DOMAIN hourly
      BY <3>1, <1>2, <2>1
    <3>2. CASE h \in NewHours
      <4>1. h \in Nat /\ (h + 1) * TicksPerHour \in Int
        BY <1>0, <2>1 DEF TypeOK
      <4>2. (h + 1) * TicksPerHour <= now - RawDays * DayLength
        BY <1>0, <2>1, <2>2, <2>3, <3>2, <4>1
      <4>. QED  BY <2>1, <2>4, <3>2, <4>2
    <3>. QED  BY <2>1, <3>1, <3>2
  <2>6. \A x \in raw : Eligible(x) => x \in folded' \/ Hour(Stamp[x]) \in split
    <3>. SUFFICES ASSUME NEW x \in raw, Eligible(x), Hour(Stamp[x]) \notin split
                  PROVE  x \in folded'
      OBVIOUS
    <3>1. CASE Hour(Stamp[x]) \in NewHours
      BY <3>1, <2>1
    <3>2. CASE Hour(Stamp[x]) \notin NewHours
      <4>1. Hour(Stamp[x]) \in DOMAIN hourly
        BY <3>2 DEF NewHours
      <4>. QED  BY <4>1, <1>2, <2>1 DEF TypeOK, Eligible, Owned
    <3>. QED  BY <3>1, <3>2
  <2>. QED  BY <1>2, <2>1, <2>2, <2>5, <2>6 DEF FoldInv, Eligible, Owned
<1>7. CASE DeleteRaw
  <2>1. /\ job = "deleteRaw" /\ job' = "insertDaily"
        /\ raw' = {e \in raw : ~Eligible(e)}
        /\ UNCHANGED <<now, arrived, hourly, folded, split>>
    BY <1>7 DEF DeleteRaw, StartDaily
  <2>2. \A e \in arrived' \ raw' : e \in folded' \/ Hour(Stamp[e]) \in split'
    BY <1>2, <2>1
  <2>. QED  BY <1>2, <2>1, <2>2 DEF FoldInv, Owned
<1>8. CASE RawFails
  BY <1>8, <1>2 DEF RawFails, StartDaily, tables, FoldInv, Owned
<1>9. CASE InsertDaily
  BY <1>9, <1>2 DEF InsertDaily, cutoffs, runs, FoldInv, Owned
<1>10. CASE DeleteHourly
  <2>1. DOMAIN hourly' \subseteq DOMAIN hourly
    BY <1>10 DEF DeleteHourly, Restrict
  <2>. QED  BY <1>10, <1>2, <2>1 DEF DeleteHourly, Schedule, cutoffs, runs, FoldInv, Owned
<1>11. CASE DailyFails
  BY <1>11, <1>2 DEF DailyFails, Schedule, tables, cutoffs, runs, FoldInv, Owned
<1>12. CASE ProcessStops
  BY <1>12, <1>2 DEF ProcessStops, tables, cutoffs, runs, FoldInv, Owned
<1>13. CASE Restart
  BY <1>13, <1>2 DEF Restart, Schedule, tables, cutoffs, runs, FoldInv, Owned
<1>14. CASE UNCHANGED vars
  BY <1>14, <1>2 DEF vars, tables, cutoffs, runs, FoldInv, Eligible, Owned
<1>. QED
  BY <1>3, <1>4, <1>5, <1>6, <1>7, <1>8, <1>9, <1>10, <1>11, <1>12, <1>13, <1>14 DEF Next

(* An event leaves audits only after an hourly row has counted it, or when its
   hour was split by the cutoff of a run: for every interleaving of the two
   statements with the inserts of the workers, with failed statements and with
   crashes, as long as no event is later than the raw retention. *)
THEOREM TieringRawDeletedAfterFolded == Spec => []RawDeletedAfterFolded
<1>1. Init => FoldInv
  <2>. SUFFICES ASSUME Init PROVE FoldInv
    OBVIOUS
  <2>1. DOMAIN hourly = {}
    BY DEF Init
  <2>. QED  BY <2>1 DEF Init, FoldInv
<1>2. TypeOK /\ TypeOK' /\ FoldInv /\ [Next]_vars => FoldInv'
  BY FoldStep
<1>3. FoldInv => RawDeletedAfterFolded
  BY DEF FoldInv, RawDeletedAfterFolded
<1>. QED  BY <1>1, <1>2, <1>3, TieringTypeOK, PTL DEF Spec

-----------------------------------------------------------------------------
(* GetHistory counts no event twice *)

(* What makes HistoryCountsOnce inductive: until something fails, an event is
   in two tiers only between the INSERT and the DELETE that move it on. *)
TierInv ==
    ~failed =>
        /\ \A e \in raw \intersect folded : job = "deleteRaw" /\ Eligible(e)
        /\ \A d \in DOMAIN daily : raw \intersect daily[d] = {}
        /\ \A h \in DOMAIN hourly, d \in DOMAIN daily :
              hourly[h] \intersect daily[d] # {} => job = "deleteHourly" /\ h \in OldHours

(* A step of another part, or one that fails. *)
LEMMA TierFrame ==
    ASSUME TierInv, UNCHANGED <<raw, hourly, daily, folded>>, failed => failed',
           job \in {"deleteRaw", "deleteHourly"} /\ ~failed' => UNCHANGED <<job, rawCutoff, hourlyCutoff>>
    PROVE  TierInv'
BY DEF TierInv, Eligible, OldHours

(* Every step keeps TierInv. *)
LEMMA TierStep ==
    ASSUME TypeOK, TypeOK', TierInv, [Next]_vars
    PROVE  TierInv'
<1>1. ASSUME NEW e \in Events, Arrive(e) PROVE TierInv'
  <2>1. /\ e \notin arrived /\ raw' = raw \union {e}
        /\ UNCHANGED <<hourly, daily, folded, job, rawCutoff, hourlyCutoff, failed>>
    BY <1>1 DEF Arrive, cutoffs, runs
  <2>2. e \notin folded /\ \A d \in DOMAIN daily : e \notin daily[d]
    BY <2>1 DEF TypeOK
  <2>. QED  BY <2>1, <2>2 DEF TierInv, Eligible, OldHours
<1>2. CASE Tick \/ UNCHANGED vars
  BY <1>2, TierFrame DEF Tick, tables, cutoffs, runs, vars
<1>3. CASE StartRun
  BY <1>3, TierFrame DEF StartRun, tables
<1>4. CASE InsertHourly
  <2>1. /\ job = "insertHourly" /\ job' = "deleteRaw"
        /\ UNCHANGED <<raw, daily, rawCutoff, failed>>
        /\ folded' = folded \union {e \in raw : Eligible(e) /\ Hour(Stamp[e]) \in NewHours}
        /\ hourly' = [h \in DOMAIN hourly \union NewHours |->
                        IF h \in NewHours THEN HourGroup(h) ELSE hourly[h]]
    BY <1>4 DEF InsertHourly, cutoffs, runs
  <2>. SUFFICES ASSUME ~failed
                PROVE  /\ \A e \in raw' \intersect folded' : job' = "deleteRaw" /\ Eligible(e)'
                       /\ \A d \in DOMAIN daily' : raw' \intersect daily'[d] = {}
                       /\ \A h \in DOMAIN hourly', d \in DOMAIN daily' : hourly'[h] \intersect daily'[d] = {}
    BY <2>1 DEF TierInv
  <2>2. raw \intersect folded = {}
    BY <2>1 DEF TierInv
  <2>3. \A e \in raw' \intersect folded' : Eligible(e)'
    BY <2>1, <2>2 DEF Eligible
  <2>4. \A d \in DOMAIN daily' : raw' \intersect daily'[d] = {}
    BY <2>1 DEF TierInv
  <2>5. ASSUME NEW h \in DOMAIN hourly', NEW d \in DOMAIN daily'
        PROVE  hourly'[h] \intersect daily'[d] = {}
    <3>1. CASE h \in NewHours
      BY <2>1, <2>4, <3>1 DEF HourGroup
    <3>2. CASE h \notin NewHours
      BY <2>1, <3>2 DEF TierInv
    <3>. QED  BY <3>1, <3>2
  <2>. QED  BY <2>1, <2>3, <2>4, <2>5
<1>5. CASE DeleteRaw
  <2>1. /\ job = "deleteRaw" /\ raw' = {e \in raw : ~Eligible(e)}
        /\ UNCHANGED <<hourly, daily, folded, failed>>
    BY <1>5 DEF DeleteRaw, runs
  <2>2. ~failed => raw' \intersect folded' = {}
    BY <2>1 DEF TierInv
  <2>. QED  BY <2>1, <2>2 DEF TierInv
<1>6. CASE RawFails \/ DailyFails \/ ProcessStops
  BY <1>6 DEF RawFails, DailyFails, ProcessStops, TierInv
<1>7. CASE InsertDaily
  <2>1. /\ job = "insertDaily" /\ job' = "deleteHourly"
        /\ UNCHANGED <<raw, hourly, folded, hourlyCutoff, failed>>
        /\ daily' = [d \in DOMAIN daily \union NewDays |->
                       IF d \in NewDays THEN DayGroup(d) ELSE daily[d]]
    BY <1>7 DEF InsertDaily, cutoffs, runs
  <2>. SUFFICES ASSUME ~failed
                PROVE  /\ raw' \intersect folded' = {}
                       /\ \A d \in DOMAIN daily' : raw' \intersect daily'[d] = {}
                       /\ \A h \in DOMAIN hourly', d \in DOMAIN daily' :
                             hourly'[h] \intersect daily'[d] # {} => h \in OldHours'
    BY <2>1 DEF TierInv
  <2>2. raw' \intersect folded' = {}
    BY <2>1 DEF TierInv
  <2>3. ASSUME NEW d \in DOMAIN daily' PROVE raw' \intersect daily'[d] = {}
    <3>1. daily'[d] \subseteq folded'
      BY DEF TypeOK
    <3>. QED  BY <2>2, <3>1
  <2>4. ASSUME NEW h \in DOMAIN hourly', NEW d \in DOMAIN daily', hourly'[h] \intersect daily'[d] # {}
        PROVE  h \in OldHours'
    <3>1. PICK e \in hourly[h] : e \in daily'[d] /\ h \in DOMAIN hourly
      BY <2>1, <2>4
    <3>2. OldHours' = OldHours
      BY <2>1 DEF OldHours
    <3>3. CASE d \in NewDays
      <4>1. PICK x \in OldHours : e \in hourly[x]
        BY <2>1, <3>1, <3>3 DEF DayGroup
      <4>2. x = h
        BY <3>1, <4>1 DEF OldHours, TypeOK
      <4>. QED  BY <3>2, <4>1, <4>2
    <3>4. CASE d \notin NewDays
      BY <2>1, <3>1, <3>4 DEF TierInv
    <3>. QED  BY <3>3, <3>4
  <2>. QED  BY <2>2, <2>3, <2>4
<1>8. CASE DeleteHourly
  <2>1. /\ job = "deleteHourly" /\ UNCHANGED <<raw, daily, folded, failed>>
        /\ hourly' = Restrict(hourly, DOMAIN hourly \ OldHours)
    BY <1>8 DEF DeleteHourly, runs
  <2>2. /\ DOMAIN hourly' = DOMAIN hourly \ OldHours
        /\ \A h \in DOMAIN hourly' : hourly'[h] = hourly[h]
    BY <2>1 DEF Restrict
  <2>. QED  BY <2>1, <2>2 DEF TierInv
<1>9. CASE Restart
  BY <1>9, TierFrame DEF Restart, Schedule, tables, cutoffs, runs
<1>. QED
  BY <1>1, <1>2, <1>3, <1>4, <1>5, <1>6, <1>7, <1>8, <1>9 DEF Next

(* A set that can hold one thing only counts at most one. *)
LEMMA AtMostOne ==
    ASSUME NEW S, NEW x, S \subseteq {x}
    PROVE  Cardinality(S) \in 0..1 /\ (Cardinality(S) = 1 => x \in S)
<1>1. CASE S = {}
  BY <1>1, FS_EmptySet
<1>2. CASE S = {x}
  BY <1>2, FS_Singleton
<1>. QED  BY <1>1, <1>2

(* GetHistory shows an event in at most one point, however late it arrives and
   however the runs and the inserts interleave; it may show one twice only in a
   day with a daily row, while the roll-up is between its statements or after a
   failure. *)
THEOREM TieringHistoryCountsOnce == Spec => []HistoryCountsOnce
<1>1. Init => TierInv
  BY DEF Init, TierInv
<1>2. TypeOK /\ TypeOK' /\ TierInv /\ [Next]_vars => TierInv'
  BY TierStep
<1>3. TypeOK /\ TierInv => HistoryCountsOnce
  <2>. SUFFICES ASSUME TypeOK, TierInv, NEW e \in Events, HistoryCount(e) > 1
                PROVE  /\ Day(Hour(Stamp[e])) \in DOMAIN daily
                       /\ job = "deleteHourly" \/ failed
    BY DEF HistoryCountsOnce
  <2>. DEFINE hour == Hour(Stamp[e])
              hours == {h \in DOMAIN hourly : e \in hourly[h]}
              days == {d \in DOMAIN daily : e \in daily[d]}
              point == IF e \in raw /\ EventType[e] = "http" /\ e \notin Unowned
                          /\ hour \notin SeenPeriods THEN 1 ELSE 0
  <2>1. hours \subseteq {hour} /\ days \subseteq {Day(hour)}
    BY DEF TypeOK
  <2>2. /\ Cardinality(hours) \in 0..1 /\ (Cardinality(hours) = 1 => hour \in hours)
        /\ Cardinality(days) \in 0..1 /\ (Cardinality(days) = 1 => Day(hour) \in days)
    BY <2>1, AtMostOne
  <2>3. Cardinality(hours) + Cardinality(days) + point > 1
    BY DEF HistoryCount
  <2>4. hour \in hours => point = 0
    BY DEF SeenPeriods
  <2>5. point = 1 => e \in raw
    OBVIOUS
  <2>6. point \in 0..1
    OBVIOUS
  <2>. HIDE DEF hours, days, point
  <2>7. Day(hour) \in days /\ (hour \in hours \/ point = 1)
    BY <2>2, <2>3, <2>4, <2>6
  <2>. USE DEF hours, days
  <2>8. CASE hour \in hours
    BY <2>7, <2>8 DEF TierInv
  <2>9. CASE point = 1
    BY <2>5, <2>7, <2>9 DEF TierInv
  <2>. QED  BY <2>7, <2>8, <2>9
<1>. QED  BY <1>1, <1>2, <1>3, TieringTypeOK, PTL DEF Spec

-----------------------------------------------------------------------------
(* Retention *)

(* What makes RetentionHonoured inductive: no event is late enough to slip
   below the cutoff of a run once its DELETE is done. *)
RetainInv ==
    /\ job \in {"insertHourly", "deleteRaw"} \/ clean => rawCutoff <= now - RawDays * DayLength
    /\ clean /\ job \in {"insertDaily", "deleteHourly", "idle"} =>
          \A e \in raw : Owned(e) => Stamp[e] >= rawCutoff
    /\ job = "down" => ~clean

(* Every step keeps RetainInv when no event is later than the raw retention. *)
LEMMA RetainStep ==
    ASSUME MaxLateness < RawDays * DayLength, TypeOK, RetainInv, [Next]_vars
    PROVE  RetainInv'
<1>0. /\ now \in Int /\ RawDays * DayLength \in Int /\ MaxLateness \in Int /\ rawCutoff \in Int
      /\ \A e \in Events : Stamp[e] \in Int
  BY TieringAssumption DEF TypeOK, DayLength
<1>. HIDE DEF DayLength
<1>1. ASSUME NEW e \in Events, Arrive(e) PROVE RetainInv'
  <2>1. /\ raw' = raw \union {e} /\ UNCHANGED <<now, job, rawCutoff, clean>>
        /\ Stamp[e] >= now - MaxLateness
    BY <1>0, <1>1 DEF Arrive, cutoffs, runs
  <2>2. clean => Stamp[e] >= rawCutoff
    BY <1>0, <2>1 DEF RetainInv
  <2>. QED  BY <2>1, <2>2 DEF RetainInv, Owned
<1>2. CASE Tick
  <2>1. now' = now + 1 /\ UNCHANGED <<raw, job, rawCutoff, clean>>
    BY <1>2 DEF Tick, tables, cutoffs, runs
  <2>2. rawCutoff <= now - RawDays * DayLength => rawCutoff <= now' - RawDays * DayLength
    BY <1>0, <2>1
  <2>. QED  BY <2>1, <2>2 DEF RetainInv, Owned
<1>3. CASE StartRun
  <2>1. job' = "insertHourly" /\ rawCutoff' = now - RawDays * DayLength /\ now' = now
    BY <1>3 DEF StartRun
  <2>2. rawCutoff' <= now' - RawDays * DayLength
    BY <1>0, <2>1
  <2>. QED  BY <2>1, <2>2 DEF RetainInv
<1>4. CASE InsertHourly
  BY <1>4 DEF InsertHourly, cutoffs, runs, RetainInv
<1>5. CASE DeleteRaw
  <2>1. /\ job = "deleteRaw" /\ job' = "insertDaily" /\ raw' = {e \in raw : ~Eligible(e)}
        /\ UNCHANGED <<now, rawCutoff, clean>>
    BY <1>5 DEF DeleteRaw, StartDaily, runs
  <2>2. \A e \in raw' : Owned(e) => Stamp[e] >= rawCutoff
    BY <1>0, <2>1 DEF Eligible, Owned, TypeOK
  <2>. QED  BY <2>1, <2>2 DEF RetainInv, Owned
<1>6. CASE RawFails \/ DailyFails \/ ProcessStops
  BY <1>6 DEF RawFails, StartDaily, DailyFails, Schedule, ProcessStops, RetainInv
<1>7. CASE InsertDaily \/ DeleteHourly
  BY <1>7 DEF InsertDaily, DeleteHourly, Schedule, cutoffs, runs, RetainInv, Owned
<1>8. CASE Restart
  BY <1>8 DEF Restart, Schedule, cutoffs, runs, RetainInv
<1>9. CASE UNCHANGED vars
  BY <1>9 DEF vars, tables, cutoffs, runs, RetainInv, Owned
<1>. QED
  BY <1>1, <1>2, <1>3, <1>4, <1>5, <1>6, <1>7, <1>8, <1>9 DEF Next

(* The documented retention: if no event is later than the raw retention, then
   after a complete run and until the next one no request of a project is older
   than the cutoff of that run, whatever the workers insert meanwhile. *)
THEOREM TieringRetentionHonoured == Spec => []RetentionHonoured
<1>. DEFINE Inv == MaxLateness < RawDays * DayLength => RetainInv
<1>1. Init => Inv
  BY DEF Init, RetainInv
<1>2. TypeOK /\ Inv /\ [Next]_vars => Inv'
  BY RetainStep
<1>3. Inv => RetentionHonoured
  BY DEF RetainInv, RetentionHonoured
<1>. QED  BY <1>1, <1>2, <1>3, TieringTypeOK, PTL DEF Spec
=============================================================================
