------------------------------- MODULE Tiering -------------------------------
(***************************************************************************)
(* Data tiering (internal/tiering): the nightly job that folds raw events  *)
(* into hourly summaries and hourly summaries into daily ones, next to the *)
(* workers that keep inserting events, and the history query that merges   *)
(* the tiers.                                                              *)
(*                                                                         *)
(* Time is counted in ticks, a fixed number to the hour: a run starts a    *)
(* little after its hour, so its cutoffs fall inside an hour and a day.    *)
(* All statements group by project and service, so one project and one     *)
(* service stand for all of them.  A summary row is the set of the events  *)
(* its counters count.                                                     *)
(***************************************************************************)
EXTENDS Integers, FiniteSets, Functions

CONSTANTS
    Events,
    Stamp,        \* the timestamp of each event
    EventType,    \* the stored event_type of each event
    Unowned,      \* events without a project
    TicksPerHour,
    HoursPerDay,
    RawDays,      \* TIERING_RAW_DAYS
    HourlyDays,   \* TIERING_HOURLY_DAYS
    RunHour,      \* TIERING_HOUR
    MaxLateness,  \* ticks an event may be late when it is inserted
    MaxLag,       \* ticks the timer may be late
    Failures,     \* TRUE: statements may fail and the process may stop
    MaxTime       \* bound: the last tick

ASSUME TieringAssumption ==
    /\ Stamp \in [Events -> Nat]
    /\ DOMAIN EventType = Events
    /\ Unowned \subseteq Events
    /\ TicksPerHour \in Nat \ {0}
    /\ HoursPerDay \in Nat \ {0}
    /\ RawDays \in Nat \ {0}
    /\ HourlyDays \in Nat \ {0}
    /\ RunHour \in 1..(HoursPerDay - 1)
    /\ MaxLateness \in Nat
    /\ MaxLag \in Nat
    /\ Failures \in BOOLEAN
    /\ MaxTime \in Nat

Hour(t) == t \div TicksPerHour       \* date_trunc('hour', timestamp)
Day(h) == h \div HoursPerDay          \* date_trunc('day', period_start)
DayLength == HoursPerDay * TicksPerHour

(* nextRun: the first RunHour after the given time *)
NextRun(t) ==
    LET candidate == Day(Hour(t)) * DayLength + RunHour * TicksPerHour
    IN  IF candidate > t THEN candidate ELSE candidate + DayLength

VARIABLES
    now,           \* the clock
    arrived,       \* events that were inserted into audits
    raw,           \* events that are rows of audits
    hourly,        \* hour -> events counted in its summary row
    daily,         \* day -> events counted in its summary row
    job,           \* where Run is, or that the process is down
    rawCutoff,
    hourlyCutoff,
    next,          \* the time of the next run
    folded,        \* history: events that some hourly row has counted
    split,         \* history: hours that a raw cutoff fell inside
    clean,         \* history: the last run was complete and without errors
    failed         \* history: a statement has failed or the process has stopped

cutoffs == <<rawCutoff, hourlyCutoff, split>>
tables == <<raw, hourly, daily, folded>>
runs == <<clean, failed>>
vars == <<now, arrived, tables, job, cutoffs, next, runs>>

Init ==
    /\ now = 0
    /\ arrived = {} /\ raw = {} /\ folded = {} /\ split = {}
    /\ hourly = [h \in {} |-> {}]
    /\ daily = [d \in {} |-> {}]
    /\ job = "idle"
    /\ rawCutoff = 0 /\ hourlyCutoff = 0
    /\ next = NextRun(0)
    /\ clean = FALSE /\ failed = FALSE

-----------------------------------------------------------------------------
(* The worker goroutines insert an event, on time or late *)
Arrive(e) ==
    /\ e \notin arrived
    /\ Stamp[e] \in (now - MaxLateness)..now
    /\ arrived' = arrived \union {e}
    /\ raw' = raw \union {e}
    /\ UNCHANGED <<now, hourly, daily, folded, job, cutoffs, next, runs>>

(* The clock.  The timer of a waiting scheduler fires at its time or a little
   later, never earlier. *)
Tick ==
    /\ now < MaxTime
    /\ job = "idle" => now < next + MaxLag
    /\ now' = now + 1
    /\ UNCHANGED <<arrived, tables, job, cutoffs, next, runs>>

-----------------------------------------------------------------------------
(* Job.Run *)

(* hours that have begun, but not ended, at the given time *)
SplitHours(t) == IF t >= 0 /\ t % TicksPerHour # 0 THEN {Hour(t)} ELSE {}

StartRun ==
    /\ job = "idle" /\ now >= next
    /\ job' = "insertHourly"
    /\ rawCutoff' = now - RawDays * DayLength
    /\ split' = split \union SplitHours(rawCutoff')
    /\ clean' = TRUE
    /\ UNCHANGED <<now, arrived, tables, hourlyCutoff, next, failed>>

(* Mutant: the cutoff is an hour off. *)
EligibleLater(e) == /\ Stamp[e] < rawCutoff - TicksPerHour
                    /\ EventType[e] = "http"
                    /\ e \notin Unowned

(* the WHERE clause of both raw statements *)
Eligible(e) == /\ Stamp[e] < rawCutoff
               /\ EventType[e] = "http"
               /\ e \notin Unowned

(* INSERT ... SELECT ... GROUP BY ... ON CONFLICT DO NOTHING *)
NewHours == {Hour(Stamp[e]) : e \in {x \in raw : Eligible(x)}} \ DOMAIN hourly

HourGroup(h) == {e \in raw : Eligible(e) /\ Hour(Stamp[e]) = h}

InsertHourly ==
    /\ job = "insertHourly"
    /\ hourly' = [h \in DOMAIN hourly \union NewHours |->
                    IF h \in NewHours THEN HourGroup(h) ELSE hourly[h]]
    /\ folded' = folded \union {e \in raw : Eligible(e) /\ Hour(Stamp[e]) \in NewHours}
    /\ job' = "deleteRaw"
    /\ UNCHANGED <<now, arrived, raw, daily, cutoffs, next, runs>>

(* the second half of Run starts with a cutoff of its own *)
StartDaily ==
    /\ job' = "insertDaily"
    /\ hourlyCutoff' = now - HourlyDays * DayLength

(* Mutant: the DELETE computes a cutoff of its own. *)
DeleteRawByNow ==
    /\ job = "deleteRaw"
    /\ raw' = {e \in raw : ~(/\ Stamp[e] < now - RawDays * DayLength
                             /\ EventType[e] = "http" /\ e \notin Unowned)}
    /\ StartDaily
    /\ UNCHANGED <<now, arrived, hourly, daily, folded, rawCutoff, split, next, runs>>

DeleteRaw ==
    /\ job = "deleteRaw"
    /\ raw' = {e \in raw : ~Eligible(e)}
    /\ StartDaily
    /\ UNCHANGED <<now, arrived, hourly, daily, folded, rawCutoff, split, next, runs>>

(* a failed raw statement is logged; the daily half runs all the same *)
RawFails ==
    /\ Failures
    /\ job \in {"insertHourly", "deleteRaw"}
    /\ StartDaily
    /\ clean' = FALSE /\ failed' = TRUE
    /\ UNCHANGED <<now, arrived, tables, rawCutoff, split, next>>

OldHours == {h \in DOMAIN hourly : h * TicksPerHour < hourlyCutoff}

NewDays == {Day(h) : h \in OldHours} \ DOMAIN daily

DayGroup(d) == UNION {hourly[h] : h \in {x \in OldHours : Day(x) = d}}

InsertDaily ==
    /\ job = "insertDaily"
    /\ daily' = [d \in DOMAIN daily \union NewDays |->
                   IF d \in NewDays THEN DayGroup(d) ELSE daily[d]]
    /\ job' = "deleteHourly"
    /\ UNCHANGED <<now, arrived, raw, hourly, folded, cutoffs, next, runs>>

(* Start loops: it computes the next run *)
Schedule ==
    /\ job' = "idle"
    /\ next' = NextRun(now)

DeleteHourly ==
    /\ job = "deleteHourly"
    /\ hourly' = Restrict(hourly, DOMAIN hourly \ OldHours)
    /\ Schedule
    /\ UNCHANGED <<now, arrived, raw, daily, folded, cutoffs, runs>>

(* a failed daily statement is logged and ends the run *)
DailyFails ==
    /\ Failures
    /\ job \in {"insertDaily", "deleteHourly"}
    /\ Schedule
    /\ clean' = FALSE /\ failed' = TRUE
    /\ UNCHANGED <<now, arrived, tables, cutoffs>>

(* the process ends: a shutdown that Start or Run sees, or a crash anywhere *)
ProcessStops ==
    /\ Failures
    /\ job # "down"
    /\ job' = "down"
    /\ clean' = FALSE /\ failed' = TRUE
    /\ UNCHANGED <<now, arrived, tables, cutoffs, next>>

(* a new process waits for the next run; one that was missed is not made up for *)
Restart ==
    /\ job = "down"
    /\ Schedule
    /\ UNCHANGED <<now, arrived, tables, cutoffs, runs>>

Next ==
    \/ \E e \in Events : Arrive(e)
    \/ Tick
    \/ StartRun \/ InsertHourly \/ DeleteRaw \/ RawFails
    \/ InsertDaily \/ DeleteHourly \/ DailyFails
    \/ ProcessStops \/ Restart

Spec == Init /\ [][Next]_vars

-----------------------------------------------------------------------------
(* GetHistory over the whole range *)

(* Mutant: raw buckets are not de-duplicated. *)
SeenPeriodsNone == {}

(* period_start of the summary rows: a day starts with its first hour *)
SeenPeriods == DOMAIN hourly \union {d * HoursPerDay : d \in DOMAIN daily}

(* how many of the returned points count the event *)
HistoryCount(e) ==
      Cardinality({h \in DOMAIN hourly : e \in hourly[h]})
    + Cardinality({d \in DOMAIN daily : e \in daily[d]})
    + (IF e \in raw /\ EventType[e] = "http" /\ e \notin Unowned
          /\ Hour(Stamp[e]) \notin SeenPeriods
       THEN 1 ELSE 0)

-----------------------------------------------------------------------------
(* Correctness *)

(* The shape of the state: a summary row counts only events of its period
   that were folded. *)
TypeOK ==
    /\ now \in 0..MaxTime
    /\ arrived \subseteq Events /\ raw \subseteq arrived /\ folded \subseteq arrived
    /\ DOMAIN hourly \subseteq Nat /\ DOMAIN daily \subseteq Nat
    /\ \A h \in DOMAIN hourly : hourly[h] \subseteq {e \in folded : Hour(Stamp[e]) = h}
    /\ \A d \in DOMAIN daily : daily[d] \subseteq {e \in folded : Day(Hour(Stamp[e])) = d}
    /\ job \in {"down", "idle", "insertHourly", "deleteRaw", "insertDaily", "deleteHourly"}
    /\ rawCutoff \in Int /\ hourlyCutoff \in Int /\ next \in Nat
    /\ split \subseteq Nat /\ clean \in BOOLEAN /\ failed \in BOOLEAN

Owned(e) == EventType[e] = "http" /\ e \notin Unowned

(* "Delete the raw events that were just aggregated" (AggregateRawToHourly):
   as long as no event is later than the raw retention, an event leaves
   audits only after an hourly row has counted it, although the INSERT and
   the DELETE are two transactions, workers insert between them, either may
   fail, and the process may die after the first.  The exception is an hour
   that the cutoff of a run fell inside. *)
RawDeletedAfterFolded ==
    MaxLateness < RawDays * DayLength =>
        \A e \in arrived \ raw : e \in folded \/ Hour(Stamp[e]) \in split

(* What makes it inductive: an hour that has a summary and was not split has
   ended longer ago than any new event can be late and is completely counted,
   and between the two statements all that the DELETE will match is counted. *)
FoldInv ==
    MaxLateness < RawDays * DayLength =>
        /\ \A e \in arrived \ raw : e \in folded \/ Hour(Stamp[e]) \in split
        /\ job \in {"insertHourly", "deleteRaw"} =>
              /\ rawCutoff <= now - RawDays * DayLength
              /\ SplitHours(rawCutoff) \subseteq split
        /\ \A h \in DOMAIN hourly \ split :
              /\ (h + 1) * TicksPerHour <= now - RawDays * DayLength
              /\ \A e \in arrived : Hour(Stamp[e]) = h /\ Owned(e) => e \in folded
        /\ job = "deleteRaw" =>
              \A e \in raw : Eligible(e) => e \in folded \/ Hour(Stamp[e]) \in split

(* GetHistory counts no event in two points, whatever arrives late and however
   often a run is interrupted between the INSERT and the DELETE of the raw
   tier.  The exception are events of a day that has a daily row: while the
   roll-up is between its own two statements, and after a failure. *)
HistoryCountsOnce ==
    \A e \in Events :
        HistoryCount(e) > 1 => /\ Day(Hour(Stamp[e])) \in DOMAIN daily
                               /\ job = "deleteHourly" \/ failed

(* "Retained for TIERING_RAW_DAYS": as long as no event is later than the raw
   retention, after a complete run and until the next one every http event of a
   project that is still a row is younger than the cutoff of that run.  Alerts,
   the events of monitors and what is stored without a type are matched by no
   statement and stay. *)
RetentionHonoured ==
    MaxLateness < RawDays * DayLength =>
        (job = "idle" /\ clean => \A e \in raw : Owned(e) => Stamp[e] >= rawCutoff)

(* "Aggregates ... and deletes the source rows" (the Repository interface, of
   both steps): an event that is no longer a row of audits is counted by the
   summary of its hour or its day. *)
NothingLost ==
    \A e \in arrived : \/ e \in raw
                       \/ \E h \in DOMAIN hourly : e \in hourly[h]
                       \/ \E d \in DOMAIN daily : e \in daily[d]
=============================================================================
