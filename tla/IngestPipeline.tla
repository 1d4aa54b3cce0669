--------------------------- MODULE IngestPipeline ---------------------------
(***************************************************************************)
(* The path of an audit event from an SDK to the audits table:             *)
(*                                                                         *)
(*   SDK client  --POST-->  Writer  --RPUSH-->  Redis list  --BLPOP-->     *)
(*   worker goroutine  --INSERT-->  audits  -->  anomaly detector          *)
(*                                                                         *)
(* An event e is posted by the SDK up to SdkRetries + 1 times.  Attempt n  *)
(* is the submission <<e, n>>; the Writer gives every submission an id of  *)
(* its own unless the client supplied one.  What an event contains is      *)
(* abstracted to what the code branches on: its HTTP method, whether the   *)
(* rest of it passes the Writer's validation, whether it brings its own    *)
(* id, whether the table accepts it, and whether it is a system.alert.     *)
(***************************************************************************)
EXTENDS Naturals, Sequences, FiniteSets

CONSTANTS
    Events,      \* events handed to BatAuditClient.send
    Workers,     \* worker goroutines of the worker process
    SdkRetries,  \* length of RETRY_DELAYS_MS (3 in the code)
    MaxRetries,  \* WORKER_MAX_RETRIES (3 by default)
    Method,      \* the HTTP method of each event, or Missing
    Invalid,     \* events that fail binding or validation for another reason
    ClientId,    \* events that carry an id of the client's
    Unstorable,  \* events every INSERT refuses (column width, foreign key)
    Alerts,      \* events of type system.alert
    Faults,      \* classes of failure that may happen
    PushLimit,   \* bound: executions of one submission's RPUSH
    MaxCrashes,  \* bound: crashes of the worker process and of the Writer
    None         \* no submission

FaultClasses == {"net", "redis", "db", "crash"}

ASSUME PipelineAssumption ==
    /\ SdkRetries \in Nat
    /\ MaxRetries \in Nat \ {0}
    /\ PushLimit \in Nat \ {0}
    /\ MaxCrashes \in Nat
    /\ IsFiniteSet(Workers)
    /\ DOMAIN Method = Events
    /\ Invalid \subseteq Events
    /\ ClientId \subseteq Events
    /\ Unstorable \subseteq Events
    /\ Alerts \subseteq Events
    /\ Faults \subseteq FaultClasses
    /\ None \notin Events \X (0..SdkRetries)

Submissions == Events \X (0..SdkRetries)

(***************************************************************************)
(* The primary key of the row a submission would become: the client's id,  *)
(* the same for every attempt, or the fresh uuid of this attempt.          *)
(***************************************************************************)
RowId(s) == IF s[1] \in ClientId THEN <<s[1]>> ELSE s

(***************************************************************************)
(* HTTPMethod.UnmarshalJSON, which runs when the Writer binds the body and *)
(* again when a worker decodes the queue item.  A body without the field   *)
(* never calls it; the Writer's own encoding of such an event does contain *)
(* the field, with the empty string.                                       *)
(***************************************************************************)
Missing == "missing"

UnmarshalMethod(m) == m \in {"GET", "POST", "PUT", "DELETE"}

Encoded(m) == IF m = Missing THEN "" ELSE m

Admissible(e) ==
    /\ Method[e] = Missing \/ UnmarshalMethod(Method[e])
    /\ e \notin Invalid

Decodes(s) == UnmarshalMethod(Encoded(Method[s[1]]))

(***************************************************************************)
(* Where the request of a submission stands.  "timedout": the Writer gave  *)
(* up on Redis (or died) while the RPUSH was under way; Redis may still    *)
(* execute it.  "gone": the request never reached a handler, or the        *)
(* handler died before Redis was called.                                   *)
(***************************************************************************)
RequestStages == {"none", "sent", "admitted", "pushing", "accepted",
                  "refused", "timedout", "gone"}

Fates == {"stored", "popLost", "undecodable", "gaveUp", "crashed"}

VARIABLES
    sdk,       \* the SDK's promise for each event
    attempt,   \* the attempt number of _sendWithRetry
    apiKey,    \* TRUE while the API key is active
    request,   \* the stage of each submission's request
    pushes,    \* how often Redis executed the RPUSH of a submission
    queue,     \* the Redis list
    phase,     \* what each worker goroutine is doing
    hand,      \* the submission a worker took from the queue
    tries,     \* failed attempts of processWithRetry
    rows,      \* the submissions that are rows of audits
    analysed,  \* how often a submission was passed to ProcessEvent
    fate,      \* how the queue items of each submission ended
    crashes,   \* crashes so far
    dbFailures \* history: INSERTs that failed although the table would have
               \* accepted the row, counted up to MaxRetries

clientVars == <<sdk, attempt, apiKey>>
redisVars  == <<pushes, queue>>
workerVars == <<phase, hand, tries>>
dbVars     == <<rows, analysed, dbFailures>>
vars == <<clientVars, request, redisVars, workerVars, dbVars, fate, crashes>>

Init ==
    /\ sdk = [e \in Events |-> "idle"]
    /\ attempt = [e \in Events |-> 0]
    /\ apiKey = TRUE
    /\ request = [s \in Submissions |-> "none"]
    /\ pushes = [s \in Submissions |-> 0]
    /\ queue = <<>>
    /\ phase = [w \in Workers |-> "polling"]
    /\ hand = [w \in Workers |-> None]
    /\ tries = [w \in Workers |-> 0]
    /\ rows = {}
    /\ analysed = [s \in Submissions |-> 0]
    /\ fate = [s \in Submissions |-> [f \in Fates |-> 0]]
    /\ crashes = 0
    /\ dbFailures = 0

-----------------------------------------------------------------------------
(* The SDK client *)

Current(e) == <<e, attempt[e]>>

(* send: the first POST of the event *)
SdkSend(e) ==
    /\ sdk[e] = "idle"
    /\ sdk' = [sdk EXCEPT ![e] = "waiting"]
    /\ request' = [request EXCEPT ![Current(e)] = "sent"]
    /\ UNCHANGED <<attempt, apiKey, redisVars, workerVars, dbVars, fate, crashes>>

(* a failed attempt is retried after a delay until the delays are used up;
   the last failure is swallowed *)
AfterFailure(e) == IF attempt[e] < SdkRetries THEN "backoff" ELSE "done"

(* the fetch resolved: only the status decides *)
SdkResponse(e) ==
    /\ sdk[e] = "waiting"
    /\ request[Current(e)] \in {"accepted", "refused", "timedout"}
    /\ sdk' = [sdk EXCEPT ![e] = IF request[Current(e)] = "accepted"
                                 THEN "done" ELSE AfterFailure(e)]
    /\ UNCHANGED <<attempt, apiKey, request, redisVars, workerVars, dbVars, fate, crashes>>

(* the fetch rejected, whatever became of the request *)
SdkNetworkError(e) ==
    /\ sdk[e] = "waiting"
    /\ "net" \in Faults \/ request[Current(e)] \in {"gone", "timedout"}
    /\ sdk' = [sdk EXCEPT ![e] = AfterFailure(e)]
    /\ UNCHANGED <<attempt, apiKey, request, redisVars, workerVars, dbVars, fate, crashes>>

(* Mutant: the attempt number is not increased. *)
SdkRetryUncounted(e) ==
    /\ sdk[e] = "backoff"
    /\ sdk' = [sdk EXCEPT ![e] = "waiting"]
    /\ request' = [request EXCEPT ![Current(e)] = "sent"]
    /\ UNCHANGED <<attempt, apiKey, redisVars, workerVars, dbVars, fate, crashes>>

(* the delay is over: the next attempt *)
SdkRetry(e) ==
    /\ sdk[e] = "backoff"
    /\ sdk' = [sdk EXCEPT ![e] = "waiting"]
    /\ attempt' = [attempt EXCEPT ![e] = @ + 1]
    /\ request' = [request EXCEPT ![<<e, attempt[e] + 1>>] = "sent"]
    /\ UNCHANGED <<apiKey, redisVars, workerVars, dbVars, fate, crashes>>

-----------------------------------------------------------------------------
(* The Writer *)

SetStage(s, from, to) ==
    /\ request[s] = from
    /\ request' = [request EXCEPT ![s] = to]

(* the request is lost on the way *)
RequestLost(s) ==
    /\ "net" \in Faults
    /\ SetStage(s, "sent", "gone")
    /\ UNCHANGED <<clientVars, redisVars, workerVars, dbVars, fate, crashes>>

(* 401 from the API key middleware, also when its lookup of the key fails;
   400 from binding or validation *)
WriterRefuse(s) ==
    /\ ~apiKey \/ ~Admissible(s[1]) \/ "db" \in Faults
    /\ SetStage(s, "sent", "refused")
    /\ UNCHANGED <<clientVars, redisVars, workerVars, dbVars, fate, crashes>>

(* key, binding and validation passed; the defaults are filled in *)
WriterAdmit(s) ==
    /\ apiKey /\ Admissible(s[1])
    /\ SetStage(s, "sent", "admitted")
    /\ UNCHANGED <<clientVars, redisVars, workerVars, dbVars, fate, crashes>>

(* EnsureProject has returned (an error only leaves the project empty, which
   nothing on this path reads) and the RPUSH is under way *)
WriterEnqueue(s) ==
    /\ SetStage(s, "admitted", "pushing")
    /\ UNCHANGED <<clientVars, redisVars, workerVars, dbVars, fate, crashes>>

(* Redis executes the RPUSH: once for a healthy connection; again when the
   client library resends a command whose reply it did not get; and perhaps
   only after the Writer has given up on it, or has answered 202 for a later
   copy *)
RedisPush(s) ==
    /\ \/ request[s] = "pushing" /\ pushes[s] = 0
       \/ "redis" \in Faults /\ pushes[s] < PushLimit
          /\ request[s] \in {"pushing", "timedout", "accepted"}
    /\ pushes' = [pushes EXCEPT ![s] = @ + 1]
    /\ queue' = Append(queue, s)
    /\ UNCHANGED <<clientVars, request, workerVars, dbVars, fate, crashes>>

(* Mutant: 202 without waiting for Enqueue. *)
WriterAcceptEarly(s) ==
    /\ SetStage(s, "pushing", "accepted")
    /\ UNCHANGED <<clientVars, redisVars, workerVars, dbVars, fate, crashes>>

(* 202: Enqueue returned nil *)
WriterAccept(s) ==
    /\ pushes[s] > 0
    /\ SetStage(s, "pushing", "accepted")
    /\ UNCHANGED <<clientVars, redisVars, workerVars, dbVars, fate, crashes>>

(* 500 BAT-003: Enqueue failed or its five seconds passed *)
WriterTimeout(s) ==
    /\ "redis" \in Faults
    /\ SetStage(s, "pushing", "timedout")
    /\ UNCHANGED <<clientVars, redisVars, workerVars, dbVars, fate, crashes>>

(* the Writer process dies with its handlers *)
WriterCrash ==
    /\ "crash" \in Faults /\ crashes < MaxCrashes
    /\ crashes' = crashes + 1
    /\ request' = [s \in Submissions |->
                     CASE request[s] = "admitted" -> "gone"
                       [] request[s] = "pushing" -> "timedout"
                       [] OTHER -> request[s]]
    /\ UNCHANGED <<clientVars, redisVars, workerVars, dbVars, fate>>

(* an owner revokes the API key *)
RevokeApiKey ==
    /\ apiKey
    /\ apiKey' = FALSE
    /\ UNCHANGED <<sdk, attempt, request, redisVars, workerVars, dbVars, fate, crashes>>

-----------------------------------------------------------------------------
(* The worker goroutines *)

Ended(s, f) == fate' = [fate EXCEPT ![s][f] = @ + 1]

Release(w) ==
    /\ phase' = [phase EXCEPT ![w] = "polling"]
    /\ hand' = [hand EXCEPT ![w] = None]
    /\ tries' = [tries EXCEPT ![w] = 0]

(* Mutant: the item is read and left in the list. *)
DequeuePeek(w) ==
    /\ phase[w] = "polling" /\ queue # <<>>
    /\ phase' = [phase EXCEPT ![w] = "decoding"]
    /\ hand' = [hand EXCEPT ![w] = Head(queue)]
    /\ UNCHANGED <<clientVars, request, redisVars, tries, dbVars, fate, crashes>>

(* a tick of the ticker: BLPOP takes the oldest item and deletes it *)
Dequeue(w) ==
    /\ phase[w] = "polling" /\ queue # <<>>
    /\ queue' = Tail(queue)
    /\ phase' = [phase EXCEPT ![w] = "decoding"]
    /\ hand' = [hand EXCEPT ![w] = Head(queue)]
    /\ UNCHANGED <<clientVars, request, pushes, tries, dbVars, fate, crashes>>

(* the BLPOP was executed but its reply never arrived: the error is logged
   and the goroutine polls on *)
DequeueError(w) ==
    /\ "redis" \in Faults
    /\ phase[w] = "polling" /\ queue # <<>>
    /\ queue' = Tail(queue)
    /\ Ended(Head(queue), "popLost")
    /\ UNCHANGED <<clientVars, request, pushes, workerVars, dbVars, crashes>>

(* json.Unmarshal of the queue item failed: it is logged and dropped *)
DecodeFail(w) ==
    /\ phase[w] = "decoding" /\ ~Decodes(hand[w])
    /\ Ended(hand[w], "undecodable")
    /\ Release(w)
    /\ UNCHANGED <<clientVars, request, redisVars, dbVars, crashes>>

DecodeOk(w) ==
    /\ phase[w] = "decoding" /\ Decodes(hand[w])
    /\ phase' = [phase EXCEPT ![w] = "saving"]
    /\ UNCHANGED <<clientVars, request, redisVars, hand, tries, dbVars, fate, crashes>>

(* Mutant: no primary key. *)
InsertableTwice(s) == s[1] \notin Unstorable

(* what CreateAudit and the table's constraints let through *)
Insertable(s) ==
    /\ s[1] \notin Unstorable
    /\ \A r \in rows : RowId(r) # RowId(s)

InsertOk(w) ==
    /\ phase[w] = "saving" /\ Insertable(hand[w])
    /\ rows' = rows \union {hand[w]}
    /\ phase' = [phase EXCEPT ![w] = "saved"]
    /\ UNCHANGED <<clientVars, request, redisVars, hand, tries, analysed, dbFailures, fate, crashes>>

(* Mutant: the loop never ends. *)
CountFailureForever(w) == UNCHANGED <<workerVars, fate>>

(* Mutant: no second attempt. *)
CountFailureOnce(w) == Release(w) /\ Ended(hand[w], "gaveUp")

(* CreateAudit returned an error: two seconds of sleep and another attempt,
   or the event is given up after MaxRetries attempts *)
CountFailure(w) ==
    IF tries[w] + 1 < MaxRetries
    THEN /\ tries' = [tries EXCEPT ![w] = @ + 1]
         /\ UNCHANGED <<phase, hand, fate>>
    ELSE /\ Release(w)
         /\ Ended(hand[w], "gaveUp")

(* Mutant: a row that the table accepts may count as a failure. *)
InsertFailAlways(w) ==
    /\ phase[w] = "saving"
    /\ CountFailure(w)
    /\ UNCHANGED <<clientVars, request, redisVars, dbVars, crashes>>

(* one more failure the table is not to blame for *)
CountDbFailure(s) ==
    dbFailures' = IF Insertable(s) /\ dbFailures < MaxRetries
                  THEN dbFailures + 1 ELSE dbFailures

(* the INSERT changed nothing: the database failed, or refused the row *)
InsertFail(w) ==
    /\ phase[w] = "saving"
    /\ "db" \in Faults \/ ~Insertable(hand[w])
    /\ CountFailure(w)
    /\ CountDbFailure(hand[w])
    /\ UNCHANGED <<clientVars, request, redisVars, rows, analysed, crashes>>

(* the INSERT was committed but the connection broke before the answer *)
InsertUnconfirmed(w) ==
    /\ "db" \in Faults
    /\ phase[w] = "saving" /\ Insertable(hand[w])
    /\ rows' = rows \union {hand[w]}
    /\ CountFailure(w)
    /\ UNCHANGED <<clientVars, request, redisVars, analysed, dbFailures, crashes>>

(* the stored event goes to the anomaly detector, unless it is an alert *)
Finish(w) ==
    /\ phase[w] = "saved"
    /\ analysed' = IF hand[w][1] \in Alerts THEN analysed
                   ELSE [analysed EXCEPT ![hand[w]] = @ + 1]
    /\ Ended(hand[w], "stored")
    /\ Release(w)
    /\ UNCHANGED <<clientVars, request, redisVars, rows, dbFailures, crashes>>

Holders(s) == {w \in Workers : hand[w] = s}

(* the worker process dies: whatever its goroutines hold is lost; its
   supervisor starts it again *)
WorkerCrash ==
    /\ "crash" \in Faults /\ crashes < MaxCrashes
    /\ crashes' = crashes + 1
    /\ fate' = [s \in Submissions |->
                  [fate[s] EXCEPT !["crashed"] = @ + Cardinality(Holders(s))]]
    /\ phase' = [w \in Workers |-> "polling"]
    /\ hand' = [w \in Workers |-> None]
    /\ tries' = [w \in Workers |-> 0]
    /\ UNCHANGED <<clientVars, request, redisVars, dbVars>>

-----------------------------------------------------------------------------
SdkStep(e) == SdkSend(e) \/ SdkResponse(e) \/ SdkNetworkError(e) \/ SdkRetry(e)

WriterStep(s) ==
    \/ RequestLost(s) \/ WriterRefuse(s) \/ WriterAdmit(s) \/ WriterEnqueue(s)
    \/ RedisPush(s) \/ WriterAccept(s) \/ WriterTimeout(s)

WorkerStep(w) ==
    \/ Dequeue(w) \/ DequeueError(w) \/ DecodeFail(w) \/ DecodeOk(w)
    \/ InsertOk(w) \/ InsertFail(w) \/ InsertUnconfirmed(w) \/ Finish(w)

Next ==
    \/ \E e \in Events : SdkStep(e)
    \/ \E s \in Submissions : WriterStep(s)
    \/ \E w \in Workers : WorkerStep(w)
    \/ WriterCrash \/ WorkerCrash \/ RevokeApiKey

Spec == Init /\ [][Next]_vars

(***************************************************************************)
(* Fairness.  A promise of the SDK and its timers, a handler goroutine and *)
(* the ticker loop of a worker run on as long as their process lives, and  *)
(* every call they make has a timeout.  Nothing obliges an application to  *)
(* send, an owner to revoke a key, Redis to execute a push that the Writer *)
(* gave up on, or a failure to happen.                                     *)
(***************************************************************************)
HandlerStep(s) ==
    \/ WriterRefuse(s) \/ WriterAdmit(s) \/ WriterEnqueue(s)
    \/ request[s] = "pushing" /\ RedisPush(s)
    \/ WriterAccept(s) \/ WriterTimeout(s)

Fairness ==
    /\ \A e \in Events : WF_vars(SdkResponse(e) \/ SdkNetworkError(e) \/ SdkRetry(e))
    /\ \A s \in Submissions : WF_vars(HandlerStep(s))
    /\ \A w \in Workers : WF_vars(WorkerStep(w))

FairSpec == Spec /\ Fairness

-----------------------------------------------------------------------------
(* Correctness *)

(* The shape of the state: every queue item, and every item a worker holds,
   is a submission, a worker holds one exactly when it is not polling, and
   an SDK that waits for its next attempt has one left. *)
TypeOK ==
    /\ sdk \in [Events -> {"idle", "waiting", "backoff", "done"}]
    /\ attempt \in [Events -> 0..SdkRetries]
    /\ apiKey \in BOOLEAN
    /\ request \in [Submissions -> RequestStages]
    /\ pushes \in [Submissions -> 0..PushLimit]
    /\ queue \in Seq(Submissions)
    /\ phase \in [Workers -> {"polling", "decoding", "saving", "saved"}]
    /\ hand \in [Workers -> Submissions \union {None}]
    /\ tries \in [Workers -> 0..(MaxRetries - 1)]
    /\ rows \subseteq Submissions
    /\ analysed \in [Submissions -> Nat]
    /\ fate \in [Submissions -> [Fates -> Nat]]
    /\ crashes \in 0..MaxCrashes
    /\ dbFailures \in 0..MaxRetries
    /\ \A w \in Workers : phase[w] = "polling" <=> hand[w] = None
    /\ \A e \in Events : sdk[e] = "backoff" => attempt[e] < SdkRetries

(* What makes AnalysedOnce inductive: between the INSERT and ProcessEvent the
   submission is a row that no other worker is about to analyse, and the
   primary key keeps rows apart. *)
AnalysisInv ==
    /\ \A w \in Workers :
          phase[w] = "saved" => hand[w] \in rows /\ analysed[hand[w]] = 0
    /\ \A v, w \in Workers :
          phase[v] = "saved" /\ phase[w] = "saved" /\ hand[v] = hand[w] => v = w
    /\ \A s \in Submissions : analysed[s] \in {0, 1} /\ (analysed[s] = 1 => s \in rows)
    /\ \A r, s \in rows : RowId(r) = RowId(s) => r = s

Queued(s) == \E i \in 1..Len(queue) : queue[i] = s

Occurrences(s) == Cardinality({i \in 1..Len(queue) : queue[i] = s})

Settled(s) == fate[s]["stored"] + fate[s]["popLost"] + fate[s]["undecodable"]
              + fate[s]["gaveUp"] + fate[s]["crashed"]

(* Conservation: every execution of an RPUSH is one item in the list, in the
   hand of one worker, or settled once, under crashes of the worker, lost
   replies of BLPOP and repeated pushes.  No item is processed by two
   workers and none disappears without one of the five known ends. *)
EveryPushAccounted ==
    \A s \in Submissions :
        pushes[s] = Occurrences(s) + Cardinality(Holders(s)) + Settled(s)

(* The detector's counters see a stored event at most once, and nothing that
   is not stored: neither a repeated push, nor a retry of an INSERT that had
   been committed, nor a second attempt of the SDK under the same client id
   reaches ProcessEvent again. *)
AnalysedOnce ==
    \A s \in Submissions :
        /\ analysed[s] <= 1
        /\ analysed[s] = 1 => s \in rows
        /\ \A r \in Submissions :
              analysed[s] = 1 /\ analysed[r] = 1 /\ RowId(s) = RowId(r) => s = r

InFlight(s) == Queued(s) \/ Holders(s) # {}

(* What Redis took is lost only for a reason: once nothing of a submission is
   queued or in a worker's hand, its id is in the table, unless one of its
   items went with a lost BLPOP reply or a crash of the worker, a worker can
   not decode it, the table never takes it, or the database failed at least
   MaxRetries times on rows it would have taken.  A shorter outage of the
   database loses nothing, however its failures fall on the workers, the
   repeated pushes and the attempts of the SDK. *)
LossHasCause ==
    \A s \in Submissions :
        /\ pushes[s] > 0 /\ ~InFlight(s)
        /\ fate[s]["popLost"] = 0 /\ fate[s]["crashed"] = 0
        /\ Decodes(s) /\ s[1] \notin Unstorable /\ dbFailures < MaxRetries
        => \E r \in rows : RowId(r) = RowId(s)

(* What makes LossHasCause inductive: a worker's failed attempts at a row the
   table would take are failures of the database, and each end of an item
   says what it stands for. *)
EndsExplained(s) ==
    /\ fate[s]["stored"] > 0 => s \in rows
    /\ fate[s]["undecodable"] > 0 => ~Decodes(s)
    /\ fate[s]["gaveUp"] > 0 /\ Insertable(s) => dbFailures = MaxRetries

LossInv ==
    /\ \A w \in Workers :
          hand[w] # None /\ Insertable(hand[w]) => tries[w] <= dbFailures
    /\ \A s \in Submissions : EndsExplained(s)

(* Every send of the SDK ends: flush, which waits for these promises, always
   returns. *)
SendSettles == \A e \in Events : sdk[e] = "waiting" ~> sdk[e] = "done"

(* Every item leaves the queue and its worker, stored or dropped: no item is
   retried for ever and no goroutine stays with one. *)
QueueDrains == \A s \in Submissions : InFlight(s) ~> ~InFlight(s)

(* "Audit received and will be processed" (the body of the 202): an accepted
   submission becomes a row of audits. *)
AcceptedIsStored ==
    \A s \in Submissions : request[s] = "accepted" ~> s \in rows

-----------------------------------------------------------------------------
(* The pipeline implements the abstract trail *)

TrailStatus ==
    [s \in Submissions |->
        CASE s \in rows -> "stored"
          [] s \notin rows /\ InFlight(s) -> "pending"
          [] s \notin rows /\ ~InFlight(s) /\ pushes[s] > 0 -> "lost"
          [] OTHER -> "absent"]

Promised == {s \in Submissions : request[s] = "accepted"}

Trail == INSTANCE AuditTrail WITH
            RowKey <- RowId, status <- TrailStatus, promised <- Promised

(* The ingest path keeps the promises of AuditTrail: what is answered with
   202 has been received, what is stored stays stored under a key of its
   own, and what was lost comes back only as another copy of the push. *)
ImplementsTrail == Trail!Spec
=============================================================================
