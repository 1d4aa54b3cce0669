------------------------ MODULE IngestPipelineProofs ------------------------
(***************************************************************************)
(* Theorems about IngestPipeline, for every set of events and workers and  *)
(* every choice of the retry limits, the bounds and the fault classes.     *)
(***************************************************************************)
EXTENDS IngestPipeline, FiniteSetTheorems, TLAPS

(* The number of workers that hold a submission is a natural number. *)
LEMMA HoldersCount ==
    ASSUME NEW s
    PROVE  Cardinality(Holders(s)) \in Nat
<1>1. IsFiniteSet(Workers)
  BY PipelineAssumption
<1>2. Holders(s) \subseteq Workers
  BY DEF Holders
<1>3. IsFiniteSet(Holders(s))
  BY <1>1, <1>2, FS_Subset
<1> QED
  BY <1>3, FS_CardinalityType

(* Submissions are pairs of an event and an attempt, and None is not one. *)
LEMMA SubmissionFacts ==
    /\ None \notin Submissions
    /\ \A e \in Events, n \in 0..SdkRetries : <<e, n>> \in Submissions
    /\ \A s \in Submissions : s[1] \in Events
BY PipelineAssumption DEF Submissions

(* Every step of the pipeline preserves the type invariant. *)
LEMMA TypeStep ==
    ASSUME TypeOK, [Next]_vars
    PROVE  TypeOK'
<1> USE PipelineAssumption, SubmissionFacts
<1>1. ASSUME NEW e \in Events, SdkStep(e)
      PROVE  TypeOK'
  <2>0. Current(e) \in Submissions
    BY DEF TypeOK, Current
  <2>1. CASE SdkSend(e)
    BY <2>0, <2>1 DEF TypeOK, SdkSend, redisVars, workerVars, dbVars, RequestStages
  <2>2. CASE SdkResponse(e)
    BY <2>2 DEF TypeOK, SdkResponse, AfterFailure, redisVars, workerVars, dbVars
  <2>3. CASE SdkNetworkError(e)
    BY <2>3 DEF TypeOK, SdkNetworkError, AfterFailure, redisVars, workerVars, dbVars
  <2>4. CASE SdkRetry(e)
    BY <2>4 DEF TypeOK, SdkRetry, redisVars, workerVars, dbVars, RequestStages
  <2> QED
    BY <1>1, <2>1, <2>2, <2>3, <2>4 DEF SdkStep
<1>2. ASSUME NEW s \in Submissions, WriterStep(s)
      PROVE  TypeOK'
  <2>1. CASE RedisPush(s)
    BY <2>1 DEF TypeOK, RedisPush, clientVars, workerVars, dbVars
  <2>2. CASE RequestLost(s) \/ WriterRefuse(s) \/ WriterAdmit(s) \/ WriterEnqueue(s)
             \/ WriterAccept(s) \/ WriterTimeout(s)
    BY <2>2 DEF TypeOK, RequestLost, WriterRefuse, WriterAdmit, WriterEnqueue, WriterAccept,
                WriterTimeout, SetStage, RequestStages, clientVars, redisVars, workerVars, dbVars
  <2> QED
    BY <1>2, <2>1, <2>2 DEF WriterStep
<1>3. ASSUME NEW w \in Workers, WorkerStep(w)
      PROVE  TypeOK'
  <2>0. ASSUME phase[w] # "polling"
        PROVE  hand[w] \in Submissions
    BY <2>0 DEF TypeOK
  <2>a. ASSUME NEW s \in Submissions, NEW f \in Fates, Ended(s, f)
        PROVE  fate' \in [Submissions -> [Fates -> Nat]]
    BY <2>a DEF TypeOK, Ended
  <2>b. ASSUME Release(w)
        PROVE  /\ phase' \in [Workers -> {"polling", "decoding", "saving", "saved"}]
               /\ hand' \in [Workers -> Submissions \union {None}]
               /\ tries' \in [Workers -> 0..(MaxRetries - 1)]
               /\ \A v \in Workers : phase'[v] = "polling" <=> hand'[v] = None
    BY <2>b DEF TypeOK, Release
  <2>c. "stored" \in Fates /\ "popLost" \in Fates /\ "undecodable" \in Fates
        /\ "gaveUp" \in Fates
    BY DEF Fates
  <2>d. ASSUME CountFailure(w), phase[w] = "saving"
        PROVE  /\ phase' \in [Workers -> {"polling", "decoding", "saving", "saved"}]
               /\ hand' \in [Workers -> Submissions \union {None}]
               /\ tries' \in [Workers -> 0..(MaxRetries - 1)]
               /\ \A v \in Workers : phase'[v] = "polling" <=> hand'[v] = None
               /\ fate' \in [Submissions -> [Fates -> Nat]]
    <3>1. CASE tries[w] + 1 < MaxRetries
      <4>1. tries[w] \in Nat /\ MaxRetries \in Nat
        BY DEF TypeOK
      <4>2. tries[w] + 1 \in 0..(MaxRetries - 1)
        BY <3>1, <4>1
      <4>3. /\ tries' = [tries EXCEPT ![w] = tries[w] + 1]
            /\ UNCHANGED <<phase, hand, fate>>
        BY <2>d, <3>1 DEF CountFailure
      <4>4. tries' \in [Workers -> 0..(MaxRetries - 1)]
        BY <4>2, <4>3 DEF TypeOK
      <4> QED
        BY <4>3, <4>4 DEF TypeOK
    <3>2. CASE ~(tries[w] + 1 < MaxRetries)
      BY <2>0, <2>a, <2>b, <2>c, <2>d, <3>2 DEF CountFailure
    <3> QED
      BY <3>1, <3>2
  <2>1. CASE Dequeue(w)
    <3>1. Head(queue) \in Submissions /\ Tail(queue) \in Seq(Submissions)
      BY <2>1 DEF TypeOK, Dequeue
    <3> QED
      BY <2>1, <3>1 DEF TypeOK, Dequeue, clientVars, dbVars
  <2>2. CASE DequeueError(w)
    <3>1. Head(queue) \in Submissions /\ Tail(queue) \in Seq(Submissions)
      BY <2>2 DEF TypeOK, DequeueError
    <3>2. fate' \in [Submissions -> [Fates -> Nat]]
      BY <2>2, <2>a, <2>c, <3>1 DEF DequeueError
    <3> QED
      BY <2>2, <3>1, <3>2 DEF TypeOK, DequeueError, clientVars, workerVars, dbVars
  <2>3. CASE DecodeFail(w)
    <3>1. fate' \in [Submissions -> [Fates -> Nat]]
      BY <2>0, <2>3, <2>a, <2>c DEF DecodeFail
    <3> QED
      BY <2>3, <2>b, <3>1 DEF TypeOK, DecodeFail, clientVars, redisVars, dbVars
  <2>4. CASE DecodeOk(w)
    BY <2>4 DEF TypeOK, DecodeOk, clientVars, redisVars, dbVars
  <2>5. CASE InsertOk(w)
    BY <2>0, <2>5 DEF TypeOK, InsertOk, clientVars, redisVars
  <2>6. CASE InsertFail(w)
    <3>1. dbFailures' \in 0..MaxRetries
      BY <2>6 DEF TypeOK, InsertFail, CountDbFailure
    <3>2. CountFailure(w) /\ phase[w] = "saving"
      BY <2>6 DEF InsertFail
    <3> QED
      BY <2>6, <2>d, <3>1, <3>2 DEF TypeOK, InsertFail, clientVars, redisVars
  <2>7. CASE InsertUnconfirmed(w)
    BY <2>0, <2>7, <2>d DEF TypeOK, InsertUnconfirmed, clientVars, redisVars
  <2>8. CASE Finish(w)
    <3>1. fate' \in [Submissions -> [Fates -> Nat]]
      BY <2>0, <2>8, <2>a, <2>c DEF Finish
    <3>2. analysed' \in [Submissions -> Nat]
      BY <2>0, <2>8 DEF TypeOK, Finish
    <3> QED
      BY <2>8, <2>b, <3>1, <3>2 DEF TypeOK, Finish, clientVars, redisVars
  <2> QED
    BY <1>3, <2>1, <2>2, <2>3, <2>4, <2>5, <2>6, <2>7, <2>8 DEF WorkerStep
<1>4. CASE WriterCrash
  BY <1>4 DEF TypeOK, WriterCrash, RequestStages, clientVars, redisVars, workerVars, dbVars
<1>5. CASE WorkerCrash
  <2>0. fate \in [Submissions -> [Fates -> Nat]] /\ "crashed" \in Fates
    BY DEF TypeOK, Fates
  <2>1. ASSUME NEW s \in Submissions
        PROVE  [fate[s] EXCEPT !["crashed"] = @ + Cardinality(Holders(s))] \in [Fates -> Nat]
    <3>1. fate[s] \in [Fates -> Nat] /\ Cardinality(Holders(s)) \in Nat
      BY <2>0, HoldersCount
    <3>2. fate[s]["crashed"] + Cardinality(Holders(s)) \in Nat
      BY <2>0, <3>1
    <3> QED
      BY <2>0, <3>1, <3>2
  <2>2. fate' \in [Submissions -> [Fates -> Nat]]
    BY <1>5, <2>1 DEF WorkerCrash
  <2>3. /\ sdk' = sdk /\ attempt' = attempt /\ apiKey' = apiKey /\ request' = request
        /\ pushes' = pushes /\ queue' = queue /\ rows' = rows /\ analysed' = analysed
        /\ dbFailures' = dbFailures /\ crashes' = crashes + 1 /\ crashes < MaxCrashes
        /\ phase' = [w \in Workers |-> "polling"] /\ hand' = [w \in Workers |-> None]
        /\ tries' = [w \in Workers |-> 0]
    BY <1>5 DEF WorkerCrash, clientVars, redisVars, dbVars
  <2>4. crashes' \in 0..MaxCrashes /\ 0 \in 0..(MaxRetries - 1)
    BY <2>3 DEF TypeOK
  <2> QED
    BY <2>2, <2>3, <2>4 DEF TypeOK
<1>6. CASE RevokeApiKey
  BY <1>6 DEF TypeOK, RevokeApiKey, redisVars, workerVars, dbVars
<1>7. CASE UNCHANGED vars
  BY <1>7 DEF TypeOK, vars, clientVars, redisVars, workerVars, dbVars
<1> QED
  BY <1>1, <1>2, <1>3, <1>4, <1>5, <1>6, <1>7 DEF Next

(* Type correctness of the pipeline in every reachable state. *)
THEOREM PipelineTypeOK == Spec => []TypeOK
<1>1. Init => TypeOK
  BY PipelineAssumption, SubmissionFacts DEF Init, TypeOK, RequestStages, Fates
<1>2. TypeOK /\ [Next]_vars => TypeOK'
  BY TypeStep
<1> QED
  BY <1>1, <1>2, PTL DEF Spec

-----------------------------------------------------------------------------
(* A step that leaves the rows, the detector and the workers alone, or only
   moves workers into and between phases other than "saved", preserves the
   invariant. *)
LEMMA AnalysisFrame ==
    ASSUME TypeOK, AnalysisInv, rows' = rows, analysed' = analysed,
           \A w \in Workers : phase'[w] = "saved" =>
                                 phase[w] = "saved" /\ hand'[w] = hand[w]
    PROVE  AnalysisInv'
BY DEF AnalysisInv, RowId

(* Every step of the pipeline preserves the invariant behind AnalysedOnce. *)
LEMMA AnalysisStep ==
    ASSUME TypeOK, AnalysisInv, [Next]_vars
    PROVE  AnalysisInv'
<1> USE SubmissionFacts
<1>1. ASSUME NEW e \in Events, SdkStep(e)
      PROVE  AnalysisInv'
  BY <1>1, AnalysisFrame
     DEF SdkStep, SdkSend, SdkResponse, SdkNetworkError, SdkRetry, workerVars, dbVars
<1>2. ASSUME NEW s \in Submissions, WriterStep(s)
      PROVE  AnalysisInv'
  BY <1>2, AnalysisFrame
     DEF WriterStep, RequestLost, WriterRefuse, WriterAdmit, WriterEnqueue, RedisPush,
         WriterAccept, WriterTimeout, workerVars, dbVars
<1>3. ASSUME NEW w \in Workers, WorkerStep(w)
      PROVE  AnalysisInv'
  <2>0. ASSUME phase[w] # "polling"
        PROVE  hand[w] \in Submissions
    BY <2>0 DEF TypeOK
  <2>a. ASSUME phase[w] = "saving", Insertable(hand[w]), rows' = rows \union {hand[w]},
               analysed' = analysed,
               \A v \in Workers \ {w} : phase'[v] = phase[v] /\ hand'[v] = hand[v],
               phase'[w] = "saved" => hand'[w] = hand[w]
        PROVE  AnalysisInv'
    <3>1. hand[w] \notin rows /\ \A r \in rows : RowId(r) # RowId(hand[w])
      BY <2>a DEF Insertable
    <3>2. analysed[hand[w]] = 0
      BY <2>0, <2>a, <3>1 DEF AnalysisInv
    <3>3. \A v \in Workers : phase[v] = "saved" => hand[v] # hand[w]
      BY <3>1 DEF AnalysisInv
    <3>4. \A r, s \in rows' : RowId(r) = RowId(s) => r = s
      BY <2>a, <3>1 DEF AnalysisInv
    <3>5. \A v \in Workers :
             phase'[v] = "saved" => hand'[v] \in rows' /\ analysed'[hand'[v]] = 0
      BY <2>a, <3>2 DEF AnalysisInv
    <3>6. \A u, v \in Workers :
             phase'[u] = "saved" /\ phase'[v] = "saved" /\ hand'[u] = hand'[v] => u = v
      BY <2>a, <3>3 DEF AnalysisInv
    <3>7. \A s \in Submissions :
             analysed'[s] \in {0, 1} /\ (analysed'[s] = 1 => s \in rows')
      BY <2>a DEF AnalysisInv
    <3> QED
      BY <3>4, <3>5, <3>6, <3>7 DEF AnalysisInv, RowId
  <2>1. CASE Dequeue(w)
    BY <2>1, AnalysisFrame DEF Dequeue, dbVars, TypeOK
  <2>2. CASE DequeueError(w)
    BY <2>2, AnalysisFrame DEF DequeueError, workerVars, dbVars
  <2>3. CASE DecodeFail(w)
    BY <2>3, AnalysisFrame DEF DecodeFail, Release, dbVars, TypeOK
  <2>4. CASE DecodeOk(w)
    BY <2>4, AnalysisFrame DEF DecodeOk, dbVars, TypeOK
  <2>5. CASE InsertOk(w)
    BY <2>5, <2>a DEF InsertOk, TypeOK
  <2>6. CASE InsertFail(w)
    BY <2>6, AnalysisFrame DEF InsertFail, CountFailure, Release, dbVars, TypeOK
  <2>7. CASE InsertUnconfirmed(w)
    BY <2>7, <2>a DEF InsertUnconfirmed, CountFailure, Release, TypeOK
  <2>8. CASE Finish(w)
    <3>1. hand[w] \in Submissions /\ hand[w] \in rows /\ analysed[hand[w]] = 0
      BY <2>0, <2>8 DEF Finish, AnalysisInv
    <3>2. \A v \in Workers \ {w} : phase[v] = "saved" => hand[v] # hand[w]
      BY <2>8 DEF Finish, AnalysisInv
    <3>3. /\ phase'[w] = "polling" /\ rows' = rows
          /\ \A v \in Workers \ {w} : phase'[v] = phase[v] /\ hand'[v] = hand[v]
      BY <2>8 DEF Finish, Release, TypeOK
    <3>a. analysed' \in {analysed, [analysed EXCEPT ![hand[w]] = analysed[hand[w]] + 1]}
      BY <2>8 DEF Finish
    <3>b. analysed \in [Submissions -> Nat]
      BY DEF TypeOK
    <3>4. /\ \A s \in Submissions \ {hand[w]} : analysed'[s] = analysed[s]
          /\ analysed'[hand[w]] \in {0, 1}
      BY <3>1, <3>a, <3>b
    <3>5. \A v \in Workers :
             phase'[v] = "saved" => hand'[v] \in rows' /\ analysed'[hand'[v]] = 0
      <4> SUFFICES ASSUME NEW v \in Workers, phase'[v] = "saved"
                   PROVE  hand'[v] \in rows' /\ analysed'[hand'[v]] = 0
        OBVIOUS
      <4>1. v # w /\ phase[v] = "saved" /\ hand'[v] = hand[v]
        BY <3>3
      <4>2. hand[v] \in Submissions \ {hand[w]} /\ hand[v] \in rows /\ analysed[hand[v]] = 0
        BY <3>2, <4>1 DEF AnalysisInv, TypeOK
      <4> QED
        BY <3>3, <3>4, <4>1, <4>2
    <3>6. \A u, v \in Workers :
             phase'[u] = "saved" /\ phase'[v] = "saved" /\ hand'[u] = hand'[v] => u = v
      BY <3>3 DEF AnalysisInv
    <3>7. \A s \in Submissions :
             analysed'[s] \in {0, 1} /\ (analysed'[s] = 1 => s \in rows')
      BY <3>1, <3>3, <3>4 DEF AnalysisInv
    <3>8. \A r, s \in rows' : RowId(r) = RowId(s) => r = s
      BY <3>3 DEF AnalysisInv
    <3> QED
      BY <3>5, <3>6, <3>7, <3>8 DEF AnalysisInv, RowId
  <2> QED
    BY <1>3, <2>1, <2>2, <2>3, <2>4, <2>5, <2>6, <2>7, <2>8 DEF WorkerStep
<1>4. CASE WriterCrash
  BY <1>4, AnalysisFrame DEF WriterCrash, workerVars, dbVars
<1>5. CASE WorkerCrash
  BY <1>5, AnalysisFrame DEF WorkerCrash, dbVars
<1>6. CASE RevokeApiKey
  BY <1>6, AnalysisFrame DEF RevokeApiKey, workerVars, dbVars
<1>7. CASE UNCHANGED vars
  BY <1>7, AnalysisFrame DEF vars, workerVars, dbVars
<1> QED
  BY <1>1, <1>2, <1>3, <1>4, <1>5, <1>6, <1>7 DEF Next

(* The anomaly detector counts a stored event at most once and never an
   event that is not stored, whatever is pushed twice, committed without an
   answer, retried by the SDK or interrupted by a crash. *)
THEOREM PipelineAnalysedOnce == Spec => []AnalysedOnce
<1>1. Init => AnalysisInv
  BY DEF Init, AnalysisInv
<1>2. TypeOK /\ AnalysisInv /\ [Next]_vars => AnalysisInv'
  BY AnalysisStep
<1>3. AnalysisInv => AnalysedOnce
  BY DEF AnalysisInv, AnalysedOnce
<1> QED
  BY <1>1, <1>2, <1>3, PipelineTypeOK, PTL DEF Spec

-----------------------------------------------------------------------------
(* Conservation of queue items *)

(* The end of one queue item changes one count of one submission. *)
LEMMA EndedFacts ==
    ASSUME TypeOK, NEW s \in Submissions, NEW f \in Fates, Ended(s, f)
    PROVE  /\ fate'[s][f] = fate[s][f] + 1
           /\ \A g \in Fates \ {f} : fate'[s][g] = fate[s][g]
           /\ \A r \in Submissions \ {s} : fate'[r] = fate[r]
BY DEF TypeOK, Ended

(* The places of a sequence that hold a submission. *)
At(q, r) == {i \in 1..Len(q) : q[i] = r}

(* There are finitely many of them. *)
LEMMA AtFinite ==
    ASSUME NEW q \in Seq(Submissions), NEW r
    PROVE  IsFiniteSet(At(q, r)) /\ Cardinality(At(q, r)) \in Nat
<1>1. IsFiniteSet(1..Len(q))
  BY FS_Interval
<1>2. At(q, r) \subseteq 1..Len(q)
  BY DEF At
<1>3. IsFiniteSet(At(q, r))
  BY <1>1, <1>2, FS_Subset
<1> QED
  BY <1>3, FS_CardinalityType

(* RPUSH adds one occurrence of what it pushes. *)
LEMMA AppendCount ==
    ASSUME NEW q \in Seq(Submissions), NEW s \in Submissions, NEW r \in Submissions
    PROVE  Cardinality(At(Append(q, s), r)) = Cardinality(At(q, r)) + (IF r = s THEN 1 ELSE 0)
<1>1. /\ Len(q) \in Nat /\ Len(Append(q, s)) = Len(q) + 1
      /\ \A i \in 1..Len(q) : Append(q, s)[i] = q[i]
      /\ Append(q, s)[Len(q) + 1] = s
  OBVIOUS
<1>2. At(Append(q, s), r) = IF r = s THEN At(q, r) \union {Len(q) + 1} ELSE At(q, r)
  BY <1>1 DEF At
<1>3. Len(q) + 1 \notin At(q, r)
  BY <1>1 DEF At
<1>4. Cardinality(At(q, r) \union {Len(q) + 1}) = Cardinality(At(q, r)) + 1
  BY <1>3, AtFinite, FS_AddElement
<1> QED
  BY <1>2, <1>4, AtFinite

(* BLPOP removes one occurrence of the head and none of anything else. *)
LEMMA TailCount ==
    ASSUME NEW q \in Seq(Submissions), q # <<>>, NEW r \in Submissions
    PROVE  Cardinality(At(q, r)) = Cardinality(At(Tail(q), r)) + (IF r = Head(q) THEN 1 ELSE 0)
<1>1. /\ Len(q) \in Nat \ {0} /\ Tail(q) \in Seq(Submissions) /\ Len(Tail(q)) = Len(q) - 1
      /\ \A i \in 1..(Len(q) - 1) : Tail(q)[i] = q[i + 1]
      /\ Head(q) = q[1]
  OBVIOUS
<1>. DEFINE shift == [i \in At(Tail(q), r) |-> i + 1]
            rest == At(q, r) \ {1}
<1>2. shift \in [At(Tail(q), r) -> rest]
  BY <1>1 DEF At
<1>3. \A i, j \in At(Tail(q), r) : shift[i] = shift[j] => i = j
  BY <1>1 DEF At
<1>4. \A j \in rest : \E i \in At(Tail(q), r) : shift[i] = j
  <2> SUFFICES ASSUME NEW j \in rest
               PROVE  \E i \in At(Tail(q), r) : shift[i] = j
    OBVIOUS
  <2>1. j \in 2..Len(q) /\ q[j] = r
    BY <1>1 DEF At
  <2>2. j - 1 \in 1..(Len(q) - 1) /\ (j - 1) + 1 = j
    BY <1>1, <2>1
  <2>3. j - 1 \in At(Tail(q), r)
    BY <1>1, <2>1, <2>2 DEF At
  <2> QED
    BY <2>2, <2>3
<1>5. shift \in Bijection(At(Tail(q), r), rest)
  BY <1>2, <1>3, <1>4 DEF Bijection, Injection, Surjection, IsInjective
<1>6. Cardinality(rest) = Cardinality(At(Tail(q), r))
  <2>1. IsFiniteSet(At(Tail(q), r))
    BY <1>1, AtFinite
  <2>2. ExistsBijection(At(Tail(q), r), rest)
    BY <1>5 DEF ExistsBijection
  <2> HIDE DEF rest
  <2> QED
    BY <2>1, <2>2, FS_Bijection
<1>7. Cardinality(rest) = IF 1 \in At(q, r) THEN Cardinality(At(q, r)) - 1 ELSE Cardinality(At(q, r))
  BY AtFinite, FS_RemoveElement
<1>8. 1 \in At(q, r) <=> r = Head(q)
  BY <1>1 DEF At
<1> QED
  BY <1>1, <1>6, <1>7, <1>8, AtFinite

(* A worker that was polling and takes a submission becomes one more of its
   holders; one that lets go of its submission is no longer one. *)
LEMMA HoldersTake ==
    ASSUME TypeOK, NEW w \in Workers, NEW s \in Submissions, hand[w] = None,
           hand' = [hand EXCEPT ![w] = s], NEW r \in Submissions
    PROVE  Cardinality(Holders(r)') = Cardinality(Holders(r)) + (IF r = s THEN 1 ELSE 0)
<1>1. w \notin Holders(r)
  BY SubmissionFacts DEF Holders
<1>2. Holders(r)' = IF r = s THEN Holders(r) \union {w} ELSE Holders(r)
  BY SubmissionFacts DEF Holders, TypeOK
<1>3. IsFiniteSet(Holders(r))
  BY PipelineAssumption, FS_Subset DEF Holders
<1>4. Cardinality(Holders(r) \union {w}) = Cardinality(Holders(r)) + 1
  BY <1>1, <1>3, FS_AddElement
<1> QED
  BY <1>2, <1>4, HoldersCount

(* A worker that lets go of its item holds it no longer, and nothing else changes. *)
LEMMA HoldersRelease ==
    ASSUME TypeOK, NEW w \in Workers, hand[w] \in Submissions,
           hand' = [hand EXCEPT ![w] = None], NEW r \in Submissions
    PROVE  Cardinality(Holders(r)) = Cardinality(Holders(r)') + (IF r = hand[w] THEN 1 ELSE 0)
<1>1. w \in Holders(r) <=> r = hand[w]
  BY DEF Holders
<1>2. Holders(r)' = Holders(r) \ {w}
  BY SubmissionFacts DEF Holders, TypeOK
<1>3. IsFiniteSet(Holders(r))
  BY PipelineAssumption, FS_Subset DEF Holders
<1>4. Cardinality(Holders(r)') = IF w \in Holders(r) THEN Cardinality(Holders(r)) - 1
                                 ELSE Cardinality(Holders(r))
  BY <1>2, <1>3, FS_RemoveElement
<1> QED
  BY <1>1, <1>4, HoldersCount

(* The end of one queue item is one more that is settled. *)
LEMMA SettledCount ==
    ASSUME TypeOK, NEW s \in Submissions, NEW f \in Fates, Ended(s, f), NEW r \in Submissions
    PROVE  Settled(r)' = Settled(r) + (IF r = s THEN 1 ELSE 0)
<1>1. \A g \in Fates : fate[r][g] \in Nat
  BY DEF TypeOK
<1>2. /\ fate'[s][f] = fate[s][f] + 1
      /\ \A g \in Fates \ {f} : fate'[s][g] = fate[s][g]
      /\ \A q \in Submissions \ {s} : fate'[q] = fate[q]
  BY EndedFacts
<1>3. CASE r = s
  <2>1. /\ fate'[s]["stored"] = fate[s]["stored"] + (IF f = "stored" THEN 1 ELSE 0)
        /\ fate'[s]["popLost"] = fate[s]["popLost"] + (IF f = "popLost" THEN 1 ELSE 0)
        /\ fate'[s]["undecodable"] = fate[s]["undecodable"] + (IF f = "undecodable" THEN 1 ELSE 0)
        /\ fate'[s]["gaveUp"] = fate[s]["gaveUp"] + (IF f = "gaveUp" THEN 1 ELSE 0)
        /\ fate'[s]["crashed"] = fate[s]["crashed"] + (IF f = "crashed" THEN 1 ELSE 0)
    BY <1>1, <1>2, <1>3 DEF Fates
  <2>2. f \in {"stored", "popLost", "undecodable", "gaveUp", "crashed"}
    BY DEF Fates
  <2>3. /\ fate[s]["stored"] \in Nat /\ fate[s]["popLost"] \in Nat
        /\ fate[s]["undecodable"] \in Nat /\ fate[s]["gaveUp"] \in Nat
        /\ fate[s]["crashed"] \in Nat
    BY <1>1, <1>3 DEF Fates
  <2> QED
    BY <1>3, <2>1, <2>2, <2>3 DEF Settled
<1>4. CASE r # s
  BY <1>1, <1>2, <1>4 DEF Settled, Fates
<1> QED
  BY <1>3, <1>4

(* The numbers that conservation adds up. *)
LEMMA CountTypes ==
    ASSUME TypeOK, NEW r \in Submissions
    PROVE  /\ Occurrences(r) = Cardinality(At(queue, r))
           /\ Occurrences(r) \in Nat /\ Cardinality(Holders(r)) \in Nat
           /\ Settled(r) \in Nat /\ pushes[r] \in Nat
<1>1. Occurrences(r) = Cardinality(At(queue, r))
  BY DEF Occurrences, At
<1>2. queue \in Seq(Submissions) /\ pushes[r] \in Nat
  BY PipelineAssumption DEF TypeOK
<1>3. \A f \in Fates : fate[r][f] \in Nat
  BY DEF TypeOK
<1>4. Settled(r) \in Nat
  BY <1>3 DEF Settled, Fates
<1> QED
  BY <1>1, <1>2, <1>4, AtFinite, HoldersCount

(* A step that touches neither the list, nor the hands, nor the ends. *)
LEMMA AccountFrame ==
    ASSUME EveryPushAccounted, UNCHANGED <<pushes, queue, hand, fate>>
    PROVE  EveryPushAccounted'
BY DEF EveryPushAccounted, Occurrences, Holders, Settled

(* A worker lets go of its item, which thereby ends. *)
LEMMA AccountRelease ==
    ASSUME TypeOK, TypeOK', EveryPushAccounted, NEW w \in Workers, hand[w] \in Submissions,
           NEW f \in Fates, Ended(hand[w], f), hand' = [hand EXCEPT ![w] = None],
           UNCHANGED <<pushes, queue>>
    PROVE  EveryPushAccounted'
<1> SUFFICES ASSUME NEW r \in Submissions
             PROVE  pushes'[r] = Occurrences(r)' + Cardinality(Holders(r)') + Settled(r)'
  BY DEF EveryPushAccounted
<1>1. pushes[r] = Occurrences(r) + Cardinality(Holders(r)) + Settled(r)
  BY DEF EveryPushAccounted
<1>2. Occurrences(r)' = Occurrences(r)
  BY DEF Occurrences
<1>3. Cardinality(Holders(r)) = Cardinality(Holders(r)') + (IF r = hand[w] THEN 1 ELSE 0)
  BY HoldersRelease
<1>4. Settled(r)' = Settled(r) + (IF r = hand[w] THEN 1 ELSE 0)
  BY SettledCount
<1>5. Cardinality(Holders(r)') \in Nat
  <2>1. IsFiniteSet(Workers) /\ Holders(r)' \subseteq Workers
    BY PipelineAssumption DEF Holders
  <2> QED
    BY <2>1, FS_Subset, FS_CardinalityType
<1> QED
  BY <1>1, <1>2, <1>3, <1>4, <1>5, CountTypes

(* Every step of the pipeline keeps the account. *)
LEMMA AccountStep ==
    ASSUME TypeOK, TypeOK', EveryPushAccounted, [Next]_vars
    PROVE  EveryPushAccounted'
<1>0. /\ "stored" \in Fates /\ "popLost" \in Fates /\ "undecodable" \in Fates
      /\ "gaveUp" \in Fates /\ "crashed" \in Fates
  BY DEF Fates
<1>1. ASSUME NEW e \in Events, SdkStep(e)
      PROVE  EveryPushAccounted'
  BY <1>1, AccountFrame
     DEF SdkStep, SdkSend, SdkResponse, SdkNetworkError, SdkRetry, redisVars, workerVars
<1>2. ASSUME NEW s \in Submissions, WriterStep(s)
      PROVE  EveryPushAccounted'
  <2>1. CASE RedisPush(s)
    <3> SUFFICES ASSUME NEW r \in Submissions
                 PROVE  pushes'[r] = Occurrences(r)' + Cardinality(Holders(r)') + Settled(r)'
      BY DEF EveryPushAccounted
    <3>1. pushes[r] = Occurrences(r) + Cardinality(Holders(r)) + Settled(r)
      BY DEF EveryPushAccounted
    <3>2. pushes'[r] = pushes[r] + (IF r = s THEN 1 ELSE 0)
      <4>1. pushes \in [Submissions -> Nat]
        BY PipelineAssumption DEF TypeOK
      <4> QED
        BY <2>1, <4>1 DEF RedisPush
    <3>3. Occurrences(r)' = Cardinality(At(Append(queue, s), r))
      BY <2>1 DEF RedisPush, Occurrences, At
    <3>4. Occurrences(r)' = Occurrences(r) + (IF r = s THEN 1 ELSE 0)
      <4>1. queue \in Seq(Submissions)
        BY DEF TypeOK
      <4>2. Cardinality(At(Append(queue, s), r)) = Cardinality(At(queue, r)) + (IF r = s THEN 1 ELSE 0)
        BY <4>1, AppendCount
      <4> QED
        BY <3>3, <4>2, CountTypes
    <3>5. Holders(r)' = Holders(r) /\ Settled(r)' = Settled(r)
      BY <2>1 DEF RedisPush, Holders, Settled, workerVars
    <3> QED
      BY <3>1, <3>2, <3>4, <3>5, CountTypes
  <2>2. CASE RequestLost(s) \/ WriterRefuse(s) \/ WriterAdmit(s) \/ WriterEnqueue(s)
             \/ WriterAccept(s) \/ WriterTimeout(s)
    BY <2>2, AccountFrame DEF RequestLost, WriterRefuse, WriterAdmit, WriterEnqueue,
          WriterAccept, WriterTimeout, redisVars, workerVars
  <2> QED
    BY <1>2, <2>1, <2>2 DEF WriterStep
<1>3. ASSUME NEW w \in Workers, WorkerStep(w)
      PROVE  EveryPushAccounted'
  <2>0. ASSUME phase[w] # "polling"
        PROVE  hand[w] \in Submissions
    BY <2>0 DEF TypeOK
  <2>1. CASE Dequeue(w)
    <3>1. /\ queue \in Seq(Submissions) /\ queue # <<>> /\ Head(queue) \in Submissions
          /\ Tail(queue) \in Seq(Submissions) /\ hand[w] = None
      BY <2>1 DEF Dequeue, TypeOK
    <3> SUFFICES ASSUME NEW r \in Submissions
                 PROVE  pushes'[r] = Occurrences(r)' + Cardinality(Holders(r)') + Settled(r)'
      BY DEF EveryPushAccounted
    <3>2. pushes[r] = Occurrences(r) + Cardinality(Holders(r)) + Settled(r)
      BY DEF EveryPushAccounted
    <3>3. Occurrences(r)' = Cardinality(At(Tail(queue), r))
      BY <2>1 DEF Dequeue, Occurrences, At
    <3>4. Occurrences(r) = Occurrences(r)' + (IF r = Head(queue) THEN 1 ELSE 0)
      <4>1. Cardinality(At(queue, r)) = Cardinality(At(Tail(queue), r))
                                         + (IF r = Head(queue) THEN 1 ELSE 0)
        BY <3>1, TailCount
      <4> QED
        BY <3>3, <4>1, CountTypes
    <3>5. Cardinality(Holders(r)') = Cardinality(Holders(r)) + (IF r = Head(queue) THEN 1 ELSE 0)
      BY <2>1, <3>1, HoldersTake DEF Dequeue
    <3>6. Settled(r)' = Settled(r) /\ pushes'[r] = pushes[r]
      BY <2>1 DEF Dequeue, Settled
    <3>7. Occurrences(r)' \in Nat
      BY <3>1, <3>3, AtFinite
    <3> QED
      BY <3>2, <3>4, <3>5, <3>6, <3>7, CountTypes
  <2>2. CASE DequeueError(w)
    <3>1. /\ queue \in Seq(Submissions) /\ queue # <<>> /\ Head(queue) \in Submissions
          /\ Tail(queue) \in Seq(Submissions)
      BY <2>2 DEF DequeueError, TypeOK
    <3> SUFFICES ASSUME NEW r \in Submissions
                 PROVE  pushes'[r] = Occurrences(r)' + Cardinality(Holders(r)') + Settled(r)'
      BY DEF EveryPushAccounted
    <3>2. pushes[r] = Occurrences(r) + Cardinality(Holders(r)) + Settled(r)
      BY DEF EveryPushAccounted
    <3>3. Occurrences(r)' = Cardinality(At(Tail(queue), r))
      BY <2>2 DEF DequeueError, Occurrences, At
    <3>4. Occurrences(r) = Occurrences(r)' + (IF r = Head(queue) THEN 1 ELSE 0)
      <4>1. Cardinality(At(queue, r)) = Cardinality(At(Tail(queue), r))
                                         + (IF r = Head(queue) THEN 1 ELSE 0)
        BY <3>1, TailCount
      <4> QED
        BY <3>3, <4>1, CountTypes
    <3>5. Settled(r)' = Settled(r) + (IF r = Head(queue) THEN 1 ELSE 0)
      BY <1>0, <2>2, <3>1, SettledCount DEF DequeueError
    <3>6. Holders(r)' = Holders(r) /\ pushes'[r] = pushes[r]
      BY <2>2 DEF DequeueError, Holders, workerVars
    <3>7. Occurrences(r)' \in Nat
      BY <3>1, <3>3, AtFinite
    <3> QED
      BY <3>2, <3>4, <3>5, <3>6, <3>7, CountTypes
  <2>3. CASE DecodeFail(w)
    BY <1>0, <2>0, <2>3, AccountRelease DEF DecodeFail, Release, redisVars
  <2>4. CASE DecodeOk(w) \/ InsertOk(w)
    BY <2>4, AccountFrame DEF DecodeOk, InsertOk, redisVars
  <2>5. ASSUME phase[w] = "saving", CountFailure(w), UNCHANGED <<pushes, queue>>
        PROVE  EveryPushAccounted'
    <3>1. CASE tries[w] + 1 < MaxRetries
      BY <2>5, <3>1, AccountFrame DEF CountFailure
    <3>2. CASE ~(tries[w] + 1 < MaxRetries)
      BY <1>0, <2>0, <2>5, <3>2, AccountRelease DEF CountFailure, Release
    <3> QED
      BY <3>1, <3>2
  <2>6. CASE InsertFail(w) \/ InsertUnconfirmed(w)
    BY <2>5, <2>6 DEF InsertFail, InsertUnconfirmed, redisVars
  <2>7. CASE Finish(w)
    BY <1>0, <2>0, <2>7, AccountRelease DEF Finish, Release, redisVars
  <2> QED
    BY <1>3, <2>1, <2>2, <2>3, <2>4, <2>6, <2>7 DEF WorkerStep
<1>4. CASE WriterCrash \/ RevokeApiKey
  BY <1>4, AccountFrame DEF WriterCrash, RevokeApiKey, redisVars, workerVars
<1>5. CASE WorkerCrash
  <2> SUFFICES ASSUME NEW r \in Submissions
               PROVE  pushes'[r] = Occurrences(r)' + Cardinality(Holders(r)') + Settled(r)'
    BY DEF EveryPushAccounted
  <2>1. pushes[r] = Occurrences(r) + Cardinality(Holders(r)) + Settled(r)
    BY DEF EveryPushAccounted
  <2>2. Cardinality(Holders(r)') = 0
    <3>1. Holders(r)' = {}
      BY <1>5, SubmissionFacts DEF WorkerCrash, Holders
    <3> QED
      BY <3>1, FS_EmptySet
  <2>3. Settled(r)' = Settled(r) + Cardinality(Holders(r))
    <3>1. /\ fate'[r]["crashed"] = fate[r]["crashed"] + Cardinality(Holders(r))
          /\ \A g \in Fates \ {"crashed"} : fate'[r][g] = fate[r][g]
      BY <1>0, <1>5 DEF WorkerCrash, TypeOK
    <3>2. \A g \in Fates : fate[r][g] \in Nat
      BY DEF TypeOK
    <3> QED
      BY <3>1, <3>2, HoldersCount DEF Settled, Fates
  <2>4. Occurrences(r)' = Occurrences(r) /\ pushes'[r] = pushes[r]
    BY <1>5 DEF WorkerCrash, Occurrences, redisVars
  <2> QED
    BY <2>1, <2>2, <2>3, <2>4, CountTypes
<1>6. CASE UNCHANGED vars
  BY <1>6, AccountFrame DEF vars, redisVars, workerVars
<1> QED
  BY <1>1, <1>2, <1>3, <1>4, <1>5, <1>6 DEF Next

(* Conservation: every execution of an RPUSH is one item in the list, in one
   hand, or settled once, for any number of events, workers and crashes, lost
   replies and repeated pushes. *)
THEOREM PipelineEveryPushAccounted == Spec => []EveryPushAccounted
<1>1. Init => EveryPushAccounted
  <2> SUFFICES ASSUME Init, NEW r \in Submissions
               PROVE  pushes[r] = Occurrences(r) + Cardinality(Holders(r)) + Settled(r)
    BY DEF EveryPushAccounted
  <2>1. Holders(r) = {} /\ {i \in 1..Len(queue) : queue[i] = r} = {}
    BY SubmissionFacts DEF Init, Holders
  <2>2. Cardinality(Holders(r)) = 0 /\ Occurrences(r) = 0
    BY <2>1, FS_EmptySet DEF Occurrences
  <2>3. pushes[r] = 0 /\ Settled(r) = 0
    BY DEF Init, Settled, Fates
  <2> QED
    BY <2>2, <2>3
<1>2. TypeOK /\ TypeOK' /\ EveryPushAccounted /\ [Next]_vars => EveryPushAccounted'
  BY AccountStep
<1> QED
  BY <1>1, <1>2, PipelineTypeOK, PTL DEF Spec

-----------------------------------------------------------------------------
(* Losses have a cause *)

(* A row that is not refused any more was not refused before. *)
LEMMA InsertableBefore ==
    ASSUME rows \subseteq rows', NEW s, Insertable(s)'
    PROVE  Insertable(s)
BY DEF Insertable, RowId

(* A worker that fails no attempt in a step keeps its part of LossInv. *)
LEMMA TriesFrame ==
    ASSUME TypeOK, TypeOK', LossInv, rows \subseteq rows', dbFailures <= dbFailures',
           NEW w \in Workers,
           \/ hand'[w] = None
           \/ tries'[w] = 0
           \/ hand'[w] = hand[w] /\ tries'[w] = tries[w]
    PROVE  hand'[w] # None /\ Insertable(hand[w])' => tries'[w] <= dbFailures'
<1>1. /\ dbFailures \in Nat /\ dbFailures' \in Nat /\ tries[w] \in Nat
  BY PipelineAssumption DEF TypeOK
<1>2. CASE hand'[w] = None \/ tries'[w] = 0
  BY <1>1, <1>2
<1>3. CASE hand'[w] = hand[w] /\ tries'[w] = tries[w]
  <2> SUFFICES ASSUME hand[w] # None, Insertable(hand[w])' PROVE tries[w] <= dbFailures'
    BY <1>3
  <2>1. Insertable(hand[w])
    BY <1>3, InsertableBefore DEF Insertable, RowId
  <2> QED
    BY <1>1, <2>1 DEF LossInv
<1> QED
  BY <1>2, <1>3

(* A submission none of whose items ends in a step as stored, undecodable or
   given up keeps its part. *)
LEMMA EndsFrame ==
    ASSUME TypeOK, TypeOK', LossInv, rows \subseteq rows', dbFailures <= dbFailures',
           NEW s \in Submissions,
           \A f \in {"stored", "undecodable", "gaveUp"} : fate'[s][f] = fate[s][f]
    PROVE  EndsExplained(s)'
<1>1. /\ dbFailures \in 0..MaxRetries /\ dbFailures' \in 0..MaxRetries
      /\ MaxRetries \in Nat
  BY PipelineAssumption DEF TypeOK
<1>2. EndsExplained(s)
  BY DEF LossInv
<1>3. Insertable(s)' => Insertable(s)
  BY InsertableBefore
<1>4. fate'[s]["gaveUp"] > 0 /\ Insertable(s)' => dbFailures' = MaxRetries
  BY <1>1, <1>2, <1>3 DEF EndsExplained
<1>5. /\ fate'[s]["stored"] > 0 => s \in rows'
      /\ fate'[s]["undecodable"] > 0 => ~Decodes(s)
  BY <1>2 DEF EndsExplained
<1> QED
  BY <1>4, <1>5 DEF EndsExplained

(* A step in which no attempt fails and no item ends in one of these ways. *)
LEMMA LossFrame ==
    ASSUME TypeOK, TypeOK', LossInv, rows \subseteq rows', dbFailures' = dbFailures,
           \A w \in Workers : \/ hand'[w] = None
                              \/ tries'[w] = 0
                              \/ hand'[w] = hand[w] /\ tries'[w] = tries[w],
           \A s \in Submissions, f \in {"stored", "undecodable", "gaveUp"} :
              fate'[s][f] = fate[s][f]
    PROVE  LossInv'
<1>1. dbFailures <= dbFailures'
  BY PipelineAssumption DEF TypeOK
<1>2. ASSUME NEW w \in Workers
      PROVE  hand'[w] # None /\ Insertable(hand[w])' => tries'[w] <= dbFailures'
  BY <1>1, TriesFrame
<1>3. ASSUME NEW s \in Submissions PROVE EndsExplained(s)'
  BY <1>1, EndsFrame
<1> QED
  BY <1>2, <1>3 DEF LossInv

(* A worker releases its item, and the end f of it is explained. *)
LEMMA LossRelease ==
    ASSUME TypeOK, TypeOK', LossInv, rows \subseteq rows', dbFailures <= dbFailures',
           NEW w \in Workers, NEW h \in Submissions, Release(w),
           NEW f \in {"stored", "undecodable", "gaveUp"}, Ended(h, f),
           f = "stored" => h \in rows,
           f = "undecodable" => ~Decodes(h),
           f = "gaveUp" /\ Insertable(h)' => dbFailures' = MaxRetries
    PROVE  LossInv'
<1>1. ASSUME NEW v \in Workers
      PROVE  hand'[v] # None /\ Insertable(hand[v])' => tries'[v] <= dbFailures'
  BY TriesFrame DEF Release, TypeOK
<1>2. /\ f \in Fates /\ "gaveUp" \in Fates /\ "stored" \in Fates /\ "undecodable" \in Fates
  BY DEF Fates
<1>3. ASSUME NEW s \in Submissions, s # h PROVE EndsExplained(s)'
  <2>1. fate'[s] = fate[s]
    BY <1>2, <1>3, EndedFacts
  <2> QED
    BY <2>1, EndsFrame
<1>4. EndsExplained(h)'
  <2>1. \A g \in Fates \ {f} : fate'[h][g] = fate[h][g]
    BY <1>2, EndedFacts
  <2>2. EndsExplained(h)
    BY DEF LossInv
  <2>3. Insertable(h)' => Insertable(h)
    BY InsertableBefore
  <2>4. fate[h]["gaveUp"] > 0 /\ Insertable(h)' => dbFailures' = MaxRetries
    <3>1. /\ dbFailures \in 0..MaxRetries /\ dbFailures' \in 0..MaxRetries
          /\ MaxRetries \in Nat
      BY PipelineAssumption DEF TypeOK
    <3> QED
      BY <2>2, <2>3, <3>1 DEF EndsExplained
  <2>5. /\ fate'[h]["stored"] > 0 => h \in rows'
        /\ fate'[h]["undecodable"] > 0 => ~Decodes(h)
    BY <1>2, <2>1, <2>2 DEF EndsExplained
  <2>6. fate'[h]["gaveUp"] > 0 /\ Insertable(h)' => dbFailures' = MaxRetries
    BY <1>2, <2>1, <2>4
  <2> QED
    BY <2>5, <2>6 DEF EndsExplained
<1>5. ASSUME NEW s \in Submissions PROVE EndsExplained(s)'
  BY <1>3, <1>4, <1>5
<1> QED
  BY <1>1, <1>5 DEF LossInv

(* A failed attempt of a worker whose item the table would still take was a
   failure of the database; when it is the last one, MaxRetries of them are on
   record. *)
LEMMA LossCount ==
    ASSUME TypeOK, TypeOK', LossInv, NEW w \in Workers, phase[w] = "saving",
           CountFailure(w), rows \subseteq rows', dbFailures <= dbFailures',
           NEW h \in Submissions, h = hand[w],
           \/ ~Insertable(h)'
           \/ dbFailures' = IF dbFailures < MaxRetries THEN dbFailures + 1 ELSE dbFailures
    PROVE  LossInv'
<1>1. /\ dbFailures \in 0..MaxRetries /\ dbFailures' \in 0..MaxRetries
      /\ MaxRetries \in Nat \ {0} /\ tries[w] \in 0..(MaxRetries - 1)
  BY PipelineAssumption DEF TypeOK
<1>2. Insertable(h) => tries[w] <= dbFailures
  BY SubmissionFacts DEF LossInv
<1>3. Insertable(h)' => Insertable(h)
  BY InsertableBefore
<1>4. CASE tries[w] + 1 < MaxRetries
  <2>1. /\ tries' = [tries EXCEPT ![w] = tries[w] + 1]
        /\ UNCHANGED <<phase, hand, fate>>
    BY <1>4 DEF CountFailure
  <2>2. ASSUME NEW v \in Workers, v # w
        PROVE  hand'[v] # None /\ Insertable(hand[v])' => tries'[v] <= dbFailures'
    BY <2>1, <2>2, TriesFrame DEF TypeOK
  <2>3. Insertable(h)' => tries[w] + 1 <= dbFailures'
    BY <1>1, <1>2, <1>3, <1>4
  <2>4. hand'[w] = h /\ tries'[w] = tries[w] + 1
    BY <2>1 DEF TypeOK
  <2>5. Insertable(hand[w])' => tries'[w] <= dbFailures'
    BY <2>3, <2>4 DEF Insertable, RowId
  <2>6. ASSUME NEW s \in Submissions PROVE EndsExplained(s)'
    BY <2>1, EndsFrame
  <2> QED
    BY <2>2, <2>5, <2>6 DEF LossInv
<1>5. CASE ~(tries[w] + 1 < MaxRetries)
  <2>1. Release(w) /\ Ended(h, "gaveUp")
    BY <1>5 DEF CountFailure
  <2>2. Insertable(h)' => dbFailures' = MaxRetries
    BY <1>1, <1>2, <1>3, <1>5
  <2> QED
    BY <2>1, <2>2, LossRelease
<1> QED
  BY <1>4, <1>5

(* A goroutine without an item has no failed attempt behind it. *)
IdleInv == \A w \in Workers : hand[w] = None => tries[w] = 0

(* Every step keeps it. *)
LEMMA IdleStep ==
    ASSUME TypeOK, TypeOK', IdleInv, [Next]_vars
    PROVE  IdleInv'
<1>1. ASSUME NEW e \in Events, SdkStep(e)
      PROVE  IdleInv'
  BY <1>1 DEF IdleInv, SdkStep, SdkSend, SdkResponse, SdkNetworkError, SdkRetry, workerVars
<1>2. ASSUME NEW s \in Submissions, WriterStep(s)
      PROVE  IdleInv'
  BY <1>2 DEF IdleInv, WriterStep, RequestLost, WriterRefuse, WriterAdmit, WriterEnqueue,
        RedisPush, WriterAccept, WriterTimeout, workerVars
<1>3. ASSUME NEW w \in Workers, WorkerStep(w)
      PROVE  IdleInv'
  <2>1. CASE Dequeue(w)
    <3>1. Head(queue) # None
      BY <2>1, SubmissionFacts DEF Dequeue, TypeOK
    <3> QED
      BY <2>1, <3>1 DEF IdleInv, Dequeue, TypeOK
  <2>2. CASE DequeueError(w) \/ DecodeOk(w) \/ InsertOk(w)
    BY <2>2 DEF IdleInv, DequeueError, DecodeOk, InsertOk, workerVars
  <2>3. CASE DecodeFail(w) \/ Finish(w)
    BY <2>3 DEF IdleInv, DecodeFail, Finish, Release, TypeOK
  <2>4. CASE InsertFail(w) \/ InsertUnconfirmed(w)
    <3>1. CountFailure(w) /\ phase[w] = "saving"
      BY <2>4 DEF InsertFail, InsertUnconfirmed
    <3>2. hand[w] # None
      BY <3>1 DEF TypeOK
    <3> QED
      BY <3>1, <3>2 DEF IdleInv, CountFailure, Release, TypeOK
  <2> QED
    BY <1>3, <2>1, <2>2, <2>3, <2>4 DEF WorkerStep
<1>4. CASE WriterCrash \/ WorkerCrash \/ RevokeApiKey \/ UNCHANGED vars
  BY <1>4 DEF IdleInv, WriterCrash, WorkerCrash, RevokeApiKey, vars, workerVars
<1> QED
  BY <1>1, <1>2, <1>3, <1>4 DEF Next

(* Every step keeps LossInv. *)
LEMMA LossStep ==
    ASSUME TypeOK, TypeOK', IdleInv, AnalysisInv, LossInv, [Next]_vars
    PROVE  LossInv'
<1>0. dbFailures \in Nat /\ dbFailures' \in Nat
  BY PipelineAssumption DEF TypeOK
<1>a. ASSUME UNCHANGED <<hand, tries, rows, dbFailures, fate>> PROVE LossInv'
  BY <1>a, LossFrame
<1>1. ASSUME NEW e \in Events, SdkStep(e)
      PROVE  LossInv'
  BY <1>1, <1>a DEF SdkStep, SdkSend, SdkResponse, SdkNetworkError, SdkRetry, workerVars, dbVars
<1>2. ASSUME NEW s \in Submissions, WriterStep(s)
      PROVE  LossInv'
  BY <1>2, <1>a DEF WriterStep, RequestLost, WriterRefuse, WriterAdmit, WriterEnqueue,
        RedisPush, WriterAccept, WriterTimeout, workerVars, dbVars
<1>3. ASSUME NEW w \in Workers, WorkerStep(w)
      PROVE  LossInv'
  <2>a. ASSUME phase[w] # "polling" PROVE hand[w] \in Submissions
    BY <2>a DEF TypeOK
  <2>1. CASE Dequeue(w)
    <3>1. \A v \in Workers : tries'[v] = 0 \/ (hand'[v] = hand[v] /\ tries'[v] = tries[v])
      BY <2>1 DEF Dequeue, IdleInv, TypeOK
    <3> QED
      BY <2>1, <3>1, LossFrame DEF Dequeue, dbVars
  <2>2. CASE DequeueError(w)
    <3>1. Head(queue) \in Submissions /\ Ended(Head(queue), "popLost")
      BY <2>2 DEF DequeueError, TypeOK
    <3>2. \A s \in Submissions, f \in {"stored", "undecodable", "gaveUp"} :
             fate'[s][f] = fate[s][f]
      BY <3>1, EndedFacts DEF Fates
    <3> QED
      BY <2>2, <3>2, LossFrame DEF DequeueError, workerVars, dbVars
  <2>3. CASE DecodeFail(w)
    <3>1. PICK h \in Submissions : h = hand[w]
      BY <2>3, <2>a DEF DecodeFail
    <3>2. /\ Release(w) /\ Ended(h, "undecodable") /\ ~Decodes(h)
          /\ rows' = rows /\ dbFailures' = dbFailures
      BY <2>3, <3>1 DEF DecodeFail, dbVars
    <3> QED
      BY <1>0, <3>2, LossRelease
  <2>4. CASE DecodeOk(w)
    BY <1>a, <2>4 DEF DecodeOk, dbVars
  <2>5. CASE InsertOk(w)
    BY <2>5, LossFrame DEF InsertOk
  <2>6. CASE InsertFail(w)
    <3>1. PICK h \in Submissions : h = hand[w]
      BY <2>6, <2>a DEF InsertFail
    <3>2. /\ phase[w] = "saving" /\ CountFailure(w) /\ rows' = rows
          /\ CountDbFailure(h)
      BY <2>6, <3>1 DEF InsertFail
    <3>3. Insertable(h)' <=> Insertable(h)
      BY <3>2 DEF Insertable
    <3>4. dbFailures <= dbFailures'
      BY <1>0, <3>2 DEF CountDbFailure
    <3>5. \/ ~Insertable(h)'
          \/ dbFailures' = IF dbFailures < MaxRetries THEN dbFailures + 1 ELSE dbFailures
      BY <3>2, <3>3 DEF CountDbFailure
    <3> QED
      BY <3>1, <3>2, <3>4, <3>5, LossCount
  <2>7. CASE InsertUnconfirmed(w)
    <3>1. PICK h \in Submissions : h = hand[w]
      BY <2>7, <2>a DEF InsertUnconfirmed
    <3>2. /\ phase[w] = "saving" /\ CountFailure(w) /\ rows' = rows \union {h}
          /\ dbFailures' = dbFailures
      BY <2>7, <3>1 DEF InsertUnconfirmed
    <3>3. ~Insertable(h)'
      BY <3>2 DEF Insertable
    <3> QED
      BY <1>0, <3>1, <3>2, <3>3, LossCount
  <2>8. CASE Finish(w)
    <3>1. PICK h \in Submissions : h = hand[w]
      BY <2>8, <2>a DEF Finish
    <3>2. /\ Release(w) /\ Ended(h, "stored") /\ h \in rows
          /\ rows' = rows /\ dbFailures' = dbFailures
      BY <2>8, <3>1 DEF Finish, AnalysisInv
    <3> QED
      BY <1>0, <3>2, LossRelease
  <2> QED
    BY <1>3, <2>1, <2>2, <2>3, <2>4, <2>5, <2>6, <2>7, <2>8 DEF WorkerStep
<1>4. CASE WriterCrash \/ RevokeApiKey \/ UNCHANGED vars
  BY <1>4, <1>a DEF WriterCrash, RevokeApiKey, vars, workerVars, dbVars
<1>5. CASE WorkerCrash
  <2>1. \A s \in Submissions, f \in {"stored", "undecodable", "gaveUp"} :
           fate'[s][f] = fate[s][f]
    BY <1>5 DEF WorkerCrash, TypeOK, Fates
  <2> QED
    BY <1>5, <2>1, LossFrame DEF WorkerCrash, dbVars
<1> QED
  BY <1>1, <1>2, <1>3, <1>4, <1>5 DEF Next

(* With conservation, LossInv leaves no other cause. *)
LEMMA LossImplies ==
    ASSUME TypeOK, EveryPushAccounted, LossInv
    PROVE  LossHasCause
<1> SUFFICES ASSUME NEW s \in Submissions, pushes[s] > 0, ~InFlight(s),
                    fate[s]["popLost"] = 0, fate[s]["crashed"] = 0,
                    Decodes(s), s[1] \notin Unstorable, dbFailures < MaxRetries
             PROVE  \E r \in rows : RowId(r) = RowId(s)
  BY DEF LossHasCause
<1>1. Cardinality(Holders(s)) = 0 /\ Occurrences(s) = 0
  <2>1. Holders(s) = {} /\ {i \in 1..Len(queue) : queue[i] = s} = {}
    BY DEF InFlight, Queued
  <2> QED
    BY <2>1, FS_EmptySet DEF Occurrences
<1>2. Settled(s) > 0
  <2>1. Settled(s) \in Nat /\ pushes[s] \in Nat
    BY CountTypes
  <2>2. pushes[s] = Occurrences(s) + Cardinality(Holders(s)) + Settled(s)
    BY DEF EveryPushAccounted
  <2> QED
    BY <1>1, <2>1, <2>2
<1>3. \A f \in Fates : fate[s][f] \in Nat
  BY DEF TypeOK
<1>4. fate[s]["stored"] > 0 \/ fate[s]["undecodable"] > 0 \/ fate[s]["gaveUp"] > 0
  BY <1>2, <1>3 DEF Settled, Fates
<1>5. EndsExplained(s)
  BY DEF LossInv
<1>6. s \in rows \/ ~Insertable(s)
  <2>1. dbFailures # MaxRetries
    BY PipelineAssumption DEF TypeOK
  <2> QED
    BY <1>4, <1>5, <2>1 DEF EndsExplained
<1> QED
  BY <1>6 DEF Insertable

(* What Redis took is lost only for a reason, for any number of events,
   workers, attempts and repeated pushes: a lost BLPOP reply, a crash of the
   worker, an event no worker can decode or no INSERT can store, or a database
   that failed MaxRetries times on rows it would have taken. *)
THEOREM PipelineLossHasCause == Spec => []LossHasCause
<1>1. Init => IdleInv /\ LossInv
  <2> SUFFICES ASSUME Init PROVE IdleInv /\ LossInv
    OBVIOUS
  <2>1. \A w \in Workers : hand[w] = None /\ tries[w] = 0
    BY DEF Init
  <2>2. \A s \in Submissions, f \in Fates : fate[s][f] = 0
    BY DEF Init
  <2>3. \A s \in Submissions : EndsExplained(s)
    BY <2>2 DEF EndsExplained, Fates
  <2> QED
    BY <2>1, <2>3 DEF IdleInv, LossInv
<1>2. Init => AnalysisInv
  BY DEF Init, AnalysisInv
<1>3. TypeOK /\ AnalysisInv /\ [Next]_vars => AnalysisInv'
  BY AnalysisStep
<1>4. TypeOK /\ TypeOK' /\ IdleInv /\ AnalysisInv /\ LossInv /\ [Next]_vars
         => IdleInv' /\ LossInv'
  BY IdleStep, LossStep
<1>5. TypeOK /\ EveryPushAccounted /\ LossInv => LossHasCause
  BY LossImplies
<1> QED
  BY <1>1, <1>2, <1>3, <1>4, <1>5, PipelineTypeOK, PipelineEveryPushAccounted, PTL DEF Spec

-----------------------------------------------------------------------------
(* The pipeline implements AuditTrail *)

(* What the refinement needs: what is on its way or stored
   was pushed, and a submission the SDK has not made yet has no request, so
   that no answer is ever taken back. *)
TrailInv ==
    /\ \A s \in Submissions : InFlight(s) \/ s \in rows => pushes[s] > 0
    /\ \A e \in Events :
          /\ sdk[e] = "idle" => request[Current(e)] = "none"
          /\ \A n \in 0..SdkRetries : n > attempt[e] => request[<<e, n>>] = "none"

(* The status of a submission, read from the table, the list and the hands. *)
LEMMA StatusFacts ==
    ASSUME TypeOK, TrailInv, NEW s \in Submissions
    PROVE  /\ TrailStatus[s] = "stored" <=> s \in rows
           /\ TrailStatus[s] = "pending" <=> s \notin rows /\ InFlight(s)
           /\ TrailStatus[s] = "lost" <=> s \notin rows /\ ~InFlight(s) /\ pushes[s] > 0
           /\ TrailStatus[s] = "absent" <=> pushes[s] = 0
           /\ TrailStatus[s] \in {"stored", "pending", "lost", "absent"}
<1>1. pushes[s] \in Nat
  BY PipelineAssumption DEF TypeOK
<1> QED
  BY <1>1 DEF TrailStatus, TrailInv

(* The status is a function of these. *)
LEMMA StatusFrame ==
    ASSUME UNCHANGED <<rows, pushes>>,
           \A s \in Submissions : InFlight(s)' <=> InFlight(s)
    PROVE  TrailStatus' = TrailStatus
BY DEF TrailStatus

(* RPUSH and BLPOP, as sets of what is queued. *)
LEMMA QueuedAppend ==
    ASSUME TypeOK, NEW s \in Submissions, queue' = Append(queue, s), NEW r \in Submissions
    PROVE  Queued(r)' <=> Queued(r) \/ r = s
<1>1. /\ Len(queue) \in Nat /\ Len(queue') = Len(queue) + 1
      /\ \A i \in 1..Len(queue) : queue'[i] = queue[i]
      /\ queue'[Len(queue) + 1] = s
  BY DEF TypeOK
<1>2. 1..Len(queue') = 1..Len(queue) \union {Len(queue) + 1}
  BY <1>1
<1> QED
  BY <1>1, <1>2 DEF Queued

(* A pop takes the head of the list and nothing else. *)
LEMMA QueuedTail ==
    ASSUME TypeOK, queue # <<>>, queue' = Tail(queue), NEW r \in Submissions
    PROVE  /\ Queued(r) <=> Queued(r)' \/ r = Head(queue)
           /\ Head(queue) \in Submissions
<1>1. /\ Len(queue) \in Nat \ {0} /\ Len(queue') = Len(queue) - 1
      /\ \A i \in 1..(Len(queue) - 1) : queue'[i] = queue[i + 1]
      /\ Head(queue) = queue[1] /\ Head(queue) \in Submissions
  BY DEF TypeOK
<1>2. ASSUME Queued(r)' PROVE Queued(r)
  <2>1. PICK i \in 1..(Len(queue) - 1) : queue'[i] = r
    BY <1>1, <1>2 DEF Queued
  <2>2. i + 1 \in 1..Len(queue) /\ queue[i + 1] = r
    BY <1>1, <2>1
  <2> QED
    BY <2>2 DEF Queued
<1>3. ASSUME Queued(r), r # Head(queue) PROVE Queued(r)'
  <2>1. PICK i \in 1..Len(queue) : queue[i] = r
    BY <1>3 DEF Queued
  <2>2. i # 1
    BY <1>1, <1>3, <2>1
  <2>3. i - 1 \in 1..(Len(queue) - 1) /\ (i - 1) + 1 = i
    BY <1>1, <2>1, <2>2
  <2>4. queue'[i - 1] = r
    BY <1>1, <2>1, <2>3
  <2> QED
    BY <1>1, <2>3, <2>4 DEF Queued
<1>4. ASSUME r = Head(queue) PROVE Queued(r)
  <2>1. 1 \in 1..Len(queue) /\ queue[1] = r
    BY <1>1, <1>4
  <2> QED
    BY <2>1 DEF Queued
<1> QED
  BY <1>1, <1>2, <1>3, <1>4

(* A worker that lets go takes nothing but its own item out of the flight. *)
LEMMA FlightRelease ==
    ASSUME TypeOK, NEW w \in Workers, hand[w] \in Submissions,
           hand' = [hand EXCEPT ![w] = None], queue' = queue, NEW r \in Submissions
    PROVE  /\ InFlight(r)' => InFlight(r)
           /\ r # hand[w] => (InFlight(r)' <=> InFlight(r))
           /\ InFlight(hand[w])
<1>1. Queued(r)' <=> Queued(r)
  BY DEF Queued
<1>2. Holders(r)' = Holders(r) \ {w}
  BY SubmissionFacts DEF Holders, TypeOK
<1>3. w \in Holders(hand[w]) /\ (r # hand[w] => w \notin Holders(r))
  BY DEF Holders
<1> QED
  BY <1>1, <1>2, <1>3 DEF InFlight

(* Every step keeps TrailInv. *)
LEMMA TrailInvStep ==
    ASSUME TypeOK, TypeOK', TrailInv, [Next]_vars
    PROVE  TrailInv'
<1>. DEFINE Sent == \A e \in Events :
              /\ sdk[e] = "idle" => request[Current(e)] = "none"
              /\ \A n \in 0..SdkRetries : n > attempt[e] => request[<<e, n>>] = "none"
            Pushed == \A s \in Submissions : InFlight(s) \/ s \in rows => pushes[s] > 0
<1>0. Sent /\ Pushed
  BY DEF TrailInv
<1>a. ASSUME UNCHANGED <<queue, hand, rows, pushes>> PROVE Pushed'
  BY <1>0, <1>a DEF InFlight, Queued, Holders
<1>b. ASSUME UNCHANGED <<sdk, attempt>>,
             \A s \in Submissions : request[s] = "none" => request'[s] = "none"
      PROVE  Sent'
  BY <1>0, <1>b, SubmissionFacts DEF Current, TypeOK
<1>c. ASSUME Sent', Pushed' PROVE TrailInv'
  BY <1>c DEF TrailInv
<1> HIDE DEF Sent, Pushed
<1>1. ASSUME NEW e \in Events, SdkStep(e)
      PROVE  TrailInv'
  <2>1. Pushed'
    BY <1>1, <1>a
       DEF SdkStep, SdkSend, SdkResponse, SdkNetworkError, SdkRetry, redisVars, workerVars, dbVars
  <2>2. ASSUME SdkSend(e) PROVE Sent'
    BY <1>0, <2>2, SubmissionFacts DEF Sent, SdkSend, Current, TypeOK
  <2>3. ASSUME SdkResponse(e) \/ SdkNetworkError(e) PROVE Sent'
    BY <1>0, <2>3 DEF Sent, SdkResponse, SdkNetworkError, AfterFailure, Current, TypeOK
  <2>4. ASSUME SdkRetry(e) PROVE Sent'
    <3>1. /\ attempt[e] \in Nat /\ attempt[e] + 1 \in 0..SdkRetries
          /\ sdk' = [sdk EXCEPT ![e] = "waiting"]
          /\ attempt' = [attempt EXCEPT ![e] = attempt[e] + 1]
          /\ request' = [request EXCEPT ![<<e, attempt[e] + 1>>] = "sent"]
      BY <2>4, PipelineAssumption DEF SdkRetry, TypeOK
    <3>2. \A r \in Submissions : r # <<e, attempt[e] + 1>> => request'[r] = request[r]
      BY <3>1 DEF TypeOK
    <3>3. \A d \in Events, n \in 0..SdkRetries : <<d, n>> \in Submissions
      BY DEF Submissions
    <3>4. ASSUME NEW d \in Events, d # e
          PROVE  /\ sdk'[d] = "idle" => request'[<<d, attempt'[d]>>] = "none"
                 /\ \A n \in 0..SdkRetries : n > attempt'[d] => request'[<<d, n>>] = "none"
      <4>1. sdk'[d] = sdk[d] /\ attempt'[d] = attempt[d] /\ attempt[d] \in 0..SdkRetries
        BY <3>1, <3>4 DEF TypeOK
      <4>2. \A n \in 0..SdkRetries : request'[<<d, n>>] = request[<<d, n>>]
        BY <3>2, <3>3, <3>4
      <4> QED
        BY <1>0, <4>1, <4>2 DEF Sent, Current
    <3>5. /\ sdk'[e] = "waiting" /\ attempt'[e] = attempt[e] + 1
      BY <3>1 DEF TypeOK
    <3>6. ASSUME NEW n \in 0..SdkRetries, n > attempt'[e] PROVE request'[<<e, n>>] = "none"
      <4>1. n > attempt[e] /\ <<e, n>> # <<e, attempt[e] + 1>>
        BY <3>1, <3>5, <3>6, PipelineAssumption
      <4> QED
        BY <1>0, <3>2, <3>3, <4>1 DEF Sent
    <3> QED
      BY <3>4, <3>5, <3>6 DEF Sent, Current
  <2> QED
    BY <1>1, <1>c, <2>1, <2>2, <2>3, <2>4 DEF SdkStep
<1>2. ASSUME NEW s \in Submissions, WriterStep(s)
      PROVE  TrailInv'
  <2>1. Sent'
    BY <1>2, <1>b DEF WriterStep, RequestLost, WriterRefuse, WriterAdmit, WriterEnqueue,
          RedisPush, WriterAccept, WriterTimeout, SetStage, clientVars, TypeOK
  <2>2. CASE RedisPush(s)
    <3>1. /\ queue' = Append(queue, s) /\ pushes' = [pushes EXCEPT ![s] = pushes[s] + 1]
          /\ UNCHANGED <<hand, rows>>
      BY <2>2 DEF RedisPush, workerVars, dbVars
    <3>2. pushes \in [Submissions -> Nat]
      BY PipelineAssumption DEF TypeOK
    <3>3. ASSUME NEW r \in Submissions, r # s
          PROVE  (InFlight(r)' <=> InFlight(r)) /\ pushes'[r] = pushes[r]
      <4>1. Queued(r)' <=> Queued(r)
        BY <3>1, <3>3, QueuedAppend
      <4> QED
        BY <3>1, <3>2, <3>3, <4>1 DEF InFlight, Holders
    <3>4. pushes'[s] > 0
      BY <3>1, <3>2
    <3>5. Pushed'
      BY <1>0, <3>1, <3>3, <3>4 DEF Pushed
    <3> QED
      BY <1>c, <2>1, <3>5
  <2>3. CASE ~RedisPush(s)
    <3>1. Pushed'
      BY <1>2, <1>a, <2>3 DEF WriterStep, RequestLost, WriterRefuse, WriterAdmit, WriterEnqueue,
            WriterAccept, WriterTimeout, redisVars, workerVars, dbVars
    <3> QED
      BY <1>c, <2>1, <3>1
  <2> QED
    BY <2>2, <2>3
<1>3. ASSUME NEW w \in Workers, WorkerStep(w)
      PROVE  TrailInv'
  <2>0. Sent'
    BY <1>3, <1>b DEF WorkerStep, Dequeue, DequeueError, DecodeFail, DecodeOk, InsertOk,
          InsertFail, InsertUnconfirmed, Finish, clientVars
  <2>a. ASSUME phase[w] # "polling"
        PROVE  hand[w] \in Submissions /\ InFlight(hand[w])
    BY <2>a DEF TypeOK, InFlight, Holders
  <2>b. ASSUME pushes' = pushes,
               \A r \in Submissions : (InFlight(r)' => InFlight(r)),
               rows' \subseteq rows \union {r \in Submissions : InFlight(r)}
        PROVE  TrailInv'
    <3>1. Pushed'
      BY <1>0, <2>b DEF Pushed
    <3> QED
      BY <1>c, <2>0, <3>1
  <2>1. CASE Dequeue(w)
    <3>1. \A r \in Submissions : InFlight(r)' => InFlight(r)
      <4> SUFFICES ASSUME NEW r \in Submissions, InFlight(r)' PROVE InFlight(r)
        OBVIOUS
      <4>1. queue # <<>> /\ queue' = Tail(queue) /\ hand' = [hand EXCEPT ![w] = Head(queue)]
        BY <2>1 DEF Dequeue
      <4>2. Queued(r) <=> Queued(r)' \/ r = Head(queue)
        BY <4>1, QueuedTail
      <4>3. Holders(r)' \subseteq Holders(r) \/ r = Head(queue)
        BY <4>1 DEF Holders, TypeOK
      <4> QED
        BY <4>2, <4>3 DEF InFlight
    <3> QED
      BY <2>1, <2>b, <3>1 DEF Dequeue, dbVars
  <2>2. CASE DequeueError(w)
    <3>1. \A r \in Submissions : InFlight(r)' => InFlight(r)
      <4>1. queue # <<>> /\ queue' = Tail(queue) /\ hand' = hand
        BY <2>2 DEF DequeueError, workerVars
      <4>2. \A r \in Submissions : Queued(r)' => Queued(r)
        BY <4>1, QueuedTail
      <4> QED
        BY <4>1, <4>2 DEF InFlight, Holders
    <3> QED
      BY <2>2, <2>b, <3>1 DEF DequeueError, dbVars
  <2>3. CASE DecodeFail(w) \/ Finish(w)
    <3>1. /\ hand[w] \in Submissions /\ hand' = [hand EXCEPT ![w] = None]
          /\ UNCHANGED <<queue, pushes, rows>>
      BY <2>3, <2>a DEF DecodeFail, Finish, Release, redisVars, dbVars
    <3> QED
      BY <2>b, <3>1, FlightRelease
  <2>4. CASE DecodeOk(w) \/ InsertOk(w)
    <3>1. /\ UNCHANGED <<queue, pushes, hand>>
          /\ rows' \subseteq rows \union {hand[w]} /\ phase[w] # "polling"
      BY <2>4 DEF DecodeOk, InsertOk, redisVars, dbVars
    <3>2. \A r \in Submissions : InFlight(r)' => InFlight(r)
      BY <3>1 DEF InFlight, Queued, Holders
    <3> QED
      BY <2>a, <2>b, <3>1, <3>2
  <2>5. CASE InsertFail(w) \/ InsertUnconfirmed(w)
    <3>1. /\ CountFailure(w) /\ UNCHANGED <<queue, pushes>>
          /\ rows' \subseteq rows \union {hand[w]} /\ phase[w] # "polling"
      BY <2>5 DEF InsertFail, InsertUnconfirmed, redisVars, dbVars
    <3>2. hand' = hand \/ hand' = [hand EXCEPT ![w] = None]
      BY <3>1 DEF CountFailure, Release
    <3>3. CASE hand' = hand
      <4>1. \A r \in Submissions : InFlight(r)' => InFlight(r)
        BY <3>1, <3>3 DEF InFlight, Queued, Holders
      <4> QED
        BY <2>a, <2>b, <3>1, <4>1
    <3>4. CASE hand' = [hand EXCEPT ![w] = None]
      <4>1. \A r \in Submissions : InFlight(r)' => InFlight(r)
        BY <2>a, <3>1, <3>4, FlightRelease
      <4> QED
        BY <2>a, <2>b, <3>1, <4>1
    <3> QED
      BY <3>2, <3>3, <3>4
  <2> QED
    BY <1>3, <2>1, <2>2, <2>3, <2>4, <2>5 DEF WorkerStep
<1>4. CASE WriterCrash \/ RevokeApiKey
  <2>1. Pushed'
    BY <1>4, <1>a DEF WriterCrash, RevokeApiKey, redisVars, workerVars, dbVars
  <2>2. Sent'
    BY <1>4, <1>b DEF WriterCrash, RevokeApiKey, clientVars
  <2> QED
    BY <1>c, <2>1, <2>2
<1>5. CASE WorkerCrash
  <2>1. Sent'
    BY <1>5, <1>b DEF WorkerCrash, clientVars
  <2>2. \A r \in Submissions : InFlight(r)' => InFlight(r)
    BY <1>5, SubmissionFacts DEF WorkerCrash, InFlight, Queued, Holders, redisVars
  <2>3. Pushed'
    BY <1>0, <1>5, <2>2 DEF Pushed, WorkerCrash, redisVars, dbVars
  <2> QED
    BY <1>c, <2>1, <2>3
<1>6. CASE UNCHANGED vars
  <2>1. Pushed'
    BY <1>6, <1>a DEF vars, redisVars, workerVars, dbVars
  <2>2. Sent'
    BY <1>6, <1>b DEF vars, clientVars
  <2> QED
    BY <1>c, <2>1, <2>2
<1> QED
  BY <1>1, <1>2, <1>3, <1>4, <1>5, <1>6 DEF Next

(* No step but WriterAccept answers with 202, and none takes an answer back. *)
LEMMA PromisedFrame ==
    ASSUME \A s \in Submissions : request'[s] = "accepted" <=> request[s] = "accepted"
    PROVE  Promised' = Promised
BY DEF Promised

(* A step that stores nothing and pushes nothing, and only takes items out of
   the flight, is a loss of those that are not rows, of none perhaps. *)
LEMMA LoseStep ==
    ASSUME TypeOK, TrailInv, UNCHANGED <<rows, pushes>>, Promised' = Promised,
           \A s \in Submissions : InFlight(s)' => InFlight(s)
    PROVE  Trail!Next
<1>. DEFINE S == {s \in Submissions : s \notin rows /\ InFlight(s) /\ ~InFlight(s)'}
<1>1. \A s \in S : TrailStatus[s] = "pending"
  BY StatusFacts
<1>2. ASSUME NEW s \in S PROVE TrailStatus'[s] = "lost"
  <2>1. s \in Submissions /\ s \notin rows' /\ ~InFlight(s)' /\ pushes'[s] > 0
    BY DEF TrailInv
  <2> QED
    BY <2>1 DEF TrailStatus
<1>3. ASSUME NEW s \in Submissions, s \notin S PROVE TrailStatus'[s] = TrailStatus[s]
  <2>1. s \in rows \/ (InFlight(s)' <=> InFlight(s))
    BY <1>3
  <2> QED
    BY <2>1 DEF TrailStatus
<1>4. TrailStatus' = [s \in Submissions |-> IF s \in S THEN "lost" ELSE TrailStatus[s]]
  BY <1>2, <1>3 DEF TrailStatus
<1>5. S \in SUBSET Submissions
  OBVIOUS
<1> HIDE DEF S
<1>6. Trail!Lose(S)
  BY <1>1, <1>4 DEF Trail!Lose
<1> QED
  BY <1>5, <1>6 DEF Trail!Next

(* The INSERT that commits, answered or not, stores what the worker holds. *)
LEMMA StoreStep ==
    ASSUME TypeOK, TrailInv, NEW w \in Workers, phase[w] = "saving", Insertable(hand[w]),
           rows' = rows \union {hand[w]}, UNCHANGED <<queue, pushes>>,
           hand' = hand \/ hand' = [hand EXCEPT ![w] = None], Promised' = Promised
    PROVE  Trail!Next
<1>. DEFINE s == hand[w]
<1>1. s \in Submissions /\ InFlight(s) /\ s \notin rows
  BY DEF TypeOK, InFlight, Holders, Insertable
<1>2. \A r \in Submissions : r # s => (InFlight(r)' <=> InFlight(r))
  <2>1. CASE hand' = hand
    BY <2>1 DEF InFlight, Queued, Holders
  <2>2. CASE hand' = [hand EXCEPT ![w] = None]
    BY <1>1, <2>2, FlightRelease
  <2> QED
    BY <2>1, <2>2
<1>3. TrailStatus' = [TrailStatus EXCEPT ![s] = "stored"]
  BY <1>1, <1>2 DEF TrailStatus
<1>4. TrailStatus[s] = "pending"
  BY <1>1, StatusFacts
<1>5. \A r \in Submissions : TrailStatus[r] = "stored" => RowId(r) # RowId(s)
  BY StatusFacts DEF Insertable
<1>6. Trail!Store(s)
  BY <1>3, <1>4, <1>5 DEF Trail!Store
<1> QED
  BY <1>1, <1>6 DEF Trail!Next

(* RPUSH: the submission is received, or a copy of it joins the one that is
   stored or on its way. *)
LEMMA ReceiveStep ==
    ASSUME TypeOK, TrailInv, NEW s \in Submissions, RedisPush(s)
    PROVE  [Trail!Next]_(Trail!trailVars)
<1>1. /\ queue' = Append(queue, s) /\ UNCHANGED <<request, hand, rows>>
      /\ pushes' = [pushes EXCEPT ![s] = pushes[s] + 1]
  BY DEF RedisPush, workerVars, dbVars
<1>2. pushes \in [Submissions -> Nat]
  BY PipelineAssumption DEF TypeOK
<1>3. \A r \in Submissions : Queued(r)' <=> Queued(r) \/ r = s
  BY <1>1, QueuedAppend
<1>4. \A r \in Submissions : InFlight(r)' <=> InFlight(r) \/ r = s
  BY <1>1, <1>3 DEF InFlight, Holders
<1>5. \A r \in Submissions : r # s => pushes'[r] = pushes[r]
  BY <1>1, <1>2
<1>6. Promised' = Promised
  BY <1>1 DEF Promised
<1>7. CASE s \in rows \/ InFlight(s)
  <2>1. TrailStatus' = TrailStatus
    BY <1>1, <1>4, <1>5, <1>7 DEF TrailStatus
  <2> QED
    BY <1>6, <2>1 DEF Trail!trailVars
<1>8. CASE s \notin rows /\ ~InFlight(s)
  <2>1. TrailStatus' = [TrailStatus EXCEPT ![s] = "pending"]
    BY <1>1, <1>4, <1>5, <1>8 DEF TrailStatus
  <2>2. TrailStatus[s] \in {"absent", "lost"}
    BY <1>8 DEF TrailStatus
  <2>3. Trail!Receive(s)
    BY <1>6, <2>1, <2>2 DEF Trail!Receive
  <2> QED
    BY <2>3 DEF Trail!Next
<1> QED
  BY <1>7, <1>8

(* 202: the submission was received before it is promised. *)
LEMMA PromiseStep ==
    ASSUME TypeOK, TrailInv, NEW s \in Submissions, WriterAccept(s)
    PROVE  Trail!Next
<1>1. /\ request[s] = "pushing" /\ request' = [request EXCEPT ![s] = "accepted"]
      /\ pushes[s] > 0 /\ UNCHANGED <<queue, hand, rows, pushes>>
  BY DEF WriterAccept, SetStage, redisVars, workerVars, dbVars
<1>2. TrailStatus' = TrailStatus
  BY <1>1, StatusFrame DEF InFlight, Queued, Holders
<1>3. TrailStatus[s] # "absent"
  <2>1. pushes[s] # 0
    BY <1>1, PipelineAssumption DEF TypeOK
  <2> QED
    BY <2>1, StatusFacts
<1>4. Promised' = Promised \union {s} /\ s \notin Promised
  BY <1>1 DEF Promised, TypeOK
<1>5. Trail!Promise(s)
  BY <1>2, <1>3, <1>4 DEF Trail!Promise
<1> QED
  BY <1>5 DEF Trail!Next

(* Every step of the pipeline is a step of the trail or leaves it alone. *)
LEMMA TrailStep ==
    ASSUME TypeOK, TypeOK', TrailInv, [Next]_vars
    PROVE  [Trail!Next]_(Trail!trailVars)
<1>a. ASSUME UNCHANGED <<queue, hand, rows, pushes>>, Promised' = Promised
      PROVE  [Trail!Next]_(Trail!trailVars)
  <2>1. TrailStatus' = TrailStatus
    BY <1>a, StatusFrame DEF InFlight, Queued, Holders
  <2> QED
    BY <1>a, <2>1 DEF Trail!trailVars
<1>1. ASSUME NEW e \in Events, SdkStep(e)
      PROVE  [Trail!Next]_(Trail!trailVars)
  <2>1. UNCHANGED <<queue, hand, rows, pushes>>
    BY <1>1 DEF SdkStep, SdkSend, SdkResponse, SdkNetworkError, SdkRetry,
          redisVars, workerVars, dbVars
  <2>2. ASSUME SdkSend(e) \/ SdkRetry(e) PROVE Promised' = Promised
    <3>1. PICK n \in 0..SdkRetries :
             request[<<e, n>>] = "none" /\ request' = [request EXCEPT ![<<e, n>>] = "sent"]
      <4>1. CASE SdkSend(e)
        BY <4>1 DEF SdkSend, TrailInv, Current, TypeOK
      <4>2. CASE SdkRetry(e)
        <5>1. attempt[e] + 1 \in 0..SdkRetries /\ attempt[e] + 1 > attempt[e]
          BY <4>2, PipelineAssumption DEF SdkRetry, TypeOK
        <5> QED
          BY <4>2, <5>1 DEF SdkRetry, TrailInv
      <4> QED
        BY <2>2, <4>1, <4>2
    <3>2. \A s \in Submissions : request'[s] = "accepted" <=> request[s] = "accepted"
      BY <3>1 DEF TypeOK, Submissions
    <3> QED
      BY <3>2, PromisedFrame
  <2>3. ASSUME SdkResponse(e) \/ SdkNetworkError(e) PROVE Promised' = Promised
    BY <2>3 DEF SdkResponse, SdkNetworkError, Promised
  <2> QED
    BY <1>1, <1>a, <2>1, <2>2, <2>3 DEF SdkStep
<1>2. ASSUME NEW s \in Submissions, WriterStep(s)
      PROVE  [Trail!Next]_(Trail!trailVars)
  <2>1. CASE RedisPush(s)
    BY <2>1, ReceiveStep
  <2>2. CASE WriterAccept(s)
    BY <2>2, PromiseStep
  <2>3. CASE ~RedisPush(s) /\ ~WriterAccept(s)
    <3>1. UNCHANGED <<queue, hand, rows, pushes>>
      BY <1>2, <2>3 DEF WriterStep, RequestLost, WriterRefuse, WriterAdmit, WriterEnqueue,
            WriterTimeout, redisVars, workerVars, dbVars
    <3>2. \A r \in Submissions : request'[r] = "accepted" <=> request[r] = "accepted"
      BY <1>2, <2>3 DEF WriterStep, RequestLost, WriterRefuse, WriterAdmit, WriterEnqueue,
            WriterTimeout, SetStage, TypeOK
    <3> QED
      BY <1>a, <3>1, <3>2, PromisedFrame
  <2> QED
    BY <2>1, <2>2, <2>3
<1>3. ASSUME NEW w \in Workers, WorkerStep(w)
      PROVE  [Trail!Next]_(Trail!trailVars)
  <2>1. pushes' = pushes /\ Promised' = Promised
    BY <1>3 DEF WorkerStep, Dequeue, DequeueError, DecodeFail, DecodeOk, InsertOk,
          InsertFail, InsertUnconfirmed, Finish, redisVars, Promised
  <2>2. CASE Dequeue(w)
    <3>1. /\ queue # <<>> /\ queue' = Tail(queue) /\ hand' = [hand EXCEPT ![w] = Head(queue)]
          /\ rows' = rows
      BY <2>2 DEF Dequeue, dbVars
    <3>2. ASSUME NEW r \in Submissions, InFlight(r)' PROVE InFlight(r)
      <4>1. Queued(r) <=> Queued(r)' \/ r = Head(queue)
        BY <3>1, QueuedTail
      <4>2. Holders(r)' \subseteq Holders(r) \/ r = Head(queue)
        BY <3>1 DEF Holders, TypeOK
      <4> QED
        BY <3>2, <4>1, <4>2 DEF InFlight
    <3> QED
      BY <2>1, <3>1, <3>2, LoseStep
  <2>3. CASE DequeueError(w)
    <3>1. queue # <<>> /\ queue' = Tail(queue) /\ hand' = hand /\ rows' = rows
      BY <2>3 DEF DequeueError, workerVars, dbVars
    <3>2. \A r \in Submissions : Queued(r)' => Queued(r)
      BY <3>1, QueuedTail
    <3>3. \A r \in Submissions : InFlight(r)' => InFlight(r)
      BY <3>1, <3>2 DEF InFlight, Holders
    <3> QED
      BY <2>1, <3>1, <3>3, LoseStep
  <2>4. CASE DecodeOk(w)
    BY <1>a, <2>1, <2>4 DEF DecodeOk, redisVars, dbVars
  <2>5. CASE DecodeFail(w) \/ Finish(w) \/ InsertFail(w)
    <3>1. /\ phase[w] # "polling" /\ UNCHANGED <<queue, rows>>
          /\ hand' = hand \/ hand' = [hand EXCEPT ![w] = None]
      BY <2>5 DEF DecodeFail, Finish, InsertFail, CountFailure, Release, redisVars, dbVars
    <3>2. hand[w] \in Submissions
      BY <3>1 DEF TypeOK
    <3>3. ASSUME NEW r \in Submissions, InFlight(r)' PROVE InFlight(r)
      <4>1. CASE hand' = hand
        BY <3>1, <3>3, <4>1 DEF InFlight, Queued, Holders
      <4>2. CASE hand' = [hand EXCEPT ![w] = None]
        BY <3>1, <3>2, <3>3, <4>2, FlightRelease
      <4> QED
        BY <3>1, <4>1, <4>2
    <3> QED
      BY <2>1, <3>1, <3>3, LoseStep
  <2>6. CASE InsertOk(w) \/ InsertUnconfirmed(w)
    <3>1. /\ phase[w] = "saving" /\ Insertable(hand[w]) /\ queue' = queue
          /\ rows' = rows \union {hand[w]}
          /\ hand' = hand \/ hand' = [hand EXCEPT ![w] = None]
      BY <2>6 DEF InsertOk, InsertUnconfirmed, CountFailure, Release, redisVars
    <3> QED
      BY <2>1, <3>1, StoreStep
  <2> QED
    BY <1>3, <2>2, <2>3, <2>4, <2>5, <2>6 DEF WorkerStep
<1>4. CASE WriterCrash
  <2>1. UNCHANGED <<queue, hand, rows, pushes>>
    BY <1>4 DEF WriterCrash, redisVars, workerVars, dbVars
  <2>2. \A s \in Submissions : request'[s] = "accepted" <=> request[s] = "accepted"
    BY <1>4 DEF WriterCrash
  <2> QED
    BY <1>a, <2>1, <2>2, PromisedFrame
<1>5. CASE RevokeApiKey \/ UNCHANGED vars
  <2>1. UNCHANGED <<queue, hand, rows, pushes>>
    BY <1>5 DEF RevokeApiKey, vars, redisVars, workerVars, dbVars
  <2>2. Promised' = Promised
    BY <1>5 DEF RevokeApiKey, vars, Promised
  <2> QED
    BY <1>a, <2>1, <2>2
<1>6. CASE WorkerCrash
  <2>1. UNCHANGED <<queue, rows, pushes>> /\ hand' = [w \in Workers |-> None]
    BY <1>6 DEF WorkerCrash, redisVars, dbVars
  <2>2. Promised' = Promised
    BY <1>6 DEF WorkerCrash, Promised
  <2>3. \A r \in Submissions : InFlight(r)' => InFlight(r)
    BY <2>1, SubmissionFacts DEF InFlight, Queued, Holders
  <2> QED
    BY <2>1, <2>2, <2>3, LoseStep
<1> QED
  BY <1>1, <1>2, <1>3, <1>4, <1>5, <1>6 DEF Next

(* The ingest path implements the abstract trail, for every number of events,
   workers, retries and faults: what is answered with 202 was received, what is
   stored stays stored under a key of its own, and what was lost comes back
   only as another copy of its push. *)
THEOREM PipelineImplementsTrail == Spec => ImplementsTrail
<1>1. Init => TrailInv
  BY SubmissionFacts, PipelineAssumption
     DEF Init, TrailInv, InFlight, Queued, Holders, Current, Submissions
<1>2. Init => Trail!Init
  <2> SUFFICES ASSUME Init PROVE Trail!Init
    OBVIOUS
  <2>1. \A s \in Submissions : ~InFlight(s) /\ s \notin rows /\ pushes[s] = 0
    BY SubmissionFacts DEF Init, InFlight, Queued, Holders
  <2>2. TrailStatus = [s \in Submissions |-> "absent"]
    BY <2>1 DEF TrailStatus
  <2>3. Promised = {}
    BY DEF Promised, Init
  <2> QED
    BY <2>2, <2>3 DEF Trail!Init
<1>3. TypeOK /\ TypeOK' /\ TrailInv /\ [Next]_vars => TrailInv'
  BY TrailInvStep
<1>4. TypeOK /\ TypeOK' /\ TrailInv /\ [Next]_vars
         => [Trail!Next]_(Trail!trailVars)
  BY TrailStep
<1> QED
  BY <1>1, <1>2, <1>3, <1>4, PipelineTypeOK, PTL
     DEF Spec, ImplementsTrail, Trail!Spec
=============================================================================
