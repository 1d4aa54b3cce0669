------------------------- MODULE WallboardTVProofs -------------------------
(***************************************************************************)
(* For every number of screens, profiles and queries, every lifetime and   *)
(* every schedule: type correctness, the bound on what a revoked profile's *)
(* screens can still see, the single renewer of a code, and the end of     *)
(* renewal after Disconnect.                                               *)
(***************************************************************************)
EXTENDS WallboardTV, TLAPS

\* A fetch record built from typed parts is typed.
LEMMA CallTyped ==
    ASSUME NEW pc \in {"idle", "actSent", "actRead", "actOk", "refSent", "refRead",
                       "refOk", "refused", "data"},
           NEW c \in Codes \cup {"none"}, NEW h \in Nat, NEW e \in Nat
    PROVE  /\ Call(pc, c, h, e) \in Calls
           /\ Call(pc, c, h, e).pc = pc /\ Call(pc, c, h, e).code = c
           /\ Call(pc, c, h, e).refresh = h /\ Call(pc, c, h, e).exp = e
BY DEF Call, Calls

\* The parts of a typed fetch record.
LEMMA CallParts ==
    ASSUME NEW r \in Calls
    PROVE  /\ r.code \in Codes \cup {"none"} /\ r.refresh \in Nat /\ r.exp \in Nat
           /\ r.pc \in {"idle", "actSent", "actRead", "actOk", "refSent", "refRead",
                        "refOk", "refused", "data"}
BY DEF Calls

\* The same fetch at another step is typed and carries the same tokens.
LEMMA AtTyped ==
    ASSUME NEW r \in Calls, NEW pc \in {"refused", "actRead"}
    PROVE  /\ At(pc, r) \in Calls /\ At(pc, r).pc = pc
           /\ At(pc, r).code = r.code /\ At(pc, r).refresh = r.refresh
<1>1. r.code \in Codes \cup {"none"} /\ r.refresh \in Nat /\ r.exp \in Nat
  BY CallParts
<1>2. pc \in {"idle", "actSent", "actRead", "actOk", "refSent", "refRead",
              "refOk", "refused", "data"}
  OBVIOUS
<1> QED BY <1>1, <1>2 DEF At, Call, Calls

\* A fetch moves on, the others stay where they are.
LEMMA GoTyped ==
    ASSUME TypeOK, NEW s \in Screens, NEW f \in Fibers, NEW r \in Calls, Go(s, f, r)
    PROVE  /\ fetches' \in [Screens -> [Fibers -> Calls]]
           /\ fetches'[s][f] = r
           /\ \A t \in Screens, g \in Fibers :
                (t # s \/ g # f) => fetches'[t][g] = fetches[t][g]
BY DEF Go, TypeOK

(* Screens and profiles start with the shape of the state. *)
LEMMA WallboardTypeInit == Init => TypeOK
BY WallboardAssumption DEF Init, TypeOK, Empty, NoToken, Idle, Call, Row, Tokens,
   Rows, Stores, Calls, Fibers

\* A page load leaves at most the silent refresh.
LEMMA MountTyped ==
    ASSUME TypeOK, NEW s \in Screens, Mount(s)
    PROVE  /\ fetches' \in [Screens -> [Fibers -> Calls]]
           /\ \A t \in Screens \ {s}, g \in Fibers : fetches'[t][g] = fetches[t][g]
           /\ \A g \in Fibers : \/ fetches'[s][g] = Idle
                                \/ fetches'[s][g] = Call("refSent", "none", store[s].refresh, 0)
<1> DEFINE F == [f \in Fibers |-> IF f = "mount" /\ ~auth'[s] /\ store[s].refresh # 0
                   THEN Call("refSent", "none", store[s].refresh, 0) ELSE Idle]
<1>0. store[s].refresh \in Nat
  BY DEF TypeOK, Stores
<1>1. Idle \in Calls /\ Call("refSent", "none", store[s].refresh, 0) \in Calls
  BY <1>0, CallTyped DEF Idle
<1>2. F \in [Fibers -> Calls]
  BY <1>1
<1>3. fetches' = [fetches EXCEPT ![s] = F]
  BY DEF Mount
<1> HIDE DEF F
<1>4. fetches' \in [Screens -> [Fibers -> Calls]] /\ fetches'[s] = F
      /\ \A t \in Screens \ {s} : fetches'[t] = fetches[t]
  BY <1>2, <1>3 DEF TypeOK
<1>5. \A g \in Fibers : \/ F[g] = Idle
                        \/ F[g] = Call("refSent", "none", store[s].refresh, 0)
  BY DEF F
<1> QED BY <1>4, <1>5

\* What each action does to the fetches, the rows and the stores keeps them typed.
LEMMA WallboardTypeStep == TypeOK /\ [Next]_vars => TypeOK'
<1> SUFFICES ASSUME TypeOK, [Next]_vars PROVE TypeOK'
  OBVIOUS
<1> USE WallboardAssumption
<1>0. /\ Empty \in Stores /\ Idle \in Calls
      /\ \A h, e \in Nat, c \in Codes \cup {"none"} :
           [access |-> [code |-> c, exp |-> e], refresh |-> h, expiresAt |-> now + AccessTTL]
             \in Stores
      /\ \A st \in {"none", "live", "revoked"}, h, e, a \in Nat : Row(st, h, e, a) \in Rows
      /\ \A c \in Codes : row[c].state \in {"none", "live", "revoked"} /\ row[c].hash \in Nat
                          /\ row[c].expires \in Nat /\ row[c].at \in Nat
      /\ \A s \in Screens : /\ store[s].refresh \in Nat /\ store[s].access.exp \in Nat
                            /\ store[s].access.code \in Codes \cup {"none"}
  BY DEF TypeOK, Empty, NoToken, Idle, Call, Row, Tokens, Rows, Stores, Calls
<1>f. "form" \in Fibers /\ "mount" \in Fibers /\ Queries \subseteq Fibers
  BY DEF Fibers
<1>1. CASE Tick
  BY <1>1 DEF Tick, TypeOK
<1>2. ASSUME NEW c \in Codes, GenerateCode(c) \/ RevokeCode(c) PROVE TypeOK'
  <2>0. now \in Nat /\ drawn + 1 \in Nat /\ now + RefreshTTL \in Nat
    BY DEF TypeOK
  <2>1. row' \in [Codes -> Rows] /\ drawn' \in Nat
    <3>1. CASE GenerateCode(c)
      <4>1. Row("live", drawn + 1, now + RefreshTTL, now) \in Rows
        BY <1>0, <2>0
      <4> QED BY <3>1, <4>1, <2>0 DEF GenerateCode, TypeOK
    <3>2. CASE RevokeCode(c)
      <4>1. Row("revoked", row[c].hash, row[c].expires, now) \in Rows
        BY <1>0, <2>0
      <4> QED BY <3>2, <4>1 DEF RevokeCode, TypeOK
    <3> QED BY <1>2, <3>1, <3>2
  <2> QED BY <1>2, <2>1 DEF GenerateCode, RevokeCode, TypeOK
<1>3. ASSUME NEW s \in Screens, Mount(s) PROVE TypeOK'
  BY <1>3, MountTyped DEF Mount, TypeOK
<1>4. ASSUME NEW s \in Screens, Disconnect(s) PROVE TypeOK'
  BY <1>0, <1>4 DEF Disconnect, Forget, TypeOK
<1>5. ASSUME NEW s \in Screens, ActivateRead(s) PROVE TypeOK'
  <2> DEFINE r == fetches[s]["form"]
  <2>1. At(IF Live(r.code) THEN "actRead" ELSE "refused", r) \in Calls
    BY <1>f, AtTyped DEF TypeOK
  <2> QED BY <1>5, <1>f, <2>1, GoTyped DEF ActivateRead, TypeOK
<1>6. ASSUME NEW s \in Screens, ActivateWrite(s) PROVE TypeOK'
  <2> DEFINE r == fetches[s]["form"]
  <2>1. r \in Calls
    BY <1>f DEF TypeOK
  <2>2. drawn + 1 \in Nat /\ now + AccessTTL \in Nat /\ now + RefreshTTL \in Nat
    BY DEF TypeOK
  <2>3. Call("actOk", r.code, drawn + 1, now + AccessTTL) \in Calls
    BY <2>1, <2>2, CallTyped, CallParts
  <2>4. fetches' \in [Screens -> [Fibers -> Calls]]
    BY <1>6, <1>f, <2>3, GoTyped DEF ActivateWrite
  <2>5. row' \in [Codes -> Rows]
    <3>1. CASE r.code \in Codes
      BY <1>0, <1>6, <2>2, <3>1 DEF ActivateWrite, TypeOK
    <3>2. CASE r.code \notin Codes
      BY <1>6, <3>2 DEF ActivateWrite, TypeOK
    <3> QED BY <3>1, <3>2
  <2> QED BY <1>6, <2>2, <2>4, <2>5 DEF ActivateWrite, TypeOK
<1>7. ASSUME NEW s \in Screens, ActivateReply(s) PROVE TypeOK'
  <2>1. fetches[s]["form"] \in Calls
    BY <1>f DEF TypeOK
  <2>2. fetches' \in [Screens -> [Fibers -> Calls]]
    BY <1>0, <1>7, <1>f, GoTyped DEF ActivateReply
  <2>3. store' \in [Screens -> Stores]
    BY <1>0, <1>7, <2>1, CallParts DEF ActivateReply, SaveTokens, TypeOK
  <2> QED BY <1>7, <2>1, <2>2, <2>3, CallParts DEF ActivateReply, TypeOK
<1>8. ASSUME NEW s \in Screens, NEW c \in Codes, SubmitCode(s, c) PROVE TypeOK'
  <2>1. Call("actSent", c, 0, 0) \in Calls
    BY CallTyped
  <2> QED BY <1>8, <1>f, <2>1, GoTyped DEF SubmitCode, TypeOK
<1>9. ASSUME NEW s \in Screens, NEW f \in Fibers,
             HandlerFails(s, f) \/ RefusedReply(s, f) \/ Lost(s, f)
      PROVE TypeOK'
  <2>1. At("refused", fetches[s][f]) \in Calls
    BY AtTyped DEF TypeOK
  <2>2. Go(s, f, At("refused", fetches[s][f])) \/ Go(s, f, Idle)
    BY <1>9 DEF HandlerFails, RefusedReply, Lost
  <2>4. fetches' \in [Screens -> [Fibers -> Calls]]
    BY <1>0, <2>1, <2>2, GoTyped
  <2>3. store' \in [Screens -> Stores]
    BY <1>0, <1>9 DEF HandlerFails, RefusedReply, Lost, TypeOK
  <2> QED BY <1>9, <2>4, <2>3 DEF HandlerFails, RefusedReply, Lost, TypeOK
<1>10. ASSUME NEW s \in Screens, NEW f \in Fibers, RefreshRead(s, f) PROVE TypeOK'
  <2> DEFINE r == fetches[s][f]
  <2>0. r \in Calls /\ r.refresh \in Nat
    BY CallParts DEF TypeOK
  <2>1. At("refused", r) \in Calls /\ \A c \in Codes : Call("refRead", c, r.refresh, 0) \in Calls
    BY <2>0, AtTyped, CallTyped
  <2>2. fetches' \in [Screens -> [Fibers -> Calls]]
    <3>1. PICK n \in Calls : Go(s, f, n)
      BY <1>10, <2>1 DEF RefreshRead, Owner
    <3> QED BY <3>1, GoTyped
  <2> QED BY <1>10, <2>2 DEF RefreshRead, TypeOK
<1>11. ASSUME NEW s \in Screens, NEW f \in Fibers, RefreshWrite(s, f) PROVE TypeOK'
  <2> DEFINE r == fetches[s][f]
  <2>1. r \in Calls
    BY DEF TypeOK
  <2>2. now + AccessTTL \in Nat /\ now + RefreshTTL \in Nat
    BY DEF TypeOK
  <2>3. Call("refOk", r.code, r.refresh, now + AccessTTL) \in Calls
    BY <2>1, <2>2, CallTyped, CallParts
  <2>4. fetches' \in [Screens -> [Fibers -> Calls]]
    BY <1>11, <2>3, GoTyped DEF RefreshWrite
  <2>5. row' \in [Codes -> Rows]
    <3>1. CASE r.code \in Codes
      BY <1>0, <1>11, <2>2, <3>1 DEF RefreshWrite, TypeOK
    <3>2. CASE r.code \notin Codes
      BY <1>11, <3>2 DEF RefreshWrite, TypeOK
    <3> QED BY <3>1, <3>2
  <2> QED BY <1>11, <2>4, <2>5 DEF RefreshWrite, TypeOK
<1>12. ASSUME NEW s \in Screens, NEW f \in Fibers, RefreshReply(s, f) PROVE TypeOK'
  <2> DEFINE r == fetches[s][f]
  <2>1. r \in Calls
    BY DEF TypeOK
  <2>2. Call("data", r.code, 0, r.exp) \in Calls
    BY <2>1, CallTyped, CallParts
  <2>3. fetches' \in [Screens -> [Fibers -> Calls]]
    BY <1>0, <1>12, <2>2, GoTyped DEF RefreshReply
  <2>4. store' \in [Screens -> Stores]
    BY <1>0, <1>12, <2>1, CallParts DEF RefreshReply, SaveTokens, TypeOK
  <2> QED BY <1>12, <2>3, <2>4 DEF RefreshReply, TypeOK
<1>13. ASSUME NEW s \in Screens, NEW q \in Queries,
              Poll(s, q) \/ ServeData(s, q) \/ DenyData(s, q)
       PROVE TypeOK'
  <2>1. /\ Call("refSent", "none", store[s].refresh, 0) \in Calls
        /\ Call("data", store[s].access.code, 0, store[s].access.exp) \in Calls
    BY <1>0, CallTyped
  <2>2. fetches' \in [Screens -> [Fibers -> Calls]]
    BY <1>0, <1>f, <1>13, <2>1, GoTyped DEF Poll, ServeData, DenyData
  <2> QED BY <1>13, <2>2 DEF Poll, ServeData, DenyData, TypeOK
<1>14. ASSUME NEW s \in Screens, ActivateHalf(s) PROVE TypeOK'
  <2> DEFINE r == fetches[s]["form"]
  <2>1. r \in Calls /\ now + RefreshTTL \in Nat
    BY <1>f DEF TypeOK
  <2>2. At("refused", r) \in Calls
    BY <2>1, AtTyped
  <2>3. fetches' \in [Screens -> [Fibers -> Calls]]
    BY <1>f, <1>14, <2>2, GoTyped DEF ActivateHalf
  <2>4. row' \in [Codes -> Rows]
    <3>1. CASE r.code \in Codes
      BY <1>0, <1>14, <2>1, <3>1 DEF ActivateHalf, TypeOK
    <3>2. CASE r.code \notin Codes
      BY <1>14, <3>2 DEF ActivateHalf, TypeOK
    <3> QED BY <3>1, <3>2
  <2> QED BY <1>14, <2>3, <2>4 DEF ActivateHalf, TypeOK
<1>15. CASE UNCHANGED vars
  BY <1>15 DEF vars, TypeOK
<1> QED
  BY <1>1, <1>2, <1>3, <1>4, <1>5, <1>6, <1>7, <1>8, <1>9, <1>10, <1>11, <1>12,
     <1>13, <1>14, <1>15 DEF Next

\* Every reachable state of the wallboard sessions is well typed.
THEOREM WallboardTypeOK == Spec => []TypeOK
BY WallboardTypeInit, WallboardTypeStep, PTL DEF Spec

----------------------------------------------------------------------------
(* What a token may be worth: its code exists, it lives no longer than one *)
(* lifetime from now and, once the code is revoked, from the revocation.   *)
(* A handler between its two statements has seen the row, and if the row   *)
(* was revoked since, that was in this very tick.                          *)

Good(c, e) ==
    /\ c \in Codes /\ row[c].state # "none"
    /\ e <= now + AccessTTL
    /\ row[c].state = "revoked" => e <= row[c].at + AccessTTL

StoredGood == \A s \in Screens :
    store[s].access # NoToken => Good(store[s].access.code, store[s].access.exp)

CarriedGood == \A s \in Screens, f \in Fibers :
    fetches[s][f].pc \in {"actOk", "refOk", "data"}
        => Good(fetches[s][f].code, fetches[s][f].exp)

Seen(c) == c \in Codes /\ row[c].state # "none" /\ (row[c].state = "revoked" => row[c].at = now)

ReadFresh == \A s \in Screens, f \in Fibers :
    fetches[s][f].pc \in {"actRead", "refRead"} => Seen(fetches[s][f].code)

AskedKnown == \A s \in Screens, f \in Fibers :
    fetches[s][f].pc = "actSent" => fetches[s][f].code \in Codes

TokenInv == StoredGood /\ CarriedGood /\ ReadFresh /\ AskedKnown

\* A step that leaves the rows and the clock alone keeps what tokens are worth,
\* so only the fetch that moved and the store that was written matter.
LEMMA StillGood ==
    ASSUME TypeOK, TokenInv, UNCHANGED <<row, now>>, NEW s \in Screens, NEW f \in Fibers,
           NEW r \in Calls, Go(s, f, r),
           r.pc \in {"actOk", "refOk", "data"} => Good(r.code, r.exp),
           r.pc \in {"actRead", "refRead"} => Seen(r.code),
           r.pc = "actSent" => r.code \in Codes
    PROVE  CarriedGood' /\ ReadFresh' /\ AskedKnown'
<1>1. /\ fetches'[s][f] = r
      /\ \A t \in Screens, g \in Fibers : (t # s \/ g # f) => fetches'[t][g] = fetches[t][g]
  BY GoTyped
<1>2. \A c, e : Good(c, e) => Good(c, e)'
  BY DEF Good
<1>3. \A c : Seen(c) => Seen(c)'
  BY DEF Seen
<1>4. ASSUME NEW t \in Screens, NEW g \in Fibers,
             fetches'[t][g].pc \in {"actOk", "refOk", "data"}
      PROVE  Good(fetches[t][g].code, fetches[t][g].exp)'
  BY <1>1, <1>2, <1>4 DEF TokenInv, CarriedGood
<1>5. ASSUME NEW t \in Screens, NEW g \in Fibers,
             fetches'[t][g].pc \in {"actRead", "refRead"}
      PROVE  Seen(fetches[t][g].code)'
  BY <1>1, <1>3, <1>5 DEF TokenInv, ReadFresh
<1>6. AskedKnown'
  BY <1>1 DEF TokenInv, AskedKnown
<1> QED BY <1>4, <1>5, <1>6 DEF CarriedGood, ReadFresh

\* When rows change, it is enough that what tokens are worth is kept.
LEMMA KeptGood ==
    ASSUME TypeOK, TokenInv, UNCHANGED <<store, fetches>>,
           \A c, e : Good(c, e) => Good(c, e)',
           \A c : Seen(c) => Seen(c)'
    PROVE  TokenInv'
BY DEF TokenInv, StoredGood, CarriedGood, ReadFresh, AskedKnown

(* No token has been given out at the start. *)
LEMMA TokenInit == Init => TokenInv
BY DEF Init, TokenInv, StoredGood, CarriedGood, ReadFresh, AskedKnown, Empty, NoToken, Idle, Call

(* Every step keeps what a token on its way is worth. *)
LEMMA TokenStep == TypeOK /\ TokenInv /\ [Next]_vars => TokenInv'
<1> SUFFICES ASSUME TypeOK, TokenInv, [Next]_vars PROVE TokenInv'
  OBVIOUS
<1> USE WallboardAssumption
<1>f. "form" \in Fibers /\ "mount" \in Fibers /\ Queries \subseteq Fibers
  BY DEF Fibers
<1>i. Idle \in Calls /\ Idle.pc = "idle"
  BY CallTyped DEF Idle
<1>r. \A s \in Screens, f \in Fibers : fetches[s][f] \in Calls
  BY DEF TypeOK
<1>u. ASSUME UNCHANGED <<store, row, now>> PROVE StoredGood'
  <2>1. \A c, e : Good(c, e) => Good(c, e)'
    BY <1>u DEF Good
  <2> QED BY <1>u, <2>1 DEF TokenInv, StoredGood
<1>1. CASE Tick
  <2>1. \A c, e : e \in Nat /\ Good(c, e) => Good(c, e)'
    BY <1>1 DEF Tick, Good, TypeOK
  <2>2. \A s \in Screens : store[s].access.exp \in Nat
    BY DEF TypeOK, Stores, Tokens
  <2>3. StoredGood'
    BY <1>1, <2>1, <2>2 DEF Tick, TokenInv, StoredGood
  <2>4. CarriedGood'
    BY <1>1, <1>r, <2>1, CallParts DEF Tick, TokenInv, CarriedGood
  <2>5. ReadFresh'
    BY <1>1 DEF Tick, ReadFresh
  <2>6. AskedKnown'
    BY <1>1 DEF Tick, TokenInv, AskedKnown
  <2> QED BY <2>3, <2>4, <2>5, <2>6 DEF TokenInv
<1>2. ASSUME NEW c \in Codes, GenerateCode(c) PROVE TokenInv'
  <2>1. \A d \in Codes : row[d].state # "none" => row'[d] = row[d]
    BY <1>2 DEF GenerateCode, TypeOK
  <2>2. \A d, e : Good(d, e) => Good(d, e)'
    BY <1>2, <2>1 DEF GenerateCode, Good
  <2>3. \A d : Seen(d) => Seen(d)'
    BY <1>2, <2>1 DEF GenerateCode, Seen
  <2> QED BY <1>2, <2>2, <2>3, KeptGood DEF GenerateCode
<1>3. ASSUME NEW c \in Codes, RevokeCode(c) PROVE TokenInv'
  <2>1. /\ row'[c].state = "revoked" /\ row'[c].at = now
        /\ \A d \in Codes \ {c} : row'[d] = row[d]
    BY <1>3 DEF RevokeCode, Row, TypeOK
  <2>2. \A d, e : Good(d, e) => Good(d, e)'
    BY <1>3, <2>1 DEF RevokeCode, Good
  <2>3. \A d : Seen(d) => Seen(d)'
    BY <1>3, <2>1 DEF RevokeCode, Seen
  <2> QED BY <1>3, <2>2, <2>3, KeptGood DEF RevokeCode
<1>4. ASSUME NEW s \in Screens, Mount(s) PROVE TokenInv'
  <2>0. store[s].refresh \in Nat
    BY DEF TypeOK, Stores
  <2>1. \A t \in Screens, g \in Fibers :
           fetches'[t][g] = fetches[t][g] \/ fetches'[t][g].pc \in {"idle", "refSent"}
    BY <1>4, <1>i, <2>0, MountTyped, CallTyped
  <2>2. UNCHANGED <<store, row, now>>
    BY <1>4 DEF Mount
  <2>3. (\A c, e : Good(c, e) => Good(c, e)') /\ (\A c : Seen(c) => Seen(c)')
    BY <2>2 DEF Good, Seen
  <2>4. CarriedGood'
    BY <2>1, <2>3 DEF TokenInv, CarriedGood
  <2>5. ReadFresh'
    BY <2>1, <2>3 DEF TokenInv, ReadFresh
  <2>6. AskedKnown'
    BY <2>1 DEF TokenInv, AskedKnown
  <2> QED BY <1>u, <2>2, <2>4, <2>5, <2>6 DEF TokenInv
<1>5. ASSUME NEW s \in Screens, Disconnect(s) PROVE TokenInv'
  <2>1. UNCHANGED <<row, now, fetches>> /\ store' = [store EXCEPT ![s] = Empty]
    BY <1>5 DEF Disconnect
  <2>2. \A t \in Screens : store'[t] = store[t] \/ store'[t].access = NoToken
    BY <2>1 DEF Empty, TypeOK
  <2>3. (\A c, e : Good(c, e) => Good(c, e)') /\ (\A c : Seen(c) => Seen(c)')
    BY <2>1 DEF Good, Seen
  <2> QED BY <2>1, <2>2, <2>3 DEF TokenInv, StoredGood, CarriedGood, ReadFresh, AskedKnown
<1>6. ASSUME NEW s \in Screens, ActivateRead(s) PROVE TokenInv'
  <2> DEFINE r == fetches[s]["form"]
             n == At(IF Live(r.code) THEN "actRead" ELSE "refused", r)
  <2>1. /\ n \in Calls /\ n.code = r.code
        /\ n.pc = IF Live(r.code) THEN "actRead" ELSE "refused"
    BY <1>f, <1>r, AtTyped
  <2>2. r.pc = "actSent" /\ r.code \in Codes /\ (Live(r.code) => Seen(r.code))
    BY <1>6, <1>f DEF ActivateRead, TokenInv, AskedKnown, Live, Seen
  <2> QED BY <1>6, <1>f, <1>u, <2>1, <2>2, StillGood DEF ActivateRead, TokenInv
<1>7. ASSUME NEW s \in Screens, ActivateWrite(s) PROVE TokenInv'
  <2> DEFINE r == fetches[s]["form"]
             n == Call("actOk", r.code, drawn + 1, now + AccessTTL)
  <2>1. r.pc = "actRead" /\ Seen(r.code)
    BY <1>7, <1>f DEF ActivateWrite, TokenInv, ReadFresh
  <2>2. n \in Calls /\ n.pc = "actOk" /\ n.code = r.code /\ n.exp = now + AccessTTL
    BY <2>1, CallTyped DEF Seen, TypeOK
  <2>3. \A c \in Codes : row'[c].state = row[c].state /\ row'[c].at = row[c].at
    BY <1>7, <2>1 DEF ActivateWrite, Row, Seen, TypeOK
  <2>4. UNCHANGED <<now, store>> /\ Go(s, "form", n)
    BY <1>7 DEF ActivateWrite
  <2>5. (\A c, e : Good(c, e) => Good(c, e)') /\ (\A c : Seen(c) => Seen(c)')
    BY <2>3, <2>4 DEF Good, Seen
  <2>6. /\ fetches'[s]["form"] = n
        /\ \A t \in Screens, g \in Fibers :
             (t # s \/ g # "form") => fetches'[t][g] = fetches[t][g]
    BY <1>f, <2>2, <2>4, GoTyped
  <2>7. \A c, e : c = n.code /\ e = n.exp => Good(c, e)'
    <3>1. now \in Nat /\ AccessTTL \in Nat
      BY DEF TypeOK
    <3> QED BY <2>1, <2>2, <2>3, <2>4, <3>1 DEF Good, Seen
  <2>8. StoredGood'
    BY <2>4, <2>5 DEF TokenInv, StoredGood
  <2>9. CarriedGood'
    <3> SUFFICES ASSUME NEW t \in Screens, NEW g \in Fibers,
                        fetches'[t][g].pc \in {"actOk", "refOk", "data"}
                 PROVE  Good(fetches[t][g].code, fetches[t][g].exp)'
      BY DEF CarriedGood
    <3>1. CASE t = s /\ g = "form"
      BY <2>6, <2>7, <3>1
    <3>2. CASE t # s \/ g # "form"
      BY <2>5, <2>6, <3>2 DEF TokenInv, CarriedGood
    <3> QED BY <3>1, <3>2
  <2>10. ReadFresh' /\ AskedKnown'
    BY <2>2, <2>5, <2>6 DEF TokenInv, ReadFresh, AskedKnown
  <2> QED BY <2>8, <2>9, <2>10 DEF TokenInv
<1>8. ASSUME NEW s \in Screens, NEW f \in Fibers, RefreshWrite(s, f) PROVE TokenInv'
  <2> DEFINE r == fetches[s][f]
             n == Call("refOk", r.code, r.refresh, now + AccessTTL)
  <2>1. r.pc = "refRead" /\ Seen(r.code) /\ r \in Calls
    BY <1>8, <1>r DEF RefreshWrite, TokenInv, ReadFresh
  <2>2. n \in Calls /\ n.pc = "refOk" /\ n.code = r.code /\ n.exp = now + AccessTTL
    <3>1. r.refresh \in Nat /\ now + AccessTTL \in Nat /\ r.code \in Codes
      BY <2>1, CallParts DEF Seen, TypeOK
    <3> QED BY <3>1 DEF Call, Calls
  <2>3. \A c \in Codes : row'[c].state = row[c].state /\ row'[c].at = row[c].at
    BY <1>8, <2>1 DEF RefreshWrite, Row, Seen, TypeOK
  <2>4. UNCHANGED <<now, store>> /\ Go(s, f, n)
    BY <1>8 DEF RefreshWrite
  <2>5. (\A c, e : Good(c, e) => Good(c, e)') /\ (\A c : Seen(c) => Seen(c)')
    BY <2>3, <2>4 DEF Good, Seen
  <2>6. /\ fetches'[s][f] = n
        /\ \A t \in Screens, g \in Fibers :
             (t # s \/ g # f) => fetches'[t][g] = fetches[t][g]
    BY <2>2, <2>4, GoTyped
  <2>7. \A c, e : c = n.code /\ e = n.exp => Good(c, e)'
    <3>1. now \in Nat /\ AccessTTL \in Nat
      BY DEF TypeOK
    <3> QED BY <2>1, <2>2, <2>3, <2>4, <3>1 DEF Good, Seen
  <2>8. StoredGood'
    BY <2>4, <2>5 DEF TokenInv, StoredGood
  <2>9. CarriedGood'
    <3> SUFFICES ASSUME NEW t \in Screens, NEW g \in Fibers,
                        fetches'[t][g].pc \in {"actOk", "refOk", "data"}
                 PROVE  Good(fetches[t][g].code, fetches[t][g].exp)'
      BY DEF CarriedGood
    <3>1. CASE t = s /\ g = f
      BY <2>6, <2>7, <3>1
    <3>2. CASE t # s \/ g # f
      BY <2>5, <2>6, <3>2 DEF TokenInv, CarriedGood
    <3> QED BY <3>1, <3>2
  <2>10. ReadFresh' /\ AskedKnown'
    BY <2>2, <2>5, <2>6 DEF TokenInv, ReadFresh, AskedKnown
  <2> QED BY <2>8, <2>9, <2>10 DEF TokenInv
<1>9. ASSUME NEW s \in Screens, NEW f \in Fibers, RefreshRead(s, f) PROVE TokenInv'
  <2> DEFINE r == fetches[s][f]
  <2>0. r \in Calls /\ r.refresh \in Nat
    BY <1>r, CallParts
  <2>1. CASE Go(s, f, At("refused", r))
    BY <1>9, <1>u, <2>0, <2>1, AtTyped, StillGood DEF RefreshRead, TokenInv
  <2>2. ASSUME NEW c \in Owner(r.refresh), Go(s, f, Call("refRead", c, r.refresh, 0))
        PROVE  TokenInv'
    <3>1. c \in Codes /\ Seen(c)
      BY <2>2 DEF Owner, Live, Seen
    <3>2. /\ Call("refRead", c, r.refresh, 0) \in Calls
          /\ Call("refRead", c, r.refresh, 0).pc = "refRead"
          /\ Call("refRead", c, r.refresh, 0).code = c
      BY <2>0, <3>1, CallTyped
    <3> QED BY <1>9, <1>u, <2>2, <3>1, <3>2, StillGood DEF RefreshRead, TokenInv
  <2> QED BY <1>9, <2>1, <2>2 DEF RefreshRead
<1>10. ASSUME NEW s \in Screens, NEW c \in Codes, SubmitCode(s, c) PROVE TokenInv'
  <2>1. /\ Call("actSent", c, 0, 0) \in Calls /\ Call("actSent", c, 0, 0).pc = "actSent"
        /\ Call("actSent", c, 0, 0).code = c
    BY CallTyped
  <2> QED BY <1>10, <1>f, <1>u, <2>1, StillGood DEF SubmitCode, TokenInv
<1>11. ASSUME NEW s \in Screens, NEW f \in Fibers, HandlerFails(s, f) PROVE TokenInv'
  BY <1>11, <1>r, <1>u, AtTyped, StillGood DEF HandlerFails, TokenInv
<1>12. ASSUME NEW s \in Screens, NEW f \in Fibers,
              Lost(s, f) \/ RefusedReply(s, f) \/ ServeData(s, f) \/ DenyData(s, f)
       PROVE  TokenInv'
  <2>1. Go(s, f, Idle) /\ UNCHANGED <<row, now>>
    BY <1>12 DEF Lost, RefusedReply, ServeData, DenyData
  <2>2. CarriedGood' /\ ReadFresh' /\ AskedKnown'
    BY <1>i, <2>1, StillGood
  <2>3. \A t \in Screens : store'[t] = store[t] \/ store'[t].access = NoToken
    BY <1>12 DEF Lost, RefusedReply, ServeData, DenyData, Empty, TypeOK
  <2>4. \A c, e : Good(c, e) => Good(c, e)'
    BY <2>1 DEF Good
  <2> QED BY <2>2, <2>3, <2>4 DEF TokenInv, StoredGood
<1>13. ASSUME NEW s \in Screens, NEW f \in Fibers,
              (f = "form" /\ ActivateReply(s)) \/ RefreshReply(s, f)
       PROVE  TokenInv'
  <2> DEFINE r == fetches[s][f]
             n == Call("data", r.code, 0, r.exp)
  <2>1. r \in Calls /\ Good(r.code, r.exp) /\ UNCHANGED <<row, now>>
    BY <1>13, <1>r DEF ActivateReply, RefreshReply, TokenInv, CarriedGood
  <2>2. n \in Calls /\ n.pc = "data" /\ n.code = r.code /\ n.exp = r.exp
    <3>1. r.code \in Codes \cup {"none"} /\ r.exp \in Nat
      BY <2>1, CallParts
    <3> QED BY <3>1 DEF Call, Calls
  <2>3. Go(s, f, Idle) \/ Go(s, f, n)
    BY <1>13 DEF ActivateReply, RefreshReply
  <2>4. CarriedGood' /\ ReadFresh' /\ AskedKnown'
    BY <1>i, <2>1, <2>2, <2>3, StillGood
  <2>5. \A t \in Screens : \/ store'[t] = store[t]
                           \/ store'[t].access = [code |-> r.code, exp |-> r.exp]
    BY <1>13 DEF ActivateReply, RefreshReply, SaveTokens, TypeOK
  <2>6. \A c, e : Good(c, e) => Good(c, e)'
    BY <2>1 DEF Good
  <2>7. \A c, e : c = r.code /\ e = r.exp => Good(c, e)'
    BY <2>1, <2>6
  <2>8. ASSUME NEW t \in Screens, store'[t].access # NoToken
        PROVE  Good(store[t].access.code, store[t].access.exp)'
    <3>1. CASE store'[t] = store[t]
      BY <2>6, <2>8, <3>1 DEF TokenInv, StoredGood
    <3>2. CASE store'[t].access = [code |-> r.code, exp |-> r.exp]
      BY <2>7, <3>2
    <3> QED BY <2>5, <3>1, <3>2
  <2> QED BY <2>4, <2>8 DEF TokenInv, StoredGood
<1>14. ASSUME NEW s \in Screens, NEW q \in Fibers, Poll(s, q) PROVE TokenInv'
  <2> DEFINE n1 == Call("refSent", "none", store[s].refresh, 0)
             n2 == Call("data", store[s].access.code, 0, store[s].access.exp)
  <2>1. /\ n1 \in Calls /\ n1.pc = "refSent" /\ n2 \in Calls /\ n2.pc = "data"
        /\ n2.code = store[s].access.code /\ n2.exp = store[s].access.exp
    <3>1. /\ store[s].refresh \in Nat /\ store[s].access.exp \in Nat
          /\ store[s].access.code \in Codes \cup {"none"}
      BY DEF TypeOK, Stores, Tokens
    <3> QED BY <3>1 DEF Call, Calls
  <2>2. UNCHANGED <<row, now, store>>
    BY <1>14 DEF Poll
  <2>3. CASE Renew(s)
    BY <1>14, <1>u, <2>1, <2>2, <2>3, StillGood DEF Poll, TokenInv
  <2>4. CASE ~Renew(s)
    <3>1. Go(s, q, n2) /\ Good(n2.code, n2.exp)
      BY <1>14, <2>1, <2>4 DEF Poll, Renew, TokenInv, StoredGood
    <3> QED BY <1>u, <2>1, <2>2, <3>1, StillGood DEF TokenInv
  <2> QED BY <2>3, <2>4
<1>15. CASE UNCHANGED vars
  BY <1>15, KeptGood DEF vars, Good, Seen
<1>16. ASSUME NEW s \in Screens, ActivateHalf(s) PROVE TokenInv'
  <2> DEFINE r == fetches[s]["form"]
             n == At("refused", r)
  <2>1. r.pc = "actRead" /\ Seen(r.code) /\ r \in Calls
    BY <1>16, <1>f, <1>r DEF ActivateHalf, TokenInv, ReadFresh
  <2>2. n \in Calls /\ n.pc = "refused"
    BY <2>1, AtTyped
  <2>3. \A c \in Codes : row'[c].state = row[c].state /\ row'[c].at = row[c].at
    BY <1>16, <2>1 DEF ActivateHalf, Row, Seen, TypeOK
  <2>4. UNCHANGED <<now, store>> /\ Go(s, "form", n)
    BY <1>16 DEF ActivateHalf
  <2>5. (\A c, e : Good(c, e) => Good(c, e)') /\ (\A c : Seen(c) => Seen(c)')
    BY <2>3, <2>4 DEF Good, Seen
  <2>6. /\ fetches'[s]["form"] = n
        /\ \A t \in Screens, g \in Fibers :
             (t # s \/ g # "form") => fetches'[t][g] = fetches[t][g]
    BY <1>f, <2>2, <2>4, GoTyped
  <2>7. StoredGood'
    BY <2>4, <2>5 DEF TokenInv, StoredGood
  <2>8. CarriedGood' /\ ReadFresh' /\ AskedKnown'
    BY <2>2, <2>5, <2>6 DEF TokenInv, CarriedGood, ReadFresh, AskedKnown
  <2> QED BY <2>7, <2>8 DEF TokenInv
<1> QED
  BY <1>1, <1>2, <1>3, <1>4, <1>5, <1>6, <1>7, <1>8, <1>9, <1>10, <1>11, <1>12,
     <1>13, <1>14, <1>15, <1>16, <1>f DEF Next

\* A revoked profile's screens see nothing later than one access-token lifetime
\* after the revocation, whatever handlers were running when the row went.
THEOREM WallboardRevokedGoesDark == Spec => []RevokedGoesDark
<1>1. TokenInv => RevokedGoesDark
  <2> SUFFICES ASSUME TokenInv, NEW c \in Codes, NEW e \in 0 .. now + AccessTTL,
                      Held(c, e), row[c].state = "revoked"
               PROVE  e <= row[c].at + AccessTTL
    BY DEF RevokedGoesDark
  <2>1. PICK s \in Screens :
          \/ store[s].access = [code |-> c, exp |-> e]
          \/ \E f \in Fibers : /\ fetches[s][f].pc \in {"actOk", "refOk", "data"}
                               /\ fetches[s][f].code = c /\ fetches[s][f].exp = e
    BY DEF Held
  <2>2. CASE store[s].access = [code |-> c, exp |-> e]
    <3>1. store[s].access # NoToken
      BY <2>2, WallboardAssumption DEF NoToken
    <3> QED BY <2>2, <3>1 DEF TokenInv, StoredGood, Good
  <2>3. CASE \E f \in Fibers : /\ fetches[s][f].pc \in {"actOk", "refOk", "data"}
                               /\ fetches[s][f].code = c /\ fetches[s][f].exp = e
    BY <2>3 DEF TokenInv, CarriedGood, Good
  <2> QED BY <2>1, <2>2, <2>3
<1> QED
  BY <1>1, WallboardTypeInit, WallboardTypeStep, TokenInit, TokenStep, PTL DEF Spec

----------------------------------------------------------------------------
(* A refresh token is drawn for one screen and never leaves it.            *)

Carries(s, x) == store[s].refresh = x \/ \E f \in Fibers : fetches[s][f].refresh = x

RenewInv ==
    /\ \A s \in Screens : \A x \in Nat : Carries(s, x) => x <= drawn
    /\ \A s, t \in Screens : \A x \in Nat : Carries(s, x) /\ Carries(t, x) => s = t \/ x = 0
    /\ \A c \in Codes : row[c].state = "live" => row[c].hash # 0

\* No step but an activation gives a screen a token it did not have.
LEMMA CarriesStep ==
    ASSUME TypeOK, [Next]_vars, NEW t \in Screens, NEW x \in Nat, Carries(t, x)',
           x # 0, ~Carries(t, x)
    PROVE  ActivateWrite(t) /\ x = drawn + 1
<1> USE WallboardAssumption
<1>f. "form" \in Fibers /\ Queries \subseteq Fibers
  BY DEF Fibers
<1>r. \A s \in Screens, f \in Fibers : fetches[s][f] \in Calls
  BY DEF TypeOK
<1>i. Idle \in Calls /\ Idle.refresh = 0
  BY CallTyped DEF Idle
<1>s. \A s \in Screens : store[s].refresh \in Nat
  BY DEF TypeOK, Stores
<1>g. ASSUME NEW s \in Screens, NEW f \in Fibers, NEW r \in Calls, Go(s, f, r),
             s = t => Carries(s, r.refresh) \/ r.refresh # x,
             store'[t].refresh = x => Carries(t, x)
      PROVE  FALSE
  BY <1>g, GoTyped DEF Carries
<1>1. CASE Tick \/ (\E c \in Codes : GenerateCode(c) \/ RevokeCode(c)) \/ UNCHANGED vars
  BY <1>1 DEF Tick, GenerateCode, RevokeCode, vars, Carries
<1>2. ASSUME NEW s \in Screens, Mount(s) PROVE FALSE
  <2>1. /\ Call("refSent", "none", store[s].refresh, 0) \in Calls
        /\ Call("refSent", "none", store[s].refresh, 0).refresh = store[s].refresh
    BY <1>s, CallTyped
  <2>2. store' = store
    BY <1>2 DEF Mount
  <2> QED BY <1>2, <1>i, <2>1, <2>2, MountTyped DEF Carries
<1>3. ASSUME NEW s \in Screens, Disconnect(s) PROVE FALSE
  BY <1>3 DEF Disconnect, Carries, Empty, TypeOK
<1>4. ASSUME NEW s \in Screens, NEW f \in Fibers, NEW r \in Calls,
             Go(s, f, r), r.refresh = fetches[s][f].refresh \/ r.refresh = 0
                          \/ r.refresh = store[s].refresh,
             store'[t].refresh = store[t].refresh \/ store'[t].refresh = 0
      PROVE  FALSE
  BY <1>4, <1>g DEF Carries
<1>5. ASSUME NEW s \in Screens, ActivateRead(s) PROVE FALSE
  <2> DEFINE r == fetches[s]["form"]
             n == At(IF Live(r.code) THEN "actRead" ELSE "refused", r)
  <2>1. n \in Calls /\ n.refresh = r.refresh
    BY <1>f, <1>r, AtTyped
  <2> QED BY <1>4, <1>5, <1>f, <2>1 DEF ActivateRead
<1>6. ASSUME NEW s \in Screens, ActivateWrite(s)
      PROVE  ActivateWrite(t) /\ x = drawn + 1
  <2> DEFINE r == fetches[s]["form"]
             n == Call("actOk", r.code, drawn + 1, now + AccessTTL)
  <2>1. r.code \in Codes \cup {"none"} /\ now + AccessTTL \in Nat /\ drawn + 1 \in Nat
    BY <1>f, <1>r, CallParts DEF TypeOK
  <2>2. n \in Calls /\ n.refresh = drawn + 1
    BY <2>1 DEF Call, Calls
  <2>3. Go(s, "form", n) /\ store' = store
    BY <1>6 DEF ActivateWrite
  <2>4. ~(s = t /\ x = drawn + 1) => FALSE
    <3>1. \A g \in Fibers : fetches'[t][g].refresh = x =>
             fetches'[t][g] = fetches[t][g] \/ (t = s /\ x = drawn + 1)
      BY <1>f, <2>2, <2>3, GoTyped
    <3> QED BY <2>3, <3>1 DEF Carries
  <2> QED BY <1>6, <2>4
<1>7. ASSUME NEW s \in Screens, NEW f \in Fibers, RefreshWrite(s, f) PROVE FALSE
  <2> DEFINE r == fetches[s][f]
             n == Call("refOk", r.code, r.refresh, now + AccessTTL)
  <2>1. r.code \in Codes \cup {"none"} /\ now + AccessTTL \in Nat /\ r.refresh \in Nat
    BY <1>r, CallParts DEF TypeOK
  <2>2. n \in Calls /\ n.refresh = r.refresh
    BY <2>1 DEF Call, Calls
  <2> QED BY <1>4, <1>7, <2>2 DEF RefreshWrite
<1>8. ASSUME NEW s \in Screens, NEW f \in Fibers, RefreshRead(s, f) PROVE FALSE
  <2> DEFINE r == fetches[s][f]
  <2>1. r \in Calls /\ r.refresh \in Nat
    BY <1>r, CallParts
  <2>2. /\ At("refused", r) \in Calls /\ At("refused", r).refresh = r.refresh
        /\ \A c \in Codes : /\ Call("refRead", c, r.refresh, 0) \in Calls
                            /\ Call("refRead", c, r.refresh, 0).refresh = r.refresh
    BY <2>1, AtTyped DEF Call, Calls
  <2>3. PICK n \in Calls : Go(s, f, n) /\ n.refresh = r.refresh
    BY <1>8, <2>2 DEF RefreshRead, Owner
  <2>4. store' = store
    BY <1>8 DEF RefreshRead
  <2> QED BY <1>4, <2>3, <2>4
<1>9. ASSUME NEW s \in Screens, NEW c \in Codes, SubmitCode(s, c) PROVE FALSE
  <2>1. Call("actSent", c, 0, 0) \in Calls /\ Call("actSent", c, 0, 0).refresh = 0
    BY CallTyped
  <2> QED BY <1>4, <1>9, <1>f, <2>1 DEF SubmitCode
<1>10. ASSUME NEW s \in Screens, NEW f \in Fibers, HandlerFails(s, f) PROVE FALSE
  <2>1. /\ At("refused", fetches[s][f]) \in Calls
        /\ At("refused", fetches[s][f]).refresh = fetches[s][f].refresh
    BY <1>r, AtTyped
  <2> QED BY <1>4, <1>10, <2>1 DEF HandlerFails
<1>11. ASSUME NEW s \in Screens, NEW f \in Fibers,
              Lost(s, f) \/ RefusedReply(s, f) \/ ServeData(s, f) \/ DenyData(s, f)
       PROVE  FALSE
  <2>1. Go(s, f, Idle)
    BY <1>11 DEF Lost, RefusedReply, ServeData, DenyData
  <2>2. store'[t].refresh = store[t].refresh \/ store'[t].refresh = 0
    BY <1>11 DEF Lost, RefusedReply, ServeData, DenyData, Empty, TypeOK
  <2> QED BY <1>4, <1>i, <2>1, <2>2
<1>12. ASSUME NEW s \in Screens, NEW f \in Fibers,
              (f = "form" /\ ActivateReply(s)) \/ RefreshReply(s, f)
       PROVE  FALSE
  <2> DEFINE r == fetches[s][f]
             n == Call("data", r.code, 0, r.exp)
  <2>1. r.code \in Codes \cup {"none"} /\ r.exp \in Nat /\ r.refresh \in Nat
    BY <1>r, CallParts
  <2>2. n \in Calls /\ n.refresh = 0
    BY <2>1 DEF Call, Calls
  <2>3. Go(s, f, Idle) \/ Go(s, f, n)
    BY <1>12 DEF ActivateReply, RefreshReply
  <2>4. store'[t].refresh = x => Carries(t, x)
    <3>1. CASE t # s
      BY <1>12, <3>1 DEF ActivateReply, RefreshReply, SaveTokens, Carries, TypeOK
    <3>2. CASE t = s /\ ActivateReply(s) /\ f = "form"
      <4>1. store'[s].refresh = r.refresh \/ store'[s].refresh = store[s].refresh
        BY <3>2 DEF ActivateReply, SaveTokens, TypeOK
      <4> QED BY <3>2, <4>1 DEF Carries
    <3>3. CASE t = s /\ RefreshReply(s, f)
      BY <3>3 DEF RefreshReply, SaveTokens, Carries, TypeOK
    <3> QED BY <1>12, <3>1, <3>2, <3>3
  <2> QED BY <1>g, <1>i, <2>2, <2>3, <2>4
<1>13. ASSUME NEW s \in Screens, NEW q \in Fibers, Poll(s, q) PROVE FALSE
  <2> DEFINE n1 == Call("refSent", "none", store[s].refresh, 0)
             n2 == Call("data", store[s].access.code, 0, store[s].access.exp)
  <2>1. /\ store[s].refresh \in Nat /\ store[s].access.exp \in Nat
        /\ store[s].access.code \in Codes \cup {"none"}
    BY DEF TypeOK, Stores, Tokens
  <2>2. n1 \in Calls /\ n1.refresh = store[s].refresh /\ n2 \in Calls /\ n2.refresh = 0
    BY <2>1 DEF Call, Calls
  <2>3. (Go(s, q, n1) \/ Go(s, q, n2)) /\ store' = store
    BY <1>13 DEF Poll
  <2> QED BY <1>4, <2>2, <2>3
<1>14. ASSUME NEW s \in Screens, ActivateHalf(s) PROVE FALSE
  <2>1. /\ At("refused", fetches[s]["form"]) \in Calls
        /\ At("refused", fetches[s]["form"]).refresh = fetches[s]["form"].refresh
    BY <1>f, <1>r, AtTyped
  <2> QED BY <1>4, <1>14, <1>f, <2>1 DEF ActivateHalf
<1> QED
  BY <1>1, <1>2, <1>3, <1>5, <1>6, <1>7, <1>8, <1>9, <1>10, <1>11, <1>12, <1>13,
     <1>14, <1>f DEF Next

\* A live row's hash was drawn, so it is not the absent token.
LEMMA HashStep ==
    ASSUME TypeOK, [Next]_vars, NEW c \in Codes, row'[c].state = "live",
           row[c].state = "live" => row[c].hash # 0
    PROVE  row'[c].hash # 0
<1> USE WallboardAssumption DEF TypeOK, Row, Rows
<1>1. CASE UNCHANGED row
  BY <1>1
<1>2. ASSUME NEW d \in Codes, GenerateCode(d) \/ RevokeCode(d) PROVE row'[c].hash # 0
  BY <1>2 DEF GenerateCode, RevokeCode
<1>3. ASSUME NEW s \in Screens, ActivateWrite(s) PROVE row'[c].hash # 0
  BY <1>3 DEF ActivateWrite
<1>4. ASSUME NEW s \in Screens, NEW f \in Fibers, RefreshWrite(s, f) PROVE row'[c].hash # 0
  BY <1>4 DEF RefreshWrite
<1>5. ASSUME NEW s \in Screens, ActivateHalf(s) PROVE row'[c].hash # 0
  BY <1>5 DEF ActivateHalf
<1> QED
  BY <1>1, <1>2, <1>3, <1>4, <1>5 DEF Next, vars, Tick, Mount, Disconnect, ActivateRead,
     ActivateReply, SubmitCode, HandlerFails, RefusedReply, Lost, RefreshRead,
     RefreshReply, Poll, ServeData, DenyData

(* Refresh tokens are drawn one after the other. *)
LEMMA DrawnGrows == TypeOK /\ [Next]_vars => drawn' \in Nat /\ drawn <= drawn'
<1> SUFFICES ASSUME TypeOK, [Next]_vars PROVE drawn' = drawn \/ drawn' = drawn + 1
  BY DEF TypeOK
<1>1. CASE UNCHANGED drawn
  BY <1>1
<1>2. ASSUME NEW c \in Codes, GenerateCode(c) PROVE drawn' = drawn + 1
  BY <1>2 DEF GenerateCode
<1>3. ASSUME NEW s \in Screens, ActivateWrite(s) PROVE drawn' = drawn + 1
  BY <1>3 DEF ActivateWrite
<1> QED
  BY <1>1, <1>2, <1>3 DEF Next, vars, Tick, RevokeCode, Mount, Disconnect, ActivateRead,
     ActivateHalf, ActivateReply, SubmitCode, HandlerFails, RefusedReply, Lost, RefreshRead,
     RefreshWrite, RefreshReply, Poll, ServeData, DenyData

(* No step gives a refresh token to a second screen. *)
LEMMA RenewStep == TypeOK /\ RenewInv /\ [Next]_vars => RenewInv'
<1> SUFFICES ASSUME TypeOK, RenewInv, [Next]_vars PROVE RenewInv'
  OBVIOUS
<1>0. drawn \in Nat /\ drawn' \in Nat /\ drawn <= drawn'
  BY DrawnGrows DEF TypeOK
<1>1. ASSUME NEW s \in Screens, NEW x \in Nat, Carries(s, x)' PROVE x <= drawn'
  <2>1. CASE x = 0 \/ Carries(s, x)
    BY <1>0, <2>1 DEF RenewInv
  <2>2. CASE x # 0 /\ ~Carries(s, x)
    <3>1. ActivateWrite(s) /\ x = drawn + 1
      BY <1>1, <2>2, CarriesStep
    <3> QED BY <3>1 DEF ActivateWrite
  <2> QED BY <2>1, <2>2
<1>2. ASSUME NEW s \in Screens, NEW t \in Screens, NEW x \in Nat,
             Carries(s, x)', Carries(t, x)', x # 0
      PROVE  s = t
  <2>1. CASE Carries(s, x) /\ Carries(t, x)
    BY <1>2, <2>1 DEF RenewInv
  <2>2. CASE Carries(s, x) /\ ~Carries(t, x)
    <3>1. x = drawn + 1
      BY <1>2, <2>2, CarriesStep
    <3> QED BY <1>0, <2>2, <3>1 DEF RenewInv
  <2>3. CASE ~Carries(s, x) /\ Carries(t, x)
    <3>1. x = drawn + 1
      BY <1>2, <2>3, CarriesStep
    <3> QED BY <1>0, <2>3, <3>1 DEF RenewInv
  <2>4. CASE ~Carries(s, x) /\ ~Carries(t, x)
    <3>1. ActivateWrite(s) /\ ActivateWrite(t)
      BY <1>2, <2>4, CarriesStep
    <3>2. fetches[s]["form"].pc = "actRead" /\ fetches'[t]["form"].pc = "actOk"
          /\ (s # t => fetches'[t]["form"] = fetches[t]["form"])
          /\ fetches[t]["form"].pc = "actRead"
      BY <3>1 DEF ActivateWrite, Go, Call, TypeOK, Fibers
    <3> QED BY <3>2
  <2> QED BY <2>1, <2>2, <2>3, <2>4
<1>3. ASSUME NEW c \in Codes, row'[c].state = "live" PROVE row'[c].hash # 0
  BY <1>3, HashStep DEF RenewInv
<1> QED BY <1>1, <1>2, <1>3 DEF RenewInv

\* Two screens never both hold the refresh token a live code accepts.
THEOREM WallboardOneRenewer == Spec => []OneRenewerPerCode
<1>1. Init => RenewInv
  BY DEF Init, RenewInv, Carries, Empty, Idle, Call, Row
<1>2. TypeOK /\ RenewInv => OneRenewerPerCode
  <2> SUFFICES ASSUME TypeOK, RenewInv, NEW c \in Codes, row[c].state = "live",
                      NEW s \in Screens, NEW t \in Screens,
                      row[c].hash \in RefreshOf(s) \cap RefreshOf(t)
               PROVE  s = t
    BY DEF OneRenewerPerCode
  <2>1. row[c].hash \in Nat
    BY DEF TypeOK, Rows
  <2>2. Carries(s, row[c].hash) /\ Carries(t, row[c].hash)
    BY DEF RefreshOf, Carries
  <2> QED BY <2>1, <2>2 DEF RenewInv
<1> QED
  BY <1>1, <1>2, WallboardTypeInit, WallboardTypeStep, RenewStep, PTL DEF Spec

\* An activation on its way was submitted since the last Disconnect, or was on
\* its way then: without one no answer can store a refresh token.
FormKnown == \A s \in Screens : entered[s] = "no" => fetches[s]["form"].pc = "idle"

(* Only the submission of a code sends an activation. *)
LEMMA FormStep == TypeOK /\ FormKnown /\ [Next]_vars => FormKnown'
<1> SUFFICES ASSUME TypeOK, FormKnown, [Next]_vars, NEW s \in Screens, entered'[s] = "no"
             PROVE  fetches'[s]["form"].pc = "idle"
  BY DEF FormKnown
<1> USE WallboardAssumption
<1>f. "form" \in Fibers /\ "form" \notin Queries
  BY DEF Fibers
<1>i. Idle \in Calls /\ Idle.pc = "idle"
  BY CallTyped DEF Idle
<1>k. entered[s] = "no" => fetches[s]["form"].pc = "idle"
  BY DEF FormKnown
<1>1. CASE UNCHANGED <<fetches, entered>>
  BY <1>1, <1>k
<1>2. ASSUME NEW t \in Screens, Mount(t) PROVE fetches'[s]["form"].pc = "idle"
  BY <1>2, <1>f, <1>i, <1>k DEF Mount, TypeOK
<1>3. ASSUME NEW t \in Screens, Disconnect(t) PROVE fetches'[s]["form"].pc = "idle"
  BY <1>3, <1>k DEF Disconnect, Forget, TypeOK
<1>4. ASSUME NEW t \in Screens, NEW c \in Codes, SubmitCode(t, c)
      PROVE  fetches'[s]["form"].pc = "idle"
  <2>1. s # t
    BY <1>4 DEF SubmitCode, TypeOK
  <2> QED BY <1>4, <1>k, <2>1 DEF SubmitCode, Go, TypeOK
<1>5. ASSUME NEW t \in Screens, ActivateReply(t) PROVE fetches'[s]["form"].pc = "idle"
  <2>1. entered[s] = "no"
    BY <1>5 DEF ActivateReply, TypeOK
  <2> QED BY <1>5, <1>f, <1>i, <1>k, <2>1, GoTyped DEF ActivateReply
<1>6. ASSUME NEW t \in Screens, entered' = entered, t # s \/ fetches[t]["form"].pc # "idle",
             ActivateRead(t) \/ ActivateWrite(t) \/ ActivateHalf(t)
      PROVE  fetches'[s]["form"].pc = "idle"
  <2>1. t # s
    BY <1>6, <1>k
  <2> QED BY <1>6, <1>k, <2>1 DEF ActivateRead, ActivateWrite, ActivateHalf, Go, TypeOK
<1>7. ASSUME NEW t \in Screens, NEW f \in Fibers,
             HandlerFails(t, f) \/ RefusedReply(t, f) \/ Lost(t, f)
      PROVE  fetches'[s]["form"].pc = "idle"
  <2>1. entered[s] = "no"
    BY <1>7 DEF HandlerFails, RefusedReply, Lost
  <2>2. t # s \/ f # "form"
    BY <1>7, <1>k, <2>1 DEF HandlerFails, RefusedReply, Lost
  <2> QED BY <1>7, <1>f, <1>k, <2>1, <2>2 DEF HandlerFails, RefusedReply, Lost, Go, TypeOK
<1>8. ASSUME NEW t \in Screens, NEW f \in Fibers \ {"form"},
             RefreshRead(t, f) \/ RefreshWrite(t, f) \/ RefreshReply(t, f)
      PROVE  fetches'[s]["form"].pc = "idle"
  BY <1>8, <1>f, <1>k DEF RefreshRead, RefreshWrite, RefreshReply, Go, TypeOK
<1>9. ASSUME NEW t \in Screens, NEW q \in Queries,
             Poll(t, q) \/ ServeData(t, q) \/ DenyData(t, q)
      PROVE  fetches'[s]["form"].pc = "idle"
  BY <1>9, <1>f, <1>k DEF Poll, ServeData, DenyData, Go, TypeOK
<1>10. ASSUME NEW t \in Screens, ActivateRead(t) \/ ActivateWrite(t) \/ ActivateHalf(t)
       PROVE  fetches'[s]["form"].pc = "idle"
  <2>1. entered' = entered /\ fetches[t]["form"].pc # "idle"
    BY <1>10 DEF ActivateRead, ActivateWrite, ActivateHalf
  <2> QED BY <1>6, <1>10, <2>1
<1> QED
  BY <1>1, <1>2, <1>3, <1>4, <1>5, <1>7, <1>8, <1>9, <1>10
     DEF Next, vars, Tick, GenerateCode, RevokeCode

\* After Disconnect a refresh token comes back only through a code entered since
\* or through an activation that was on its way when the button was pressed;
\* never through a poll or a silent refresh.
THEOREM WallboardDisconnectEndsRenewal == Spec => []DisconnectEndsRenewal
<1>1. Init => FormKnown /\ DisconnectEndsRenewal
  BY DEF Init, FormKnown, DisconnectEndsRenewal, Empty, Idle, Call, Fibers
<1>2. TypeOK /\ FormKnown /\ DisconnectEndsRenewal /\ [Next]_vars => DisconnectEndsRenewal'
  <2> SUFFICES ASSUME TypeOK, FormKnown, DisconnectEndsRenewal, [Next]_vars,
                      NEW s \in Screens, entered'[s] # "yes"
               PROVE  store'[s].refresh = 0
    BY DEF DisconnectEndsRenewal
  <2>1. CASE UNCHANGED <<store, entered>>
    BY <2>1 DEF DisconnectEndsRenewal
  <2>2. ASSUME NEW t \in Screens, Disconnect(t) PROVE store'[s].refresh = 0
    BY <2>2 DEF Disconnect, Forget, DisconnectEndsRenewal, Empty, TypeOK
  <2>3. ASSUME NEW t \in Screens, ActivateReply(t) PROVE store'[s].refresh = 0
    <3>1. fetches[t]["form"].pc # "idle"
      BY <2>3 DEF ActivateReply
    <3>2. entered[t] \in {"yes", "form"}
      BY <3>1 DEF FormKnown, TypeOK
    <3>3. s # t
      BY <2>3, <3>2 DEF ActivateReply, TypeOK
    <3> QED BY <2>3, <3>3 DEF ActivateReply, SaveTokens, DisconnectEndsRenewal, TypeOK
  <2>4. ASSUME NEW t \in Screens, NEW f \in Fibers, RefreshReply(t, f)
        PROVE  store'[s].refresh = 0
    BY <2>4 DEF RefreshReply, SaveTokens, DisconnectEndsRenewal, TypeOK
  <2>5. ASSUME NEW t \in Screens, NEW f \in Fibers, RefusedReply(t, f)
        PROVE  store'[s].refresh = 0
    BY <2>5 DEF RefusedReply, DisconnectEndsRenewal, Empty, TypeOK
  <2>6. ASSUME NEW t \in Screens, NEW c \in Codes, SubmitCode(t, c)
        PROVE  store'[s].refresh = 0
    BY <2>6 DEF SubmitCode, DisconnectEndsRenewal, TypeOK
  <2> QED
    BY <2>1, <2>2, <2>3, <2>4, <2>5, <2>6 DEF Next, vars, Tick, GenerateCode, RevokeCode,
       Mount, ActivateRead, ActivateWrite, ActivateHalf, HandlerFails, Lost,
       RefreshRead, RefreshWrite, Poll, ServeData, DenyData
<1> QED
  BY <1>1, <1>2, WallboardTypeInit, WallboardTypeStep, FormStep, PTL DEF Spec
=============================================================================
