---------------------------- MODULE WallboardTV ----------------------------
(***************************************************************************)
(* The sessions of the wall-mounted screens.  A profile row (code, refresh *)
(* hash, expiry) lives in the Reader's database; a screen keeps the two    *)
(* tokens it was given in localStorage and runs several fetches at once:   *)
(* the silent refresh of a page load ("mount"), the activation form        *)
(* ("form") and one fetch per react-query hook (Queries).                  *)
(*                                                                         *)
(* Time is counted in ticks.  A handler of the Reader finishes within the  *)
(* tick in which it read its row; a request or a reply may travel longer.  *)
(***************************************************************************)
EXTENDS Naturals

CONSTANTS
    Screens,      \* browsers that open /tv
    Codes,        \* profiles: rows of wallboard_tokens, one code each
    Queries,      \* the useWb* hooks that poll while the dashboard is mounted
    AccessTTL,    \* accessTokenTTL, 1 hour
    RenewMargin,  \* a token is renewed when it has less than this left, 5 min
    RefreshTTL,   \* refreshTokenTTL, 30 days
    MaxClock,     \* bound: ticks
    MaxHash       \* bound: refresh tokens ever drawn

ASSUME WallboardAssumption ==
    /\ AccessTTL \in Nat \ {0} /\ RenewMargin \in Nat /\ RefreshTTL \in Nat
    /\ MaxClock \in Nat /\ MaxHash \in Nat
    /\ {"mount", "form"} \cap Queries = {} /\ "none" \notin Codes

VARIABLES
    now,
    row,      \* [Codes -> the profile's row]
    drawn,    \* refresh tokens drawn so far: the next random value
    store,    \* [Screens -> localStorage]
    auth,     \* [Screens -> the page's `authenticated` state]
    fetches,  \* [Screens -> [Fibers -> the asynchronous call in progress]]
    entered   \* ghost: since the last Disconnect a code was entered ("yes"),
              \* or not ("no"), or not but a form was on its way then ("form")

vars == <<now, row, drawn, store, auth, fetches, entered>>

NoToken == [code |-> "none", exp |-> 0]
Empty == [access |-> NoToken, refresh |-> 0, expiresAt |-> 0]
\* A fetch: where it is, and the code or tokens it carries.
Call(pc, code, refresh, exp) ==
    [pc |-> pc, code |-> code, refresh |-> refresh, exp |-> exp]
Idle == Call("idle", "none", 0, 0)
\* The same fetch one step further.
At(pc, r) == Call(pc, r.code, r.refresh, r.exp)

Row(state, hash, expires, at) ==
    [state |-> state, hash |-> hash, expires |-> expires, at |-> at]

Fibers == {"mount", "form"} \cup Queries

Tokens == [code : Codes \cup {"none"}, exp : Nat]
Rows == [state : {"none", "live", "revoked"}, hash : Nat, expires : Nat, at : Nat]
Stores == [access : Tokens, refresh : Nat, expiresAt : Nat]
Calls == [pc : {"idle", "actSent", "actRead", "actOk", "refSent", "refRead",
                "refOk", "refused", "data"},
          code : Codes \cup {"none"}, refresh : Nat, exp : Nat]

\* The shape of the state.
TypeOK ==
    /\ now \in Nat /\ drawn \in Nat
    /\ row \in [Codes -> Rows]
    /\ store \in [Screens -> Stores]
    /\ auth \in [Screens -> BOOLEAN]
    /\ fetches \in [Screens -> [Fibers -> Calls]]
    /\ entered \in [Screens -> {"yes", "no", "form"}]

Init ==
    /\ now = 0 /\ drawn = 0
    /\ row = [c \in Codes |-> Row("none", 0, 0, 0)]
    /\ store = [s \in Screens |-> Empty]
    /\ auth = [s \in Screens |-> FALSE]
    /\ fetches = [s \in Screens |-> [f \in Fibers |-> Idle]]
    /\ entered = [s \in Screens |-> "no"]

Go(s, f, r) == fetches' = [fetches EXCEPT ![s][f] = r]

----------------------------------------------------------------------------
(* Settings -> Wallboard: profiles are created and revoked.                *)

GenerateCode(c) ==
    /\ row[c].state = "none" /\ drawn < MaxHash
    /\ drawn' = drawn + 1
    /\ row' = [row EXCEPT ![c] = Row("live", drawn + 1, now + RefreshTTL, now)]
    /\ UNCHANGED <<now, store, auth, fetches, entered>>

\* DeleteByID removes the row; the access tokens already signed stay valid.
RevokeCode(c) ==
    /\ row[c].state = "live"
    /\ row' = [row EXCEPT ![c] = Row("revoked", row[c].hash, row[c].expires, now)]
    /\ UNCHANGED <<now, drawn, store, auth, fetches, entered>>

----------------------------------------------------------------------------
(* The page: TVPage shows the activation form or the dashboard.            *)

Screen(s) == IF auth[s] THEN "dashboard" ELSE "activation"

\* A page load reads localStorage; without an unexpired access token it tries
\* a silent refresh.  What the previous page had asked for is forgotten: its
\* requests that no handler has read are cancelled with the page; a handler
\* that has read its row goes on, so the reload comes before or after its two
\* steps and only the reply is lost.
Mount(s) ==
    /\ \A f \in Fibers : fetches[s][f].pc \notin {"actRead", "refRead"}
    /\ auth' = [auth EXCEPT
         ![s] = store[s].access # NoToken /\ now < store[s].expiresAt]
    /\ fetches' = [fetches EXCEPT ![s] = [f \in Fibers |->
         IF f = "mount" /\ ~auth'[s] /\ store[s].refresh # 0
         THEN Call("refSent", "none", store[s].refresh, 0)
         ELSE Idle]]
    /\ UNCHANGED <<now, row, drawn, store, entered>>

\* handleSubmit of the activation form, disabled while one is on its way.  (A
\* form whose page half was replaced by the dashboard and then by a new form
\* still counts: bound of one activation per screen at a time.)
SubmitCode(s, c) ==
    /\ Screen(s) = "activation" /\ fetches[s]["form"].pc = "idle"
    /\ Go(s, "form", Call("actSent", c, 0, 0))
    /\ entered' = [entered EXCEPT ![s] = "yes"]
    /\ UNCHANGED <<now, row, drawn, store, auth>>

\* Disconnect forgets the codes entered so far, but a form that is on its way
\* will still be answered.
Forget(s) == entered' = [entered EXCEPT
    ![s] = IF fetches[s]["form"].pc = "idle" THEN "no" ELSE "form"]

\* Mutant: the refresh token's key is missing from clearWbTokens.
DisconnectKeepsRefresh(s) ==
    /\ Screen(s) = "dashboard"
    /\ store' = [store EXCEPT ![s] = [Empty EXCEPT !.refresh = store[s].refresh]]
    /\ auth' = [auth EXCEPT ![s] = FALSE]
    /\ Forget(s)
    /\ UNCHANGED <<now, row, drawn, fetches>>

\* The Disconnect button.  Fetches of the dashboard keep running, and so does
\* an activation submitted before a silent refresh opened the dashboard.
Disconnect(s) ==
    /\ Screen(s) = "dashboard"
    /\ store' = [store EXCEPT ![s] = Empty]
    /\ auth' = [auth EXCEPT ![s] = FALSE]
    /\ Forget(s)
    /\ UNCHANGED <<now, row, drawn, fetches>>

\* wbFetch: a poll uses the stored access token, or renews it first when it is
\* missing or about to expire.  Without a refresh token the query fails.
Renew(s) == store[s].access = NoToken \/ now + RenewMargin > store[s].expiresAt

Poll(s, q) ==
    /\ Screen(s) = "dashboard" /\ fetches[s][q].pc = "idle"
    /\ Renew(s) => store[s].refresh # 0
    /\ Go(s, q, IF Renew(s)
                THEN Call("refSent", "none", store[s].refresh, 0)
                ELSE Call("data", store[s].access.code, 0, store[s].access.exp))
    /\ UNCHANGED <<now, row, drawn, store, auth, entered>>

----------------------------------------------------------------------------
(* The Reader's handlers, one step for the SELECT that decides and one for *)
(* the statements after it: another handler may run in between.            *)

\* Mutant: a revoked row is kept and only its expiry is looked at.
LiveUntilExpiry(c) == row[c].state # "none" /\ now < row[c].expires

Live(c) == row[c].state = "live" /\ now < row[c].expires

ActivateRead(s) ==
    LET r == fetches[s]["form"] IN
    /\ r.pc = "actSent"
    /\ Go(s, "form", At(IF Live(r.code) THEN "actRead" ELSE "refused", r))
    /\ UNCHANGED <<now, row, drawn, store, auth, entered>>

\* Mutant: the activation hands out the refresh token the row already has.
ActivateWriteKeepsHash(s) ==
    LET r == fetches[s]["form"] IN
    /\ r.pc = "actRead"
    /\ row' = [row EXCEPT ![r.code].expires = now + RefreshTTL]
    /\ Go(s, "form", Call("actOk", r.code, row[r.code].hash, now + AccessTTL))
    /\ UNCHANGED <<now, drawn, store, auth, entered>>

\* RenewExpiry and UpdateRefreshHash touch no row that is gone; the tokens
\* are issued all the same.
ActivateWrite(s) ==
    LET r == fetches[s]["form"]
        live == row[r.code].state = "live" IN
    /\ r.pc = "actRead" /\ drawn < MaxHash
    /\ drawn' = drawn + 1
    /\ row' = IF live THEN [row EXCEPT ![r.code] = Row("live", drawn + 1,
                                             now + RefreshTTL, row[r.code].at)]
                      ELSE row
    /\ Go(s, "form", Call("actOk", r.code, drawn + 1, now + AccessTTL))
    /\ UNCHANGED <<now, store, auth, entered>>

\* The second UPDATE of Activate fails: the expiry is renewed, the hash is not,
\* and the answer is 500.
ActivateHalf(s) ==
    LET r == fetches[s]["form"]
        live == row[r.code].state = "live" IN
    /\ r.pc = "actRead"
    /\ row' = IF live THEN [row EXCEPT ![r.code] = Row("live", row[r.code].hash,
                                             now + RefreshTTL, row[r.code].at)]
                      ELSE row
    /\ Go(s, "form", At("refused", r))
    /\ UNCHANGED <<now, drawn, store, auth, entered>>

Owner(h) == {c \in Codes : Live(c) /\ row[c].hash = h}

RefreshRead(s, f) ==
    LET r == fetches[s][f] IN
    /\ r.pc = "refSent"
    /\ \/ \E c \in Owner(r.refresh) : Go(s, f, Call("refRead", c, r.refresh, 0))
       \/ Owner(r.refresh) = {} /\ Go(s, f, At("refused", r))
    /\ UNCHANGED <<now, row, drawn, store, auth, entered>>

\* The renewal of the row's expiry is attempted, its error ignored.
RefreshWrite(s, f) ==
    LET r == fetches[s][f] IN
    /\ r.pc = "refRead"
    /\ row' \in {row, [row EXCEPT ![r.code] = Row(row[r.code].state, row[r.code].hash,
                                             IF row[r.code].state = "live"
                                             THEN now + RefreshTTL
                                             ELSE row[r.code].expires,
                                             row[r.code].at)]}
    /\ Go(s, f, Call("refOk", r.code, r.refresh, now + AccessTTL))
    /\ UNCHANGED <<now, drawn, store, auth, entered>>

\* A statement of a handler fails before any has changed the row: 500.
HandlerFails(s, f) ==
    /\ fetches[s][f].pc \in {"actSent", "actRead", "refSent"}
    /\ Go(s, f, At("refused", fetches[s][f]))
    /\ UNCHANGED <<now, row, drawn, store, auth, entered>>

----------------------------------------------------------------------------
(* Replies.  A fetch that rejects (no reply at all) leaves localStorage as *)
(* it is; an answer that is not ok to a refresh clears it.                 *)

\* saveTokens, with the refresh token only when one came: h # 0.
SaveTokens(s, c, exp, h) ==
    store' = [store EXCEPT ![s] = [access    |-> [code |-> c, exp |-> exp],
                                   refresh   |-> IF h # 0 THEN h ELSE @.refresh,
                                   expiresAt |-> now + AccessTTL]]

ActivateReply(s) ==
    LET r == fetches[s]["form"] IN
    /\ r.pc = "actOk"
    /\ SaveTokens(s, r.code, r.exp, r.refresh)
    /\ auth' = [auth EXCEPT ![s] = TRUE]
    /\ entered' = [entered EXCEPT ![s] = IF @ = "form" THEN "yes" ELSE @]
    /\ Go(s, "form", Idle)
    /\ UNCHANGED <<now, row, drawn>>

RefreshReply(s, f) ==
    LET r == fetches[s][f] IN
    /\ r.pc = "refOk"
    /\ SaveTokens(s, r.code, r.exp, 0)
    /\ auth' = [auth EXCEPT ![s] = auth[s] \/ f = "mount"]
    /\ Go(s, f, IF f = "mount" THEN Idle
                ELSE Call("data", r.code, 0, r.exp))
    /\ UNCHANGED <<now, row, drawn, entered>>

RefusedReply(s, f) ==
    /\ fetches[s][f].pc = "refused"
    /\ store' = IF f = "form" THEN store ELSE [store EXCEPT ![s] = Empty]
    /\ Go(s, f, Idle)
    /\ UNCHANGED <<now, row, drawn, auth, entered>>

\* The connection fails before the request arrives, or loses the reply.
Lost(s, f) ==
    /\ fetches[s][f].pc \in {"actSent", "actOk", "refSent", "refOk", "refused", "data"}
    /\ Go(s, f, Idle)
    /\ UNCHANGED <<now, row, drawn, store, auth, entered>>

\* Middleware: the signature and its expiry are all that is looked at.
Served(r) == r.pc = "data" /\ now < r.exp

ServeData(s, q) ==
    /\ Served(fetches[s][q])
    /\ Go(s, q, Idle)
    /\ UNCHANGED <<now, row, drawn, store, auth, entered>>

\* 401: the query fails; the tokens stay until wbFetch itself renews them.
DenyData(s, q) ==
    /\ fetches[s][q].pc = "data" /\ ~Served(fetches[s][q])
    /\ Go(s, q, Idle)
    /\ UNCHANGED <<now, row, drawn, store, auth, entered>>

----------------------------------------------------------------------------
Tick ==
    /\ now < MaxClock
    /\ \A s \in Screens, f \in Fibers : fetches[s][f].pc \notin {"actRead", "refRead"}
    /\ now' = now + 1
    /\ UNCHANGED <<row, drawn, store, auth, fetches, entered>>

Next ==
    \/ Tick
    \/ \E c \in Codes : GenerateCode(c) \/ RevokeCode(c)
    \/ \E s \in Screens :
         \/ Mount(s) \/ Disconnect(s)
         \/ ActivateRead(s) \/ ActivateWrite(s) \/ ActivateHalf(s) \/ ActivateReply(s)
         \/ \E c \in Codes : SubmitCode(s, c)
         \/ \E f \in Fibers : HandlerFails(s, f) \/ RefusedReply(s, f) \/ Lost(s, f)
         \/ \E f \in Fibers \ {"form"} :
              RefreshRead(s, f) \/ RefreshWrite(s, f) \/ RefreshReply(s, f)
         \/ \E q \in Queries : Poll(s, q) \/ ServeData(s, q) \/ DenyData(s, q)

Spec == Init /\ [][Next]_vars

----------------------------------------------------------------------------
(* Properties                                                              *)

\* Token (c, e) is around: stored, on its way, or about to be used.
Held(c, e) ==
    \E s \in Screens :
        \/ store[s].access = [code |-> c, exp |-> e]
        \/ \E f \in Fibers : /\ fetches[s][f].pc \in {"actOk", "refOk", "data"}
                             /\ fetches[s][f].code = c /\ fetches[s][f].exp = e

\* A revoked profile's screens go dark one access-token lifetime after the
\* revocation at the latest: neither a refresh nor an activation that had read
\* the row before it was deleted can stretch that.
RevokedGoesDark ==
    \A c \in Codes : \A e \in 0 .. now + AccessTTL :
        Held(c, e) /\ row[c].state = "revoked" => e <= row[c].at + AccessTTL

\* The refresh tokens of a screen: stored, or carried by its fetches.
RefreshOf(s) == {store[s].refresh} \cup {fetches[s][f].refresh : f \in Fibers}

\* One screen per code: activating a code again takes the renewal away from
\* the screen that had it; two screens never both hold the current hash.
OneRenewerPerCode ==
    \A c \in Codes : row[c].state = "live" =>
        \A s, t \in Screens :
            row[c].hash \in RefreshOf(s) \cap RefreshOf(t) => s = t

\* After Disconnect a reply that is still on its way may put an access token
\* back into localStorage, but no poll and no silent refresh ever puts back a
\* refresh token: that takes a code entered since, or the answer to an
\* activation that was already on its way when the button was pressed (which
\* does open the dashboard again).
DisconnectEndsRenewal ==
    \A s \in Screens : entered[s] # "yes" => store[s].refresh = 0
=============================================================================
