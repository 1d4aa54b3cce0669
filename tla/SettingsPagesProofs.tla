------------------------ MODULE SettingsPagesProofs -------------------------
(***************************************************************************)
(* Proofs about SettingsPages for any set of projects and any number of    *)
(* moves, changes and failures: its type invariant, that an acknowledged   *)
(* change shows in every list its invalidation reached, and that no answer *)
(* from before the change is on its way to such a list.                    *)
(***************************************************************************)
EXTENDS SettingsPages, FiniteSetTheorems, TLAPS

(* a change on its way, and a request for a list *)
Changes ==
    [list : AllKeys \ {AllMonitors}, kind : {"create", "revoke", "role", "remove", "edit"},
     hook : Projects \cup {All, None}, mounted : BOOLEAN, shared : BOOLEAN,
     ver : -1 .. MaxChanges, all : 0 .. MaxChanges, id : Nat]
Requests == [key : AllKeys, req : AllKeys, ver : -1 .. MaxChanges]

(* The shape of the state in more detail than the runs check it. *)
Shape ==
    /\ TypeOK
    /\ pending \subseteq Changes /\ flights \subseteq Requests
    /\ sent \in 0 .. MaxChanges
    /\ \A k \in DOMAIN cache : cache[k].ver \in 0 .. MaxChanges

(* Changes that are not applied yet. *)
Unapplied(cs) == {c \in cs : c.ver = Unanswered}

(* What bounds the versions: the changes in a list and those still to be applied
   are no more than were sent. *)
CountInv ==
    /\ IsFiniteSet(pending)
    /\ \A k \in AllKeys : rows[k] + Cardinality(Unapplied(pending)) <= sent

(* A list is asked for by one request at a time. *)
OneFlight == \A f, g \in flights : f.key = g.key => f = g

(* The server acknowledges nothing that it has not applied. *)
VersionInv ==
    /\ \A c \in pending : c.ver <= rows[c.list] /\ c.all <= rows[AllMonitors]
    /\ \A k \in AllKeys : acked[k] <= rows[k]

(* AcknowledgedChangeShows for lists off screen too: one that is outdated there
   is marked, and so is asked for when it comes back. *)
CachedSeesChange ==
    \A k \in DOMAIN cache \ missed :
        \/ cache[k].ver >= acked[k] \/ InFlight(k) \/ k \in failed
        \/ k \in invalid /\ k \notin OnScreen

SettingsInv ==
    Shape /\ OneFlight /\ CountInv /\ VersionInv /\ RefetchSeesChange /\ CachedSeesChange

-----------------------------------------------------------------------------
(* Facts about the helpers *)

(* The selections the page can have. *)
Selections == [project : Projects \cup {All}, expanded : Projects \cup {None}]

(* What is on screen has a key of the server's. *)
LEMMA KeysOfFacts ==
    ASSUME NEW p \in Pages, NEW s \in Selections, NEW v \in Active(p, s)
    PROVE  KeyOf(v, p, s) \in AllKeys
<1>1. v \in Lists(p) /\ Enabled(v, p, s)
  BY DEF Active
<1>2. Scope(p, s) \in Projects \cup {All, None}
  BY DEF Scope, Selections
<1>3. CASE v \in {"projects", "users", "invites"}
  BY <1>3 DEF KeyOf, AllKeys
<1>4. CASE v = "monitors"
  <2>1. p = "monitors"
    BY <1>1, <1>4 DEF Pages, Lists, APIKeysPage, KeysTab, MembersTab, MembersPage, UsersPage,
                      NotificationsPage, HealthcheckPage, RetentionPage
  <2>. QED  BY <2>1, <1>4 DEF KeyOf, AllKeys, Scope, Selections
<1>5. CASE v \in {"keys", "members", "webhooks", "usage"}
  BY <1>1, <1>5 DEF Enabled, KeyOf, AllKeys
<1>6. v \in {"projects", "users", "invites", "monitors", "keys", "members", "webhooks", "usage"}
  BY <1>1 DEF Pages, Lists, APIKeysPage, KeysTab, MembersTab, MembersPage, UsersPage,
              NotificationsPage, HealthcheckPage, RetentionPage
<1>. QED  BY <1>3, <1>4, <1>5, <1>6

(* The second part of a key is a project, or stands for all or none. *)
LEMMA ScopeFacts ==
    ASSUME NEW p, NEW s \in Selections, NEW v
    PROVE  KeyOf(v, p, s)[2] \in Projects \cup {All, None}
BY DEF KeyOf, Scope, Selections

(* The lists on screen. *)
LEMMA OnScreenFacts ==
    ASSUME Shape
    PROVE  OnScreen \subseteq AllKeys
BY KeysOfFacts DEF OnScreen, KeysOf, Shape, TypeOK, Selections

(* A request that has just been made. *)
LEMMA AskFacts ==
    ASSUME NEW k \in AllKeys
    PROVE  Ask(k) \in Requests /\ Ask(k).key = k /\ Ask(k).ver = Unanswered
BY SettingsAssumption DEF Ask, Requests, Unanswered

(* The cache after an answer. *)
LEMMA StoredFacts ==
    ASSUME NEW f
    PROVE  /\ DOMAIN Stored(f) = DOMAIN cache \cup {f.key}
           /\ Stored(f)[f.key].ver = f.ver
           /\ \A k \in DOMAIN cache : k # f.key => Stored(f)[k] = cache[k]
BY DEF Stored

(* Changes that only move to another component are not more than before. *)
LEMMA RemapCount ==
    ASSUME NEW cs, IsFiniteSet(cs), NEW ds, NEW g,
           \A d \in ds : \E c \in cs : d = g[c] /\ d.ver = c.ver
    PROVE  /\ IsFiniteSet(ds)
           /\ Cardinality(Unapplied(ds)) \in Nat /\ Cardinality(Unapplied(cs)) \in Nat
           /\ Cardinality(Unapplied(ds)) <= Cardinality(Unapplied(cs))
<1>1. ASSUME NEW S, IsFiniteSet(S), NEW T, \A t \in T : \E c \in S : t = g[c]
      PROVE  IsFiniteSet(T) /\ Cardinality(T) <= Cardinality(S)
  <2>. DEFINE S0 == {c \in S : g[c] \in T}
              h == [c \in S0 |-> g[c]]
  <2>1. IsFiniteSet(S0) /\ Cardinality(S0) <= Cardinality(S)
    BY <1>1, FS_Subset
  <2>2. h \in Surjection(S0, T)
    BY <1>1 DEF Surjection
  <2>. HIDE DEF S0, h
  <2>3. IsFiniteSet(T) /\ Cardinality(T) <= Cardinality(S0)
    BY <2>1, <2>2, FS_Surjection
  <2>4. Cardinality(T) \in Nat /\ Cardinality(S0) \in Nat /\ Cardinality(S) \in Nat
    BY <1>1, <2>1, <2>3, FS_CardinalityType
  <2>. QED  BY <2>1, <2>3, <2>4
<1>2. IsFiniteSet(Unapplied(cs))
  BY FS_Subset DEF Unapplied
<1>3. IsFiniteSet(ds)
  BY <1>1
<1>4. \A d \in Unapplied(ds) : \E c \in Unapplied(cs) : d = g[c]
  BY DEF Unapplied
<1>5. IsFiniteSet(Unapplied(ds)) /\ Cardinality(Unapplied(ds)) <= Cardinality(Unapplied(cs))
  BY <1>1, <1>2, <1>4
<1>. QED  BY <1>2, <1>3, <1>5, FS_CardinalityType

(* What a fetch of the lists ks leaves. *)
LEMMA FetchFacts ==
    ASSUME Shape, NEW ks \in SUBSET AllKeys, Fetch({Ask(k) : k \in ks})
    PROVE  /\ flights' \subseteq Requests /\ failed' \subseteq failed
           /\ \A f \in flights' : f \in flights \/ f.ver = Unanswered
           /\ flights \subseteq flights' /\ (OneFlight => OneFlight')
           /\ \A k \in ks : \E f \in flights' : f.key = k
           /\ failed \cap DOMAIN cache \subseteq failed'
<1>. DEFINE new == {a \in {Ask(k) : k \in ks} : ~InFlight(a.key)}
<1>1. flights' = flights \cup new /\ failed' = failed \ ({a.key : a \in new} \ DOMAIN cache)
  BY DEF Fetch
<1>2. \A a \in new : a \in Requests /\ a.ver = Unanswered
  BY AskFacts
<1>3. flights \subseteq Requests
  BY DEF Shape
<1>4. ASSUME NEW k \in ks PROVE \E f \in flights' : f.key = k
  <2>1. Ask(k).key = k
    BY AskFacts
  <2>2. CASE InFlight(k)
    BY <1>1, <2>2 DEF InFlight
  <2>3. CASE ~InFlight(k)
    BY <1>1, <2>1, <2>3
  <2>. QED  BY <2>2, <2>3
<1>5. OneFlight => OneFlight'
  <2>1. \A a, b \in new : a.key = b.key => a = b
    BY AskFacts
  <2>2. \A a \in new : ~\E f \in flights : f.key = a.key
    BY DEF InFlight
  <2>. QED  BY <1>1, <2>1, <2>2 DEF OneFlight
<1>. QED  BY <1>1, <1>2, <1>3, <1>4, <1>5

(* What asking again for the lists ks leaves: no older answer for one that is
   in the cache. *)
LEMMA RefetchFacts ==
    ASSUME Shape, NEW ks \in SUBSET AllKeys, Refetch({Ask(k) : k \in ks})
    PROVE  /\ flights' \subseteq Requests /\ failed' \subseteq failed
           /\ \A f \in flights' :
                 \/ f.ver = Unanswered
                 \/ f \in flights /\ ~(f.key \in ks \cap DOMAIN cache)
           /\ \A f \in flights : \E g \in flights' : g.key = f.key
           /\ OneFlight => OneFlight'
           /\ \A k \in ks : \E f \in flights' : f.key = k
           /\ failed \cap DOMAIN cache \subseteq failed'
<1>. DEFINE again == {a \in {Ask(k) : k \in ks} : a.key \in DOMAIN cache \/ ~InFlight(a.key)}
            keys == {a.key : a \in again}
<1>1. /\ flights' = {f \in flights : f.key \notin keys} \cup again
      /\ failed' = failed \ (keys \ DOMAIN cache)
  BY DEF Refetch
<1>2. \A a \in again : a \in Requests /\ a.ver = Unanswered
  BY AskFacts
<1>3. flights \subseteq Requests
  BY DEF Shape
<1>4. \A k \in ks : k \in keys \/ (InFlight(k) /\ k \notin DOMAIN cache)
  BY AskFacts
<1>5. ASSUME NEW f \in flights PROVE \E g \in flights' : g.key = f.key
  BY <1>1
<1>6. ASSUME NEW k \in ks PROVE \E f \in flights' : f.key = k
  BY <1>1, <1>4, <1>5 DEF InFlight
<1>7. \A f \in flights' : \/ f.ver = Unanswered
                          \/ f \in flights /\ ~(f.key \in ks \cap DOMAIN cache)
  BY <1>1, <1>2, <1>4
<1>8. flights' \subseteq Requests
  BY <1>1, <1>2, <1>3
<1>9. failed' \subseteq failed /\ failed \cap DOMAIN cache \subseteq failed'
  BY <1>1
<1>10. OneFlight => OneFlight'
  <2>1. \A a, b \in again : a.key = b.key => a = b
    BY AskFacts
  <2>. QED  BY <1>1, <2>1 DEF OneFlight
<1>. QED  BY <1>5, <1>6, <1>7, <1>8, <1>9, <1>10

-----------------------------------------------------------------------------
(* The steps *)

(* The pages as they are opened satisfy the invariant. *)
LEMMA SettingsInit == Init => SettingsInv
<1>. SUFFICES ASSUME Init PROVE SettingsInv
  OBVIOUS
<1>1. sel \in Selections /\ page \in Pages
  BY DEF Init, Selections
<1>2. OnScreen \subseteq AllKeys
  BY <1>1, KeysOfFacts DEF OnScreen, KeysOf
<1>3. flights \subseteq Requests /\ \A f \in flights : f.ver = Unanswered
  BY <1>2, AskFacts DEF Init
<1>4. \A f \in flights : f.key \in AllKeys /\ f.ver \in -1 .. MaxChanges
  BY <1>3 DEF Requests
<1>5. /\ rows = [k \in AllKeys |-> 0] /\ acked = [k \in AllKeys |-> 0] /\ sent = 0
      /\ DOMAIN cache = {} /\ failed = {} /\ invalid = {} /\ pending = {} /\ missed = {}
  BY DEF Init
<1>6. Shape
  BY <1>1, <1>3, <1>4, <1>5, SettingsAssumption DEF Shape, TypeOK, Selections
<1>7. Cardinality(Unapplied(pending)) = 0 /\ IsFiniteSet(pending)
  <2>1. Unapplied(pending) = {}
    BY <1>5 DEF Unapplied
  <2>. QED  BY <1>5, <2>1, FS_EmptySet, Zenon
<1>8. CountInv /\ OneFlight
  <2>1. CountInv
    BY <1>5, <1>7 DEF CountInv
  <2>2. \A f, g \in flights : f.key = g.key => f = g
    BY <1>2, AskFacts DEF Init
  <2>. QED  BY <2>1, <2>2 DEF OneFlight
<1>9. VersionInv
  BY <1>5 DEF VersionInv
<1>10. RefetchSeesChange /\ CachedSeesChange
  BY <1>3, <1>5 DEF RefetchSeesChange, CachedSeesChange
<1>. QED  BY <1>6, <1>8, <1>9, <1>10 DEF SettingsInv

(* A pending change of a component that moves, or is gone, is still the same
   change. *)
LEMMA ReboundFacts ==
    ASSUME Shape, NEW p, NEW s \in Selections, NEW d \in Rebound(p, s)
    PROVE  /\ d \in Changes
           /\ \E c \in pending :
                 /\ d = IF Stays(c, p, s) THEN [c EXCEPT !.hook = KeyOf(c.list[1], p, s)[2]]
                                          ELSE [c EXCEPT !.mounted = FALSE]
                 /\ d.ver = c.ver /\ d.list = c.list /\ d.all = c.all
<1>1. PICK c \in pending :
         d = IF Stays(c, p, s) THEN [c EXCEPT !.hook = KeyOf(c.list[1], p, s)[2]]
                               ELSE [c EXCEPT !.mounted = FALSE]
  BY DEF Rebound
<1>2. c \in Changes
  BY DEF Shape
<1>3. KeyOf(c.list[1], p, s)[2] \in Projects \cup {All, None}
  BY ScopeFacts
<1>4. d \in Changes /\ d.ver = c.ver /\ d.list = c.list /\ d.all = c.all
  BY <1>1, <1>2, <1>3 DEF Changes
<1>. QED  BY <1>1, <1>4

(* Moving to another page or project. *)
LEMMA ShowStep ==
    ASSUME SettingsInv, NEW p \in Pages, NEW s \in Selections, Show(p, s)
    PROVE  SettingsInv'
<1>. USE DEF SettingsInv
<1>. DEFINE new == KeysOf(p, s) \ OnScreen
            fresh == {k \in new : k[1] \in KeepsFresh /\ k \in DOMAIN cache \ invalid}
<1>1. /\ page' = p /\ sel' = s /\ pending' = Rebound(p, s)
      /\ UNCHANGED <<follow, cache, invalid, rows, acked, missed, sent, fails>>
  BY DEF Show
<1>2. PICK kept \in {{}, fresh} : Fetch({Ask(k) : k \in new \ kept})
  BY DEF Show
<1>3. new \ kept \in SUBSET AllKeys
  BY KeysOfFacts DEF KeysOf
<1>4. /\ flights' \subseteq Requests /\ failed' \subseteq failed
      /\ \A f \in flights' : f \in flights \/ f.ver = Unanswered
      /\ flights \subseteq flights' /\ (OneFlight => OneFlight')
      /\ \A k \in new \ kept : \E f \in flights' : f.key = k
      /\ failed \cap DOMAIN cache \subseteq failed'
  <2>. HIDE DEF new, fresh, SettingsInv
  <2>1. Shape
    BY DEF SettingsInv
  <2>. QED  BY <1>2, <1>3, <2>1, FetchFacts
<1>5. OnScreen' = KeysOf(p, s)
  BY <1>1 DEF OnScreen, KeysOf, Active
<1>6. pending' \subseteq Changes
  BY <1>1, ReboundFacts
<1>7. Shape'
  <2>1. \A f \in flights' : f.key \in AllKeys /\ f.ver \in -1 .. MaxChanges
    BY <1>4 DEF Requests
  <2>2. \A c \in pending' : c.list \in AllKeys /\ c.hook \in Projects \cup {All, None}
    BY <1>6 DEF Changes
  <2>. QED  BY <1>1, <1>4, <1>6, <2>1, <2>2 DEF Shape, TypeOK, Selections
<1>8. CountInv'
  <2>. DEFINE g == [c \in pending |->
                      IF Stays(c, p, s) THEN [c EXCEPT !.hook = KeyOf(c.list[1], p, s)[2]]
                                        ELSE [c EXCEPT !.mounted = FALSE]]
  <2>1. \A d \in pending' : \E c \in pending : d = g[c] /\ d.ver = c.ver
    BY <1>1, ReboundFacts
  <2>2. IsFiniteSet(pending)
    BY DEF CountInv
  <2>. HIDE DEF g
  <2>3. /\ IsFiniteSet(pending')
        /\ Cardinality(Unapplied(pending')) \in Nat /\ Cardinality(Unapplied(pending)) \in Nat
        /\ Cardinality(Unapplied(pending')) <= Cardinality(Unapplied(pending))
    BY <2>1, <2>2, RemapCount
  <2>4. \A k \in AllKeys : rows[k] \in Int /\ rows[k] + Cardinality(Unapplied(pending)) <= sent
    <3>1. rows \in [AllKeys -> 0 .. MaxChanges]
      BY DEF Shape, TypeOK
    <3>. QED  BY <3>1 DEF CountInv
  <2>5. rows' = rows /\ sent' = sent /\ sent \in Int
    BY <1>1 DEF Shape
  <2>6. \A k \in AllKeys : rows[k] + Cardinality(Unapplied(pending')) <= sent
    BY <2>3, <2>4, <2>5
  <2>. QED  BY <2>3, <2>5, <2>6 DEF CountInv
<1>9. VersionInv'
  <2>1. \A d \in pending' : \E c \in pending : d.ver = c.ver /\ d.list = c.list /\ d.all = c.all
    BY <1>1, ReboundFacts
  <2>. QED  BY <1>1, <2>1 DEF VersionInv
<1>10. RefetchSeesChange'
  BY <1>1, <1>4 DEF RefetchSeesChange
<1>11. CachedSeesChange'
  <2>. SUFFICES ASSUME NEW k \in DOMAIN cache \ missed
                PROVE  \/ cache[k].ver >= acked[k] \/ (\E f \in flights' : f.key = k) \/ k \in failed'
                       \/ k \in invalid /\ k \notin KeysOf(p, s)
    BY <1>1, <1>5 DEF CachedSeesChange, InFlight
  <2>1. CASE InFlight(k) \/ k \in failed \/ cache[k].ver >= acked[k]
    BY <2>1, <1>4 DEF InFlight
  <2>2. CASE k \in invalid /\ k \notin OnScreen
    BY <2>2, <1>4
  <2>. QED  BY <2>1, <2>2 DEF CachedSeesChange
<1>. QED  BY <1>4, <1>7, <1>8, <1>9, <1>10, <1>11

(* The window gets the focus back. *)
LEMMA FocusStep ==
    ASSUME SettingsInv, Focus
    PROVE  SettingsInv'
<1>1. UNCHANGED <<follow, page, sel, cache, invalid, pending, rows, acked, missed, sent, fails>>
  BY DEF Focus
<1>2. Shape /\ OnScreen \in SUBSET AllKeys /\ Fetch({Ask(k) : k \in OnScreen})
  BY OnScreenFacts DEF SettingsInv, Focus
<1>3. /\ flights' \subseteq Requests /\ failed' \subseteq failed
      /\ \A f \in flights' : f \in flights \/ f.ver = Unanswered
      /\ flights \subseteq flights' /\ (OneFlight => OneFlight')
      /\ failed \cap DOMAIN cache \subseteq failed'
  BY <1>2, FetchFacts
<1>4. Shape'
  <2>1. \A f \in flights' : f.key \in AllKeys /\ f.ver \in -1 .. MaxChanges
    BY <1>3 DEF Requests
  <2>. QED  BY <1>1, <1>2, <1>3, <2>1 DEF Shape, TypeOK
<1>5. CountInv' /\ VersionInv'
  BY <1>1 DEF SettingsInv, CountInv, VersionInv
<1>6. RefetchSeesChange'
  BY <1>1, <1>3 DEF SettingsInv, RefetchSeesChange
<1>7. CachedSeesChange'
  BY <1>1, <1>3 DEF SettingsInv, CachedSeesChange, InFlight, OnScreen, KeysOf, Active
<1>. QED  BY <1>3, <1>4, <1>5, <1>6, <1>7 DEF SettingsInv

(* A change is submitted. *)
LEMMA SubmitStep ==
    ASSUME SettingsInv, NEW v, NEW kind \in {"create", "revoke", "role", "remove", "edit"},
           NEW shared \in BOOLEAN, Submit(v, kind, shared)
    PROVE  SettingsInv'
<1>. DEFINE k == KeyOf(v, page, sel)
            Same(d) == d.mounted /\ d.list[1] = v /\ d.kind = kind
            off(d) == [d EXCEPT !.mounted = @ /\ ~(page = "keys" /\ Same(d))]
            olds == {off(d) : d \in pending}
            c == [list |-> k, kind |-> kind, hook |-> k[2], mounted |-> TRUE,
                  shared |-> shared, ver |-> Unanswered, all |-> 0, id |-> sent]
<1>1. /\ v \in Active(page, sel) /\ k # AllMonitors
      /\ sent < MaxChanges /\ sent' = sent + 1
      /\ pending' = olds \cup {c}
      /\ UNCHANGED <<follow, cache, failed, flights, invalid, page, sel, rows, acked, missed>>
  BY DEF Submit, browser
<1>2. Shape /\ sel \in Selections /\ page \in Pages /\ sent \in 0 .. MaxChanges /\ pending \subseteq Changes
  BY DEF SettingsInv, Shape, TypeOK, Selections
<1>3. k \in AllKeys /\ k[2] \in Projects \cup {All, None}
  BY <1>1, <1>2, KeysOfFacts, ScopeFacts
<1>4. c \in Changes /\ c.ver = Unanswered /\ c.list = k /\ c.all = 0
  <2>. HIDE DEF k
  <2>. QED  BY <1>1, <1>2, <1>3, SettingsAssumption DEF Changes, Unanswered
<1>5. ASSUME NEW d \in pending
      PROVE  off(d) \in Changes /\ off(d).ver = d.ver /\ off(d).list = d.list /\ off(d).all = d.all
  <2>. HIDE DEF k, Same
  <2>1. d \in Changes
    BY <1>2
  <2>2. (d.mounted /\ ~(page = "keys" /\ Same(d))) \in BOOLEAN
    OBVIOUS
  <2>. QED  BY <2>1, <2>2 DEF Changes
<1>. HIDE DEF k, Same, off, c, olds
<1>6. /\ olds \subseteq Changes
      /\ \A d \in olds : \E b \in pending :
            d = off(b) /\ d.ver = b.ver /\ d.list = b.list /\ d.all = b.all
  BY <1>5 DEF olds
<1>7. pending' \subseteq Changes
  BY <1>1, <1>4, <1>6
<1>8. Shape'
  <2>1. \A d \in pending' : d.list \in AllKeys /\ d.hook \in Projects \cup {All, None}
    BY <1>7 DEF Changes
  <2>. QED  BY <1>1, <1>2, <1>7, <2>1, SettingsAssumption DEF Shape, TypeOK
<1>9. CountInv'
  <2>. DEFINE g == [b \in pending |-> off(b)]
  <2>1. \A d \in olds : \E b \in pending : d = g[b] /\ d.ver = b.ver
    BY <1>6
  <2>2. /\ IsFiniteSet(pending)
        /\ \A j \in AllKeys : rows[j] + Cardinality(Unapplied(pending)) <= sent
    BY DEF SettingsInv, CountInv
  <2>. HIDE DEF g
  <2>3. /\ IsFiniteSet(olds)
        /\ Cardinality(Unapplied(olds)) \in Nat /\ Cardinality(Unapplied(pending)) \in Nat
        /\ Cardinality(Unapplied(olds)) <= Cardinality(Unapplied(pending))
    BY <2>1, <2>2, RemapCount
  <2>4. Unapplied(pending') = Unapplied(olds) \cup {c}
    BY <1>1, <1>4 DEF Unapplied
  <2>5. IsFiniteSet(Unapplied(olds))
    BY <2>3, FS_Subset DEF Unapplied
  <2>6. /\ IsFiniteSet(pending')
        /\ Cardinality(Unapplied(pending')) \in Nat
        /\ Cardinality(Unapplied(pending')) <= Cardinality(Unapplied(olds)) + 1
    <3>1. IsFiniteSet(pending')
      BY <1>1, <2>3, FS_AddElement
    <3>2. IsFiniteSet(Unapplied(olds) \cup {c})
      BY <2>5, FS_AddElement
    <3>3. Cardinality(Unapplied(olds) \cup {c}) \in Nat
      BY <3>2, FS_CardinalityType
    <3>4. \/ Cardinality(Unapplied(olds) \cup {c}) = Cardinality(Unapplied(olds))
          \/ Cardinality(Unapplied(olds) \cup {c}) = Cardinality(Unapplied(olds)) + 1
      BY <2>5, FS_AddElement
    <3>. QED  BY <2>3, <2>4, <3>1, <3>3, <3>4
  <2>7. sent \in Int /\ \A j \in AllKeys : rows[j] \in Int
    BY <1>2 DEF Shape, TypeOK
  <2>8. \A j \in AllKeys : rows[j] + Cardinality(Unapplied(pending')) <= sent + 1
    BY <2>2, <2>3, <2>6, <2>7
  <2>9. rows' = rows /\ sent' = sent + 1
    BY <1>1
  <2>. QED  BY <2>6, <2>8, <2>9 DEF CountInv
<1>10. VersionInv'
  <2>1. rows[k] \in 0 .. MaxChanges
    BY <1>2, <1>3 DEF Shape, TypeOK
  <2>2. c.ver <= rows[c.list] /\ c.all <= rows[AllMonitors]
    <3>1. rows[AllMonitors] \in 0 .. MaxChanges
      BY <1>2 DEF Shape, TypeOK, AllMonitors, AllKeys
    <3>. QED  BY <1>4, <2>1, <3>1, SettingsAssumption DEF Unanswered
  <2>. QED  BY <1>1, <1>6, <2>2 DEF VersionInv, SettingsInv
<1>11. RefetchSeesChange'
  BY <1>1 DEF SettingsInv, RefetchSeesChange
<1>12. CachedSeesChange' /\ OneFlight'
  BY <1>1 DEF SettingsInv, CachedSeesChange, InFlight, OnScreen, KeysOf, Active, OneFlight
<1>. QED  BY <1>8, <1>9, <1>10, <1>11, <1>12 DEF SettingsInv

(* The server applies a change, which is then in its list and in the list of all
   monitors if it is one of a monitor. *)
LEMMA ApplyStep ==
    ASSUME SettingsInv, NEW c \in pending, Apply(c)
    PROVE  SettingsInv'
<1>. DEFINE d == [c EXCEPT !.ver = rows'[c.list], !.all = rows'[AllMonitors]]
<1>1. /\ c.ver = Unanswered
      /\ rows' = [k \in AllKeys |-> rows[k] + IF k \in Holding(c.list) THEN 1 ELSE 0]
      /\ pending' = (pending \ {c}) \cup {d}
      /\ UNCHANGED <<follow, cache, failed, flights, invalid, page, sel, acked, missed, sent>>
  BY DEF Apply, browser
<1>2. /\ Shape /\ sent \in 0 .. MaxChanges /\ pending \subseteq Changes
      /\ rows \in [AllKeys -> 0 .. MaxChanges] /\ c \in Changes
  BY DEF SettingsInv, Shape, TypeOK
<1>3. c.list \in AllKeys /\ AllMonitors \in AllKeys
  BY <1>2 DEF Changes, AllMonitors, AllKeys
<1>4. /\ IsFiniteSet(Unapplied(pending)) /\ c \in Unapplied(pending)
      /\ IsFiniteSet(pending)
      /\ \A k \in AllKeys : rows[k] + Cardinality(Unapplied(pending)) <= sent
  BY <1>1, FS_Subset DEF SettingsInv, CountInv, Unapplied
<1>5. /\ Cardinality(Unapplied(pending)) \in Nat
      /\ Cardinality(Unapplied(pending) \ {c}) = Cardinality(Unapplied(pending)) - 1
      /\ Cardinality(Unapplied(pending) \ {c}) \in Nat
  BY <1>4, FS_RemoveElement, FS_CardinalityType
<1>6. \A k \in AllKeys : /\ rows[k] \in 0 .. MaxChanges /\ rows[k] < MaxChanges
                         /\ rows'[k] \in {rows[k], rows[k] + 1}
  <2>. SUFFICES ASSUME NEW k \in AllKeys
                PROVE  /\ rows[k] \in 0 .. MaxChanges /\ rows[k] < MaxChanges
                       /\ rows'[k] \in {rows[k], rows[k] + 1}
    OBVIOUS
  <2>1. rows[k] \in 0 .. MaxChanges /\ rows[k] + Cardinality(Unapplied(pending)) <= sent
    BY <1>2, <1>4
  <2>2. rows[k] < MaxChanges
    BY <1>2, <1>5, <2>1, SettingsAssumption
  <2>3. rows'[k] = rows[k] + IF k \in Holding(c.list) THEN 1 ELSE 0
    BY <1>1
  <2>. QED  BY <2>1, <2>2, <2>3
<1>7. \A k \in AllKeys : rows'[k] \in 0 .. MaxChanges /\ rows[k] <= rows'[k] /\ rows'[k] <= rows[k] + 1
  BY <1>6, SettingsAssumption
<1>8. rows' \in [AllKeys -> 0 .. MaxChanges]
  BY <1>1, <1>7
<1>9. /\ d \in Changes /\ d.ver = rows'[c.list] /\ d.all = rows'[AllMonitors]
      /\ d.list = c.list /\ d.ver # Unanswered
  <2>1. rows'[c.list] \in 0 .. MaxChanges /\ rows'[AllMonitors] \in 0 .. MaxChanges
    BY <1>3, <1>7
  <2>2. rows'[c.list] \in -1 .. MaxChanges /\ rows'[c.list] # -1
    BY <2>1, SettingsAssumption
  <2>. QED  BY <1>2, <2>1, <2>2 DEF Changes, Unanswered
<1>. HIDE DEF d
<1>10. Shape'
  <2>1. pending' \subseteq Changes
    BY <1>1, <1>2, <1>9
  <2>2. \A b \in pending' : b.list \in AllKeys /\ b.hook \in Projects \cup {All, None}
    BY <2>1 DEF Changes
  <2>. QED  BY <1>1, <1>2, <1>8, <2>1, <2>2 DEF Shape, TypeOK
<1>11. CountInv'
  <2>1. Unapplied(pending') = Unapplied(pending) \ {c}
    BY <1>1, <1>9 DEF Unapplied
  <2>2. IsFiniteSet(pending')
    BY <1>1, <1>4, FS_AddElement, FS_RemoveElement
  <2>3. \A k \in AllKeys : rows'[k] + Cardinality(Unapplied(pending')) <= sent
    BY <1>2, <1>4, <1>5, <1>6, <1>7, <2>1
  <2>. QED  BY <1>1, <2>2, <2>3 DEF CountInv
<1>12. VersionInv'
  <2>1. \A b \in pending : /\ b.ver \in Int /\ b.ver <= rows[b.list] /\ b.list \in AllKeys
                           /\ b.all \in Int /\ b.all <= rows[AllMonitors]
    BY <1>2 DEF SettingsInv, VersionInv, Changes
  <2>2. \A j \in AllKeys : rows[j] \in Int /\ rows'[j] \in Int /\ rows[j] <= rows'[j]
    BY <1>6, <1>7
  <2>3. \A b \in pending' : b.ver <= rows'[b.list] /\ b.all <= rows'[AllMonitors]
    BY <1>1, <1>3, <1>9, <2>1, <2>2
  <2>4. \A j \in AllKeys : acked[j] \in Int /\ acked[j] <= rows[j]
    BY <1>2 DEF SettingsInv, VersionInv, Shape, TypeOK
  <2>5. \A j \in AllKeys : acked'[j] <= rows'[j]
    BY <1>1, <2>2, <2>4
  <2>. QED  BY <2>3, <2>5 DEF VersionInv
<1>13. RefetchSeesChange' /\ OneFlight'
  BY <1>1 DEF SettingsInv, RefetchSeesChange, OneFlight
<1>14. CachedSeesChange'
  BY <1>1 DEF SettingsInv, CachedSeesChange, InFlight, OnScreen, KeysOf, Active
<1>. QED  BY <1>10, <1>11, <1>12, <1>13, <1>14 DEF SettingsInv

(* A change settles: a change less is pending. *)
LEMMA SettledCount ==
    ASSUME SettingsInv, NEW c \in pending, pending' = pending \ {c},
           rows' = rows, sent' = sent
    PROVE  CountInv'
<1>1. IsFiniteSet(pending) /\ IsFiniteSet(pending')
  BY FS_RemoveElement DEF SettingsInv, CountInv
<1>2. Unapplied(pending') \in SUBSET Unapplied(pending) /\ IsFiniteSet(Unapplied(pending))
  BY <1>1, FS_Subset DEF Unapplied
<1>3. /\ IsFiniteSet(Unapplied(pending'))
      /\ Cardinality(Unapplied(pending')) <= Cardinality(Unapplied(pending))
  BY <1>2, FS_Subset
<1>4. Cardinality(Unapplied(pending')) \in Nat /\ Cardinality(Unapplied(pending)) \in Nat
  BY <1>2, <1>3, FS_CardinalityType
<1>5. sent \in Int /\ \A k \in AllKeys : rows[k] \in Int
  BY DEF SettingsInv, Shape, TypeOK
<1>6. \A k \in AllKeys : rows[k] + Cardinality(Unapplied(pending)) <= sent
  BY DEF SettingsInv, CountInv
<1>7. \A k \in AllKeys : rows[k] + Cardinality(Unapplied(pending')) <= sent
  BY <1>3, <1>4, <1>5, <1>6
<1>. QED  BY <1>1, <1>7 DEF CountInv

(* The versions after an acknowledgement: only those of the lists that hold the
   change grow, and to no more than the server has. *)
LEMMA AcknowledgedFacts ==
    ASSUME Shape, VersionInv, NEW c \in pending
    PROVE  /\ Acknowledged(c) \in [AllKeys -> 0 .. MaxChanges]
           /\ \A j \in AllKeys : Acknowledged(c)[j] <= rows[j]
           /\ \A j \in AllKeys \ Holding(c.list) : Acknowledged(c)[j] = acked[j]
<1>1. /\ c \in Changes /\ acked \in [AllKeys -> 0 .. MaxChanges] /\ rows \in [AllKeys -> 0 .. MaxChanges]
      /\ c.ver <= rows[c.list] /\ c.all <= rows[AllMonitors]
  BY DEF Shape, TypeOK, VersionInv
<1>2. c.list \in AllKeys /\ c.ver \in -1 .. MaxChanges /\ c.all \in 0 .. MaxChanges
  BY <1>1 DEF Changes
<1>3. Holding(c.list) \subseteq {c.list, AllMonitors} /\ c.list \in Holding(c.list)
  BY DEF Holding
<1>. DEFINE v(k) == IF k = c.list THEN c.ver ELSE IF k \in Holding(c.list) THEN c.all ELSE 0
<1>4. Acknowledged(c) = [k \in AllKeys |-> IF v(k) > acked[k] THEN v(k) ELSE acked[k]]
  BY DEF Acknowledged
<1>5. ASSUME NEW j \in AllKeys
      PROVE  /\ v(j) \in -1 .. MaxChanges /\ v(j) <= rows[j]
             /\ acked[j] \in 0 .. MaxChanges /\ acked[j] <= rows[j] /\ rows[j] \in 0 .. MaxChanges
             /\ j \notin Holding(c.list) => v(j) = 0
  BY <1>1, <1>2, <1>3, SettingsAssumption DEF VersionInv
<1>. HIDE DEF v
<1>6. ASSUME NEW j \in AllKeys
      PROVE  /\ Acknowledged(c)[j] \in 0 .. MaxChanges /\ Acknowledged(c)[j] <= rows[j]
             /\ j \notin Holding(c.list) => Acknowledged(c)[j] = acked[j]
  BY <1>4, <1>5, SettingsAssumption
<1>. QED  BY <1>4, <1>6

(* A change is acknowledged.  Its list is asked for again if it is on screen,
   and marked if it is not; a list that is neither is one of the missed ones, or
   has nothing from before the change. *)
LEMMA ReplyStep ==
    ASSUME SettingsInv, NEW c \in pending, Reply(c)
    PROVE  SettingsInv'
<1>. DEFINE k == <<c.list[1], c.hook>>
            ks == {k} \cap OnScreen
<1>1. /\ c.ver # Unanswered /\ pending' = pending \ {c}
      /\ acked' = Acknowledged(c)
      /\ missed' = missed \cup Missed(c, k)
      /\ invalid' = invalid \cup ({k} \cap DOMAIN cache)
      /\ Refetch({Ask(j) : j \in ks})
      /\ UNCHANGED <<follow, page, sel, cache, rows, sent>>
  BY DEF Reply, Invalidate
<1>2. /\ Shape /\ VersionInv /\ c \in Changes /\ pending \subseteq Changes
      /\ acked \in [AllKeys -> 0 .. MaxChanges]
      /\ rows \in [AllKeys -> 0 .. MaxChanges] /\ missed \subseteq AllKeys
      /\ invalid \subseteq DOMAIN cache /\ DOMAIN cache \subseteq AllKeys
  BY DEF SettingsInv, Shape, TypeOK
<1>3. Holding(c.list) \subseteq AllKeys
  BY <1>2 DEF Holding, Changes, AllMonitors, AllKeys
<1>4. ks \in SUBSET AllKeys
  BY <1>2, OnScreenFacts
<1>. HIDE DEF k, ks
<1>5. /\ flights' \subseteq Requests /\ failed' \subseteq failed
      /\ \A f \in flights' : \/ f.ver = Unanswered
                             \/ f \in flights /\ ~(f.key \in ks \cap DOMAIN cache)
      /\ \A f \in flights : \E g \in flights' : g.key = f.key
      /\ OneFlight => OneFlight'
      /\ \A j \in ks : \E f \in flights' : f.key = j
      /\ failed \cap DOMAIN cache \subseteq failed'
  BY <1>1, <1>2, <1>4, RefetchFacts
<1>6. /\ acked' \in [AllKeys -> 0 .. MaxChanges]
      /\ \A j \in AllKeys : acked'[j] <= rows[j]
      /\ \A j \in AllKeys \ Holding(c.list) : acked'[j] = acked[j]
  BY <1>1, <1>2, AcknowledgedFacts
<1>7. \A j \in Holding(c.list) \ missed' :
         IF j = k THEN InFlight(j) => j \in OnScreen \cap DOMAIN cache
                  ELSE ~InFlight(j) /\ j \notin DOMAIN cache
  BY <1>1 DEF Missed
<1>8. OnScreen' = OnScreen /\ missed \subseteq missed' /\ missed' \subseteq AllKeys
  BY <1>1, <1>2, <1>3 DEF OnScreen, KeysOf, Active, Missed
<1>9. Shape'
  <2>1. \A f \in flights' : f.key \in AllKeys /\ f.ver \in -1 .. MaxChanges
    BY <1>5 DEF Requests
  <2>2. invalid' \subseteq DOMAIN cache
    BY <1>1, <1>2
  <2>. QED  BY <1>1, <1>2, <1>5, <1>6, <1>8, <2>1, <2>2 DEF Shape, TypeOK
<1>10. CountInv' /\ OneFlight'
  BY <1>1, <1>5, SettledCount DEF SettingsInv
<1>11. VersionInv'
  BY <1>1, <1>2, <1>6 DEF VersionInv
<1>12. RefetchSeesChange'
  <2>. SUFFICES ASSUME NEW f \in flights', f.ver # Unanswered, f.key \notin missed'
                PROVE  f.ver >= acked'[f.key]
    BY DEF RefetchSeesChange
  <2>1. f \in flights /\ ~(f.key \in ks \cap DOMAIN cache) /\ f.key \in AllKeys
    BY <1>5 DEF Requests
  <2>2. f.ver >= acked[f.key]
    BY <1>8, <2>1 DEF SettingsInv, RefetchSeesChange
  <2>3. f.key \notin Holding(c.list)
    BY <1>7, <2>1 DEF InFlight, ks
  <2>. QED  BY <1>6, <2>1, <2>2, <2>3
<1>13. CachedSeesChange'
  <2>. SUFFICES ASSUME NEW j \in DOMAIN cache \ missed'
                PROVE  \/ cache[j].ver >= acked'[j] \/ (\E f \in flights' : f.key = j) \/ j \in failed'
                       \/ j \in invalid' /\ j \notin OnScreen
    BY <1>1, <1>8 DEF CachedSeesChange, InFlight
  <2>1. j \notin missed /\ j \in AllKeys
    BY <1>2, <1>8
  <2>2. CASE j \in Holding(c.list)
    <3>1. j = k
      BY <1>7, <2>2
    <3>. QED  BY <1>1, <1>5, <3>1 DEF ks
  <2>3. CASE j \notin Holding(c.list)
    <3>1. acked'[j] = acked[j]
      BY <1>6, <2>1, <2>3
    <3>2. CASE InFlight(j)
      BY <1>5, <3>2 DEF InFlight
    <3>3. CASE ~InFlight(j)
      BY <1>1, <1>5, <2>1, <3>1, <3>3 DEF SettingsInv, CachedSeesChange
    <3>. QED  BY <3>2, <3>3
  <2>. QED  BY <2>2, <2>3
<1>. QED  BY <1>9, <1>10, <1>11, <1>12, <1>13 DEF SettingsInv

(* A change is refused. *)
LEMMA RefuseStep ==
    ASSUME SettingsInv, NEW c \in pending, Refuse(c)
    PROVE  SettingsInv'
<1>1. /\ pending' = pending \ {c}
      /\ UNCHANGED <<follow, cache, failed, flights, invalid, page, sel, rows, acked, missed, sent>>
  BY DEF Refuse, browser
<1>2. Shape'
  BY <1>1 DEF SettingsInv, Shape, TypeOK
<1>3. CountInv'
  BY <1>1, SettledCount
<1>4. VersionInv' /\ RefetchSeesChange' /\ OneFlight'
  BY <1>1 DEF SettingsInv, VersionInv, RefetchSeesChange, OneFlight
<1>5. CachedSeesChange'
  BY <1>1 DEF SettingsInv, CachedSeesChange, InFlight, OnScreen, KeysOf, Active
<1>. QED  BY <1>2, <1>3, <1>4, <1>5 DEF SettingsInv

(* The server answers a request: with all that it has acknowledged. *)
LEMMA AnswerStep ==
    ASSUME SettingsInv, NEW f \in flights, Answer(f)
    PROVE  SettingsInv'
<1>. DEFINE g == [f EXCEPT !.ver = rows[f.key]]
<1>1. /\ flights' = (flights \ {f}) \cup {g}
      /\ UNCHANGED <<follow, page, sel, cache, failed, invalid, pending, rows, acked, missed, sent>>
  BY DEF Answer
<1>2. /\ Shape /\ CountInv /\ VersionInv /\ flights \subseteq Requests /\ f \in Requests
      /\ rows \in [AllKeys -> 0 .. MaxChanges]
  BY DEF SettingsInv, Shape, TypeOK
<1>3. f.key \in AllKeys /\ rows[f.key] \in 0 .. MaxChanges /\ acked[f.key] <= rows[f.key]
  BY <1>2 DEF Requests, VersionInv
<1>4. g \in Requests /\ g.key = f.key /\ g.ver = rows[f.key]
  BY <1>2, <1>3, SettingsAssumption DEF Requests
<1>. HIDE DEF g
<1>5. Shape'
  <2>1. flights' \subseteq Requests
    BY <1>1, <1>2, <1>4
  <2>2. \A h \in flights' : h.key \in AllKeys /\ h.ver \in -1 .. MaxChanges
    BY <2>1 DEF Requests
  <2>. QED  BY <1>1, <1>2, <2>1, <2>2 DEF Shape, TypeOK
<1>6. CountInv' /\ VersionInv' /\ OneFlight'
  <2>1. CountInv' /\ VersionInv'
    BY <1>1, <1>2 DEF CountInv, VersionInv
  <2>2. OneFlight
    BY DEF SettingsInv
  <2>. QED  BY <1>1, <1>4, <2>1, <2>2 DEF OneFlight
<1>7. RefetchSeesChange'
  <2>1. acked[f.key] \in Int
    BY <1>2 DEF Shape, TypeOK, Requests
  <2>. QED  BY <1>1, <1>3, <1>4, <2>1 DEF SettingsInv, RefetchSeesChange
<1>8. CachedSeesChange'
  <2>1. \A j : InFlight(j) => \E h \in flights' : h.key = j
    BY <1>1, <1>4 DEF InFlight
  <2>. QED  BY <1>1, <2>1 DEF SettingsInv, CachedSeesChange, InFlight, OnScreen, KeysOf, Active
<1>. QED  BY <1>5, <1>6, <1>7, <1>8 DEF SettingsInv

(* An answer arrives. *)
LEMMA ArriveStep ==
    ASSUME SettingsInv, NEW f \in flights, Arrive(f)
    PROVE  SettingsInv'
<1>1. /\ f.ver # Unanswered /\ cache' = Stored(f)
      /\ flights' = flights \ {f} /\ failed' = failed \ {f.key} /\ invalid' = invalid \ {f.key}
      /\ missed' = IF f.ver >= acked[f.key] THEN missed \ {f.key} ELSE missed
      /\ UNCHANGED <<follow, page, sel, pending, rows, acked, sent>>
  BY DEF Arrive
<1>2. Shape /\ OneFlight /\ f \in Requests /\ invalid \subseteq DOMAIN cache /\ DOMAIN cache \subseteq AllKeys
  BY DEF SettingsInv, Shape, TypeOK
<1>3. f.key \in AllKeys /\ f.ver \in 0 .. MaxChanges
  BY <1>1, <1>2, SettingsAssumption DEF Requests, Unanswered
<1>4. /\ DOMAIN cache' = DOMAIN cache \cup {f.key}
      /\ cache'[f.key].ver = f.ver
      /\ \A k \in DOMAIN cache : k # f.key => cache'[k] = cache[k]
  BY <1>1, StoredFacts
<1>5. Shape'
  <2>1. \A k \in DOMAIN cache' : cache'[k].ver \in 0 .. MaxChanges
    BY <1>2, <1>3, <1>4 DEF Shape
  <2>2. DOMAIN cache' \subseteq AllKeys /\ invalid' \subseteq DOMAIN cache'
    BY <1>1, <1>2, <1>3, <1>4
  <2>. QED  BY <1>1, <1>2, <2>1, <2>2 DEF Shape, TypeOK
<1>6. CountInv' /\ VersionInv' /\ OneFlight'
  BY <1>1 DEF SettingsInv, CountInv, VersionInv, OneFlight
<1>7. RefetchSeesChange'
  <2>. SUFFICES ASSUME NEW g \in flights', g.ver # Unanswered, g.key \notin missed'
                PROVE  g.ver >= acked[g.key]
    BY <1>1 DEF RefetchSeesChange
  <2>1. g \in flights /\ g.key # f.key
    BY <1>1, <1>2 DEF OneFlight
  <2>2. g.key \notin missed
    BY <1>1, <2>1
  <2>. QED  BY <2>1, <2>2 DEF SettingsInv, RefetchSeesChange
<1>8. CachedSeesChange'
  <2>. SUFFICES ASSUME NEW j \in DOMAIN cache' \ missed'
                PROVE  \/ cache'[j].ver >= acked[j] \/ (\E h \in flights' : h.key = j) \/ j \in failed'
                       \/ j \in invalid' /\ j \notin OnScreen
    BY <1>1 DEF CachedSeesChange, InFlight, OnScreen, KeysOf, Active
  <2>1. CASE j = f.key
    BY <1>1, <1>4, <2>1 DEF SettingsInv, RefetchSeesChange
  <2>2. CASE j # f.key
    <3>1. j \in DOMAIN cache \ missed /\ cache'[j] = cache[j]
      BY <1>1, <1>4, <2>2
    <3>2. InFlight(j) => \E h \in flights' : h.key = j
      BY <1>1, <2>2 DEF InFlight
    <3>. QED  BY <1>1, <2>2, <3>1, <3>2 DEF SettingsInv, CachedSeesChange
  <2>. QED  BY <2>1, <2>2
<1>. QED  BY <1>5, <1>6, <1>7, <1>8 DEF SettingsInv

(* A request fails. *)
LEMMA FailStep ==
    ASSUME SettingsInv, NEW f \in flights, Fail(f)
    PROVE  SettingsInv'
<1>1. /\ flights' = flights \ {f} /\ failed' = failed \cup {f.key}
      /\ UNCHANGED <<follow, page, sel, cache, invalid, pending, rows, acked, missed, sent>>
  BY DEF Fail
<1>2. Shape'
  <2>1. f.key \in AllKeys
    BY DEF SettingsInv, Shape, TypeOK
  <2>. QED  BY <1>1, <2>1 DEF SettingsInv, Shape, TypeOK
<1>3. CountInv' /\ VersionInv' /\ RefetchSeesChange' /\ OneFlight'
  BY <1>1 DEF SettingsInv, CountInv, VersionInv, RefetchSeesChange, OneFlight
<1>4. CachedSeesChange'
  <2>1. \A j : InFlight(j) => j = f.key \/ \E h \in flights' : h.key = j
    BY <1>1 DEF InFlight
  <2>. QED  BY <1>1, <2>1 DEF SettingsInv, CachedSeesChange, InFlight, OnScreen, KeysOf, Active
<1>. QED  BY <1>2, <1>3, <1>4 DEF SettingsInv

(* Every step of the pages preserves the invariant. *)
LEMMA SettingsStep == SettingsInv /\ [Next]_vars => SettingsInv'
<1>. SUFFICES ASSUME SettingsInv, [Next]_vars PROVE SettingsInv'
  OBVIOUS
<1>1. page \in Pages /\ sel \in Selections
  BY DEF SettingsInv, Shape, TypeOK, Selections
<1>2. ASSUME NEW p \in Pages, Navigate(p) PROVE SettingsInv'
  BY <1>1, <1>2, ShowStep DEF Navigate, Selections
<1>3. ASSUME NEW p \in Projects \cup {All}, SelectProject(p) PROVE SettingsInv'
  BY <1>1, <1>3, ShowStep DEF SelectProject, Selections
<1>4. ASSUME NEW p \in Projects, Expand(p) PROVE SettingsInv'
  <2>1. [sel EXCEPT !.expanded = IF @ = p THEN None ELSE p] \in Selections
    BY <1>1 DEF Selections
  <2>. QED  BY <1>1, <1>4, <2>1, ShowStep DEF Expand
<1>5. CASE Focus
  BY <1>5, FocusStep
<1>6. CASE \/ CreateProject \/ CreateAPIKey \/ RevokeAPIKey \/ AddMember
           \/ \E both \in BOOLEAN : UpdateMemberRole(both) \/ RemoveMember(both)
           \/ CreateInvite \/ RevokeInvite \/ DeleteUser \/ CreateWebhook \/ DeleteWebhook
           \/ CreateMonitor \/ UpdateMonitor \/ DeleteMonitor
  BY <1>6, SubmitStep
     DEF CreateProject, CreateAPIKey, RevokeAPIKey, AddMember, UpdateMemberRole, RemoveMember,
         CreateInvite, RevokeInvite, DeleteUser, CreateWebhook, DeleteWebhook, CreateMonitor,
         UpdateMonitor, DeleteMonitor
<1>7. ASSUME NEW c \in pending, Apply(c) \/ Reply(c) \/ Refuse(c) PROVE SettingsInv'
  BY <1>7, ApplyStep, ReplyStep, RefuseStep
<1>8. ASSUME NEW f \in flights, Answer(f) \/ Arrive(f) \/ Fail(f) PROVE SettingsInv'
  BY <1>8, AnswerStep, ArriveStep, FailStep
<1>9. CASE UNCHANGED vars
  BY <1>9 DEF vars, SettingsInv, Shape, TypeOK, CountInv, VersionInv, RefetchSeesChange,
              CachedSeesChange, InFlight, OnScreen, KeysOf, Active, OneFlight
<1>. QED  BY <1>2, <1>3, <1>4, <1>5, <1>6, <1>7, <1>8, <1>9 DEF Next

(* The strengthened invariant implies what the runs check. *)
LEMMA SettingsImplies ==
    SettingsInv => TypeOK /\ AcknowledgedChangeShows /\ RefetchSeesChange
BY DEF SettingsInv, Shape, CachedSeesChange, AcknowledgedChangeShows, OnScreen

-----------------------------------------------------------------------------
(* Every state of the settings pages has the shape that the model gives it, and
   no version, that of the list of all monitors included, exceeds the number of
   changes that were sent. *)
THEOREM SettingsTypeOK == Spec => []TypeOK
BY SettingsInit, SettingsStep, SettingsImplies, PTL DEF Spec

(* A list on screen that no acknowledgement missed shows every acknowledged
   change, or is being fetched, or its last fetch failed, for any number of
   projects, moves and changes: Invalidate asks for it again or marks it, and the
   mark is kept until the list is asked for.  A list that Missed names is exempt
   until an answer with the change arrives. *)
THEOREM SettingsAcknowledgedChangeShows == Spec => []AcknowledgedChangeShows
BY SettingsInit, SettingsStep, SettingsImplies, PTL DEF Spec

(* No answer from before an acknowledged change is on its way to a list, a first
   load included, unless Missed names the list: what was under way before is
   cancelled by Refetch. *)
THEOREM SettingsRefetchSeesChange == Spec => []RefetchSeesChange
BY SettingsInit, SettingsStep, SettingsImplies, PTL DEF Spec
=============================================================================
