------------------------- MODULE AuditViewsProofs ---------------------------
(***************************************************************************)
(* Proofs about AuditViews for any projects, environments and tracked      *)
(* queries and any number of pages, moves, batches and failures: its type  *)
(* invariant, that a panel shows an answer to the present selection, that  *)
(* it waits only for a request that is under way, and that data on screen  *)
(* does not go back in time.                                               *)
(***************************************************************************)
EXTENDS AuditViews, TLAPS

Queries ==
    {"list", "stats", "alerts", "orphans", "history", "insights", "sessions", "timeline",
     "lookup", "detail", "related", "affected", "monitors", "panel", "health", "grid",
     "wbprojects"}

Fields ==
    {"project", "env", "number", "field", "path", "class", "range", "dates", "sort",
     "session", "end", "lookup", "event", "details", "period", "mode"}

(* a selection the page can have *)
IsSelection(s) ==
    /\ DOMAIN s = Fields
    /\ s.number \in 0 .. MaxPage
    /\ s.project \in Projects \cup {All} /\ s.env \in Envs \cup {All}
    /\ s.mode \in {"dashboard", "grid"}

(* What was asked is what any selection with this key asks for, but for the
   session end that the key leaves out. *)
Answers(k, req) ==
    \A v \in Queries : \A s : IsSelection(s) /\ KeyOf(v, s) = k => AsksFor(v, s, req)

IsRequest(f) == DOMAIN f = {"key", "req", "ver"} /\ Answers(f.key, f.req)

(* The shape of the state in more detail than the runs check it. *)
Shape ==
    /\ TypeOK /\ IsSelection(sel)
    /\ \A f \in flights : IsRequest(f) /\ f.ver \in Denied .. ver
    /\ \A k \in DOMAIN cache : cache[k].ver \in 0 .. ver
    /\ \A k \in DOMAIN cache : Answers(k, cache[k].req)

(* A key has one request under way, and its answer will be no older than what
   is cached. *)
OneFlight == \A f, g \in flights : f.key = g.key => f = g
Newer ==
    \A f \in flights :
        f.ver \notin {Unanswered, Denied} /\ f.key \in DOMAIN cache
            => cache[f.key].ver <= f.ver

ViewsInv == Shape /\ OneFlight /\ Newer /\ WaitsOnlyWhileFetching

-----------------------------------------------------------------------------
(* Facts about keys and requests *)

(* The parts of the key of a query. *)
LEMMA KeyFacts ==
    ASSUME NEW v, NEW s
    PROVE  /\ KeyOf(v, s)[1] = v
           /\ v # "list" => \A x \in KeyFields(v) : KeyOf(v, s)[2][x] = s[x]
           /\ v = "list" => \A x \in ListKey : KeyOf(v, s)[2][x] = ActiveFilters(s)[x]
<1>1. v = "list" => KeyFields(v) = ListKey
  BY DEF KeyFields, Wallboard
<1>. QED  BY <1>1 DEF KeyOf, Restrict

(* Two selections that give a query the same key ask for the same thing: no
   request but that for a timeline depends on what its key leaves out. *)
LEMMA KeyDeterminesRequest ==
    ASSUME NEW v \in Queries \ {"timeline"}, NEW s, DOMAIN s = Fields,
           NEW t, DOMAIN t = Fields, KeyOf(v, s) = KeyOf(v, t)
    PROVE  Request(v, s) = Request(v, t)
<1>1. CASE v = "list"
  <2>1. \A x \in ListKey : ActiveFilters(s)[x] = ActiveFilters(t)[x]
    BY <1>1, KeyFacts
  <2>. QED  BY <1>1, <2>1 DEF ListKey, Request, ListAudit, Since
<1>2. CASE v # "list"
  <2>1. \A x \in KeyFields(v) : s[x] = t[x]
    BY <1>2, KeyFacts
  <2>2. CASE v \in {"stats", "alerts", "orphans"}
    <3>1. s.project = t.project /\ s.env = t.env
      BY <2>1, <2>2 DEF KeyFields, Wallboard, AuditKey
    <3>. QED  BY <2>2, <3>1 DEF Request, GetAuditStats, AlertFilters, GetOrphans
  <2>3. CASE v = "history"
    <3>1. s.project = t.project /\ s.env = t.env
      BY <2>1, <2>3 DEF KeyFields, Wallboard, HistoryKey
    <3>. QED  BY <2>3, <3>1 DEF Request, GetAuditHistory
  <2>4. CASE v = "insights"
    <3>1. s.project = t.project /\ s.env = t.env /\ s.period = t.period
      BY <2>1, <2>4 DEF KeyFields, Wallboard, AuditKey
    <3>. QED  BY <2>4, <3>1 DEF Request, GetInsights
  <2>5. CASE v = "sessions"
    <3>1. s.project = t.project /\ s.env = t.env /\ s.field = t.field /\ s.dates = t.dates
      BY <2>1, <2>5 DEF KeyFields, Wallboard, AuditKey
    <3>. QED  BY <2>5, <3>1 DEF Request, GetSessions
  <2>7. CASE v = "lookup"
    <3>1. s.lookup = t.lookup
      BY <2>1, <2>7 DEF KeyFields, Wallboard, AuditKey
    <3>. QED  BY <2>7, <3>1 DEF Request, GetSessionByID
  <2>8. CASE v = "detail"
    <3>1. s.event = t.event
      BY <2>1, <2>8 DEF KeyFields, Wallboard, AuditKey
    <3>. QED  BY <2>8, <3>1 DEF Request, GetAuditDetail
  <2>9. CASE v \in {"related", "affected"}
    <3>1. s.event = t.event /\ s.project = t.project /\ s.details = t.details
      BY <2>1, <2>9 DEF KeyFields, Wallboard, AuditKey
    <3>. QED  BY <2>9, <3>1 DEF Request, BuildRelatedFilters, GetAffectedUsers
  <2>10. CASE v = "monitors"
    <3>1. s.project = t.project
      BY <2>1, <2>10 DEF KeyFields, Wallboard, MonitorsKey
    <3>. QED  BY <2>10, <3>1 DEF Request, ListMonitors
  <2>11. CASE v \in {"panel", "health", "grid", "wbprojects"}
    <3>1. /\ Request(v, s) = [x \in WallboardKey(v) |-> s[x]]
          /\ Request(v, t) = [x \in WallboardKey(v) |-> t[x]]
      BY <2>11 DEF Request, GetWb, WallboardKey, Restrict
    <3>2. KeyFields(v) = WallboardKey(v)
      BY <2>11 DEF KeyFields, Wallboard
    <3>. QED  BY <2>1, <3>1, <3>2
  <2>. QED  BY <1>2, <2>2, <2>3, <2>4, <2>5, <2>7, <2>8, <2>9, <2>10, <2>11 DEF Queries
<1>. QED  BY <1>1, <1>2

(* The same for the timeline, whose request holds the end of the session too. *)
LEMMA KeyDeterminesAnswer ==
    ASSUME NEW v \in Queries, NEW s, DOMAIN s = Fields, NEW t, DOMAIN t = Fields,
           KeyOf(v, s) = KeyOf(v, t)
    PROVE  AsksFor(v, t, Request(v, s))
<1>1. CASE v = "timeline"
  <2>1. KeyFields(v) = {"session", "project"}
    BY <1>1 DEF KeyFields, AuditKey, Wallboard
  <2>2. s.project = t.project /\ s.session = t.session
    BY <1>1, <2>1, KeyFacts
  <2>. QED  BY <1>1, <2>2 DEF AsksFor, OutsideKey, Request, TimelineFilters
<1>2. CASE v # "timeline"
  <2>1. Request(v, s) = Request(v, t)
    BY <1>2, KeyDeterminesRequest
  <2>. QED  BY <2>1 DEF AsksFor
<1>. QED  BY <1>1, <1>2

(* The pages ask known queries. *)
LEMMA ActiveFacts ==
    ASSUME NEW p \in Pages, NEW s, IsSelection(s)
    PROVE  Active(p, s) \subseteq Queries
<1>1. \A panel \in Panels(p, s) : panel \subseteq Queries
  BY DEF Panels, Pages, IsSelection, MetricCards, ServiceTable, HistoryChart, EventFeed,
         EventDetailModal, SessionTimeline, SessionLookup, SessionCards, AlertList, AlertDrawer,
         RelatedEvents, AffectedUsers, InsightsPage, TVHeader, TVPanels, HealthCarousel,
         ProjectGrid, Queries
<1>. QED  BY <1>1 DEF Active, Mounted

(* A request asks for what its key stands for. *)
LEMMA AskFacts ==
    ASSUME NEW v \in Queries, NEW s, IsSelection(s)
    PROVE  /\ IsRequest(Ask(v, s)) /\ Ask(v, s).key = KeyOf(v, s)
           /\ Ask(v, s).ver \in {Unanswered, Denied}
<1>1. ASSUME NEW w \in Queries, NEW t, IsSelection(t), KeyOf(w, t) = KeyOf(v, s)
      PROVE  AsksFor(w, t, Request(v, s))
  <2>1. w = v
    BY <1>1, KeyFacts
  <2>. QED  BY <1>1, <2>1, KeyDeterminesAnswer DEF IsSelection
<1>2. Answers(KeyOf(v, s), Request(v, s))
  BY <1>1 DEF Answers
<1>. QED  BY <1>2 DEF Ask, IsRequest

(* Two queries of one selection have two keys. *)
LEMMA AsksFacts ==
    ASSUME NEW vs \in SUBSET Queries, NEW s, IsSelection(s)
    PROVE  /\ \A a \in Asks(vs, s) : IsRequest(a) /\ a.ver \in {Unanswered, Denied}
           /\ \A a, b \in Asks(vs, s) : a.key = b.key => a = b
           /\ \A v \in vs : \E a \in Asks(vs, s) : a.key = KeyOf(v, s)
<1>1. \A a \in Asks(vs, s) : \E v \in vs : a = Ask(v, s)
  BY DEF Asks
<1>2. ASSUME NEW a \in Asks(vs, s), NEW b \in Asks(vs, s), a.key = b.key PROVE a = b
  <2>1. PICK v \in vs : a = Ask(v, s)
    BY <1>1
  <2>2. PICK w \in vs : b = Ask(w, s)
    BY <1>1
  <2>3. v = w
    BY <1>2, <2>1, <2>2, AskFacts, KeyFacts
  <2>. QED  BY <2>1, <2>2, <2>3
<1>3. \A v \in vs : Ask(v, s) \in Asks(vs, s)
  BY DEF Asks
<1>. QED  BY <1>1, <1>2, <1>3, AskFacts

(* The requests under way after a step: those of before and new ones, still one
   for each key. *)
Extends(fs) ==
    /\ \A f \in fs : f \in flights \/ (IsRequest(f) /\ f.ver \in {Unanswered, Denied})
    /\ \A f, g \in fs : f.key = g.key => f = g

(* What a fetch leaves. *)
LEMMA FetchFacts ==
    ASSUME OneFlight, NEW vs \in SUBSET Queries, NEW s, IsSelection(s), Fetch(Asks(vs, s))
    PROVE  /\ Extends(flights') /\ flights \subseteq flights'
           /\ \A v \in vs : \E f \in flights' : f.key = KeyOf(v, s)
           /\ \A k \in failed : k \in failed' \/ \E f \in flights' : f.key = k
<1>. DEFINE new == {a \in Asks(vs, s) : ~InFlight(a.key)}
<1>1. flights' = flights \cup new /\ failed' = failed \ ({a.key : a \in new} \ DOMAIN cache)
  BY DEF Fetch
<1>2. /\ \A a \in new : IsRequest(a) /\ a.ver \in {Unanswered, Denied}
      /\ \A a, b \in new : a.key = b.key => a = b
  BY AsksFacts
<1>3. \A a \in new, f \in flights : a.key # f.key
  BY DEF InFlight
<1>4. Extends(flights')
  <2>. HIDE DEF new
  <2>. QED  BY <1>1, <1>2, <1>3 DEF Extends, OneFlight
<1>5. ASSUME NEW v \in vs PROVE \E f \in flights' : f.key = KeyOf(v, s)
  <2>1. PICK a \in Asks(vs, s) : a.key = KeyOf(v, s)
    BY AsksFacts
  <2>. QED  BY <1>1, <2>1 DEF InFlight
<1>. QED  BY <1>1, <1>4, <1>5

(* What asking again leaves: a key under way stays under way. *)
LEMMA RefetchFacts ==
    ASSUME OneFlight, NEW vs \in SUBSET Queries, NEW s, IsSelection(s), Refetch(Asks(vs, s))
    PROVE  /\ Extends(flights')
           /\ \A f \in flights : \E g \in flights' : g.key = f.key
           /\ \A k \in failed : k \in failed' \/ \E f \in flights' : f.key = k
<1>. DEFINE again == {a \in Asks(vs, s) : a.key \in DOMAIN cache \/ ~InFlight(a.key)}
            keys == {a.key : a \in again}
<1>1. /\ flights' = {f \in flights : f.key \notin keys} \cup again
      /\ failed' = failed \ (keys \ DOMAIN cache)
  BY DEF Refetch
<1>2. /\ \A a \in again : IsRequest(a) /\ a.ver \in {Unanswered, Denied}
      /\ \A a, b \in again : a.key = b.key => a = b
  BY AsksFacts
<1>3. \A k \in keys : \E a \in again : a.key = k
  OBVIOUS
<1>4. \A a \in again : a.key \in keys
  OBVIOUS
<1>. HIDE DEF again, keys
<1>5. Extends(flights')
  BY <1>1, <1>2, <1>4 DEF Extends, OneFlight
<1>. QED  BY <1>1, <1>3, <1>5

(* The selection a page starts with. *)
LEMMA NewSelectionFacts == IsSelection(NewSelection)
BY ViewsAssumption DEF IsSelection, NewSelection, Fields

(* What a selector or a filter makes of a selection. *)
LEMMA SelectionFacts ==
    ASSUME NEW s, IsSelection(s)
    PROVE  /\ \A x \in Fields \ {"number", "project", "env", "mode"} : \A e :
                 IsSelection([s EXCEPT ![x] = e])
           /\ \A n \in 0 .. MaxPage : IsSelection([s EXCEPT !.number = n])
           /\ \A p \in Projects \cup {All} : IsSelection([s EXCEPT !.project = p])
           /\ \A e \in Envs \cup {All} : IsSelection([s EXCEPT !.env = e])
           /\ \A m \in {"dashboard", "grid"} : IsSelection([s EXCEPT !.mode = m])
BY DEF IsSelection, Fields

(* A step that adds requests and leaves the cache alone keeps shape and order. *)
LEMMA AskingKeeps ==
    ASSUME ViewsInv, page' \in Pages, IsSelection(sel'), nav' \in 0 .. MaxNav, Extends(flights'),
           UNCHANGED <<follow, cache, signedOut, ver, fails>>
    PROVE  Shape' /\ OneFlight' /\ Newer'
<1>1. ver \in 0 .. MaxVer
  BY DEF ViewsInv, Shape, TypeOK
<1>2. \A f \in flights' : IsRequest(f) /\ f.ver \in Denied .. ver
  BY <1>1 DEF ViewsInv, Shape, Extends, Unanswered, Denied
<1>3. \A f \in flights' : f.ver \in Denied .. MaxVer
  BY <1>1, <1>2, ViewsAssumption
<1>4. Shape'
  BY <1>2, <1>3 DEF ViewsInv, Shape, TypeOK, IsSelection, NewSelection, Fields
<1>5. OneFlight' /\ Newer'
  BY DEF ViewsInv, Extends, OneFlight, Newer
<1>. QED  BY <1>4, <1>5

-----------------------------------------------------------------------------
(* The steps *)

(* A page opened from a link satisfies the invariant. *)
LEMMA ViewsInit == Init => ViewsInv
<1>. SUFFICES ASSUME Init PROVE ViewsInv
  OBVIOUS
<1>1. page \in Pages /\ DOMAIN cache = {} /\ failed = {} /\ ver = 0 /\ nav = 0 /\ fails = 0
      /\ signedOut = FALSE /\ flights = Asks(Active(page, sel), sel)
  BY DEF Init
<1>2. IsSelection(sel)
  <2>1. IsSelection([NewSelection EXCEPT !.range = "relative"])
    BY NewSelectionFacts, SelectionFacts DEF Fields
  <2>2. IsSelection([NewSelection EXCEPT !.range = "relative", !.dates = "d"])
    BY <2>1, SelectionFacts DEF Fields
  <2>. QED  BY <2>2, NewSelectionFacts DEF Init
<1>3. Active(page, sel) \in SUBSET Queries
  BY <1>1, <1>2, ActiveFacts
<1>4. /\ \A a \in flights : IsRequest(a) /\ a.ver \in {Unanswered, Denied}
      /\ \A a, b \in flights : a.key = b.key => a = b
      /\ \A v \in Active(page, sel) : \E a \in flights : a.key = KeyOf(v, sel)
  BY <1>1, <1>2, <1>3, AsksFacts
<1>5. TypeOK
  <2>1. \A a \in flights : a.ver \in Denied .. MaxVer
    BY <1>4, ViewsAssumption DEF Unanswered, Denied
  <2>2. 0 \in 0 .. MaxVer /\ 0 \in 0 .. MaxNav /\ 0 \in 0 .. MaxFail
    BY ViewsAssumption
  <2>3. DOMAIN NewSelection = Fields
    BY DEF NewSelection, Fields
  <2>. QED  BY <1>1, <1>2, <2>1, <2>2, <2>3 DEF TypeOK, IsSelection
<1>6. Shape
  BY <1>1, <1>2, <1>4, <1>5 DEF Shape, Unanswered, Denied
<1>7. OneFlight /\ Newer
  BY <1>1, <1>4 DEF OneFlight, Newer
<1>8. WaitsOnlyWhileFetching
  BY <1>4 DEF WaitsOnlyWhileFetching, OnScreen, Key, InFlight
<1>. QED  BY <1>6, <1>7, <1>8 DEF ViewsInv

(* A new selection is rendered: what is new on screen is asked for or fresh. *)
LEMMA ShowStep ==
    ASSUME ViewsInv, NEW p \in Pages, NEW s, IsSelection(s), Show(p, s)
    PROVE  ViewsInv'
<1>. DEFINE new == {v \in Active(p, s) : ~(v \in OnScreen /\ KeyOf(v, s) = Key(v))}
<1>1. /\ nav < MaxNav /\ nav' = nav + 1 /\ page' = p /\ sel' = s
      /\ UNCHANGED <<follow, cache, signedOut, ver, fails>>
  BY DEF Show
<1>2. PICK vs \in Stale(new, s) : Fetch(Asks(vs, s))
  BY DEF Show
<1>3. vs \in SUBSET Queries /\ vs \subseteq new /\ \A v \in new \ vs : KeyOf(v, s) \in DOMAIN cache
  BY <1>2, ActiveFacts DEF Stale
<1>. HIDE DEF new
<1>4. /\ Extends(flights') /\ flights \subseteq flights'
      /\ \A v \in vs : \E f \in flights' : f.key = KeyOf(v, s)
      /\ \A k \in failed : k \in failed' \/ \E f \in flights' : f.key = k
  BY <1>2, <1>3, FetchFacts DEF ViewsInv
<1>5. nav' \in 0 .. MaxNav
  BY <1>1, ViewsAssumption DEF ViewsInv, Shape, TypeOK
<1>6. Shape' /\ OneFlight' /\ Newer'
  BY <1>1, <1>4, <1>5, AskingKeeps
<1>7. WaitsOnlyWhileFetching'
  <2>1. ASSUME NEW v \in Active(p, s)
        PROVE  \/ KeyOf(v, s) \in DOMAIN cache \/ KeyOf(v, s) \in failed'
               \/ \E f \in flights' : f.key = KeyOf(v, s)
    <3>1. CASE v \in new
      BY <1>3, <1>4, <3>1
    <3>2. CASE v \notin new
      BY <1>4, <3>2 DEF new, ViewsInv, WaitsOnlyWhileFetching, Key, InFlight
    <3>. QED  BY <3>1, <3>2
  <2>2. OnScreen' = Active(p, s)
    BY <1>1 DEF OnScreen, Active
  <2>. QED  BY <1>1, <2>1, <2>2 DEF WaitsOnlyWhileFetching, Key, InFlight
<1>. QED  BY <1>6, <1>7 DEF ViewsInv

(* The window gets the focus back: what is on screen is asked for or fresh. *)
LEMMA FocusStep ==
    ASSUME ViewsInv, Focus
    PROVE  ViewsInv'
<1>. DEFINE s == [sel EXCEPT !.details = IF @ = "failed" THEN None ELSE @]
<1>1. /\ nav < MaxNav /\ nav' = nav + 1 /\ sel' = s
      /\ UNCHANGED <<follow, page, cache, signedOut, ver, fails>>
  BY DEF Focus
<1>2. IsSelection(sel) /\ page \in Pages
  BY DEF ViewsInv, Shape, TypeOK
<1>3. IsSelection(s)
  BY <1>2, SelectionFacts DEF Fields
<1>. HIDE DEF s
<1>4. PICK vs \in Stale(Active(page, s), s) : Fetch(Asks(vs, s))
  BY <1>1 DEF Focus
<1>5. /\ vs \in SUBSET Queries
      /\ \A v \in Active(page, s) \ vs : KeyOf(v, s) \in DOMAIN cache
  BY <1>2, <1>3, <1>4, ActiveFacts DEF Stale
<1>6. Extends(flights') /\ \A v \in vs : \E f \in flights' : f.key = KeyOf(v, s)
  BY <1>3, <1>4, <1>5, FetchFacts DEF ViewsInv
<1>7. nav' \in 0 .. MaxNav
  BY <1>1, ViewsAssumption DEF ViewsInv, Shape, TypeOK
<1>8. Shape' /\ OneFlight' /\ Newer'
  BY <1>1, <1>2, <1>3, <1>6, <1>7, AskingKeeps
<1>9. OnScreen' = Active(page, s)
  BY <1>1 DEF OnScreen, Active
<1>10. WaitsOnlyWhileFetching'
  BY <1>1, <1>5, <1>6, <1>9 DEF WaitsOnlyWhileFetching, Key, InFlight
<1>. QED  BY <1>8, <1>10 DEF ViewsInv

(* A step that asks again for what is on screen. *)
LEMMA AskingAgain ==
    ASSUME ViewsInv, Extends(flights'), UNCHANGED <<follow, page, sel, cache, signedOut, ver, fails>>,
           nav' \in 0 .. MaxNav,
           \A f \in flights : \E g \in flights' : g.key = f.key,
           \A k \in failed : k \in failed' \/ \E f \in flights' : f.key = k
    PROVE  ViewsInv'
<1>1. IsSelection(sel) /\ page \in Pages
  BY DEF ViewsInv, Shape, TypeOK
<1>2. IsSelection(sel') /\ page' \in Pages
  <2>1. sel' = sel /\ page' = page
    OBVIOUS
  <2>. QED  BY <1>1, <2>1
<1>3. Shape' /\ OneFlight' /\ Newer'
  BY <1>2, AskingKeeps
<1>4. OnScreen' = OnScreen
  BY DEF OnScreen, Active
<1>5. WaitsOnlyWhileFetching'
  BY <1>4 DEF ViewsInv, WaitsOnlyWhileFetching, Key, InFlight
<1>. QED  BY <1>3, <1>5 DEF ViewsInv

(* The interval of a query fires. *)
LEMMA PollStep ==
    ASSUME ViewsInv, NEW v \in Polled, Poll(v)
    PROVE  ViewsInv'
<1>1. Fetch(Asks({v}, sel)) /\ UNCHANGED <<follow, page, sel, cache, signedOut, ver, nav, fails>>
  BY DEF Poll, Asks
<1>2. {v} \in SUBSET Queries /\ IsSelection(sel) /\ OneFlight /\ nav' \in 0 .. MaxNav
  BY <1>1 DEF Polled, Queries, ViewsInv, Shape, TypeOK
<1>3. /\ Extends(flights') /\ flights \subseteq flights'
      /\ \A k \in failed : k \in failed' \/ \E f \in flights' : f.key = k
  BY <1>1, <1>2, FetchFacts
<1>. QED  BY <1>1, <1>2, <1>3, AskingAgain

(* The Refresh button. *)
LEMMA RefreshStep ==
    ASSUME ViewsInv, Refresh
    PROVE  ViewsInv'
<1>. DEFINE vs == {"stats", "list"} \cap follow
<1>1. /\ Refetch(Asks(vs, sel)) /\ UNCHANGED <<follow, page, sel, cache, signedOut, ver, fails>>
      /\ nav < MaxNav /\ nav' = nav + 1
  BY DEF Refresh
<1>2. vs \in SUBSET Queries /\ IsSelection(sel) /\ OneFlight /\ nav' \in 0 .. MaxNav
  BY <1>1, ViewsAssumption DEF Queries, ViewsInv, Shape, TypeOK
<1>. HIDE DEF vs
<1>3. /\ Extends(flights')
      /\ \A f \in flights : \E g \in flights' : g.key = f.key
      /\ \A k \in failed : k \in failed' \/ \E f \in flights' : f.key = k
  BY <1>1, <1>2, RefetchFacts
<1>. QED  BY <1>1, <1>2, <1>3, AskingAgain

(* New events enter the trail. *)
LEMMA NewEventsStep ==
    ASSUME ViewsInv, NewEvents
    PROVE  ViewsInv'
<1>1. /\ ver < MaxVer /\ ver' = ver + 1
      /\ UNCHANGED <<follow, page, sel, cache, failed, flights, signedOut, nav, fails>>
  BY DEF NewEvents
<1>2. TypeOK /\ ver \in 0 .. MaxVer
  BY DEF ViewsInv, Shape, TypeOK
<1>3. TypeOK'
  BY <1>1, <1>2, ViewsAssumption DEF TypeOK
<1>4. Shape'
  <2>1. \A f \in flights : IsRequest(f) /\ f.ver \in Denied .. ver + 1
    BY <1>2 DEF ViewsInv, Shape
  <2>2. /\ \A k \in DOMAIN cache : cache[k].ver \in 0 .. ver
        /\ \A k \in DOMAIN cache : Answers(k, cache[k].req)
    BY DEF ViewsInv, Shape
  <2>3. ASSUME NEW k \in DOMAIN cache PROVE cache[k].ver \in 0 .. ver + 1
    <3>1. cache[k].ver \in 0 .. ver
      BY <2>2
    <3>2. 0 .. ver \subseteq 0 .. ver + 1
      BY <1>2, ViewsAssumption
    <3>. QED  BY <3>1, <3>2
  <2>4. IsSelection(sel) /\ sel' = sel /\ flights' = flights /\ cache' = cache /\ ver' = ver + 1
    BY <1>1 DEF ViewsInv, Shape
  <2>. QED  BY <1>3, <2>1, <2>2, <2>3, <2>4 DEF Shape
<1>5. OneFlight' /\ Newer' /\ WaitsOnlyWhileFetching'
  BY <1>1 DEF ViewsInv, OneFlight, Newer, WaitsOnlyWhileFetching, OnScreen, Active, Key, InFlight
<1>. QED  BY <1>4, <1>5 DEF ViewsInv

(* The Reader answers from the trail as it is: no older than what is cached. *)
LEMMA AnswerStep ==
    ASSUME ViewsInv, NEW f \in flights, Answer(f)
    PROVE  ViewsInv'
<1>. DEFINE g == [f EXCEPT !.ver = ver]
<1>1. /\ flights' = (flights \ {f}) \cup {g}
      /\ UNCHANGED <<follow, page, sel, cache, failed, signedOut, ver, nav, fails>>
  BY DEF Answer
<1>2. TypeOK /\ ver \in 0 .. MaxVer /\ IsRequest(f)
  BY DEF ViewsInv, Shape, TypeOK
<1>3. DOMAIN g = DOMAIN f /\ g.key = f.key /\ g.req = f.req /\ g.ver = ver
  BY <1>2 DEF IsRequest
<1>. HIDE DEF g
<1>4. IsRequest(g)
  BY <1>2, <1>3 DEF IsRequest
<1>5. TypeOK'
  BY <1>1, <1>2, <1>3, ViewsAssumption DEF TypeOK, Denied
<1>6. Shape'
  <2>1. \A h \in flights' : IsRequest(h) /\ h.ver \in Denied .. ver
    BY <1>1, <1>2, <1>3, <1>4, ViewsAssumption DEF ViewsInv, Shape, Denied
  <2>2. /\ \A k \in DOMAIN cache : cache[k].ver \in 0 .. ver
        /\ \A k \in DOMAIN cache : Answers(k, cache[k].req)
    BY DEF ViewsInv, Shape
  <2>3. IsSelection(sel) /\ sel' = sel /\ cache' = cache /\ ver' = ver
    BY <1>1 DEF ViewsInv, Shape
  <2>. QED  BY <1>5, <2>1, <2>2, <2>3 DEF Shape
<1>7. OneFlight'
  BY <1>1, <1>3 DEF ViewsInv, OneFlight
<1>8. Newer'
  <2>1. ASSUME NEW k \in DOMAIN cache PROVE cache[k].ver <= ver
    <3>1. cache[k].ver \in 0 .. ver
      BY DEF ViewsInv, Shape
    <3>2. \A i \in 0 .. ver : i <= ver
      BY <1>2, ViewsAssumption
    <3>. QED  BY <3>1, <3>2
  <2>. QED  BY <1>1, <1>3, <2>1 DEF ViewsInv, Newer
<1>9. WaitsOnlyWhileFetching'
  <2>1. \A k : InFlight(k) => \E h \in flights' : h.key = k
    BY <1>1, <1>3 DEF InFlight
  <2>. QED  BY <1>1, <2>1 DEF ViewsInv, WaitsOnlyWhileFetching, OnScreen, Active, Key, InFlight
<1>. QED  BY <1>6, <1>7, <1>8, <1>9 DEF ViewsInv

(* When an answer arrives or a request fails, what comes on screen with it is
   asked for. *)
LEMMA OpenedFacts ==
    ASSUME ViewsInv, NEW f \in flights, NEW d, NEW s, s = Opened(f, d)
    PROVE  /\ IsSelection(s)
           /\ Extends((flights \ {f}) \cup FromDetails(f, s))
           /\ \A v \in Active(page, s) :
                 LET k == KeyOf(v, s) IN
                 k = f.key \/ k \in DOMAIN cache \/ k \in failed
                    \/ \E g \in (flights \ {f}) \cup FromDetails(f, s) : g.key = k
<1>1. IsSelection(sel) /\ page \in Pages /\ OneFlight
  BY DEF ViewsInv, Shape, TypeOK
<1>2. IsSelection(s)
  BY <1>1, SelectionFacts DEF Opened, Fields
<1>. DEFINE vs == {v \in Active(page, s) \ {"detail"} : s # sel /\ ~InFlight(KeyOf(v, s))}
<1>3. vs \in SUBSET Queries /\ FromDetails(f, s) = Asks(vs, s)
  BY <1>1, <1>2, ActiveFacts DEF FromDetails
<1>4. /\ \A a \in Asks(vs, s) : IsRequest(a) /\ a.ver \in {Unanswered, Denied}
      /\ \A a, b \in Asks(vs, s) : a.key = b.key => a = b
      /\ \A v \in vs : \E a \in Asks(vs, s) : a.key = KeyOf(v, s)
  <2>. HIDE DEF vs
  <2>. QED  BY <1>2, <1>3, AsksFacts
<1>5. \A a \in Asks(vs, s) : ~InFlight(a.key)
  BY <1>2, <1>3, AskFacts DEF Asks
<1>6. Extends((flights \ {f}) \cup FromDetails(f, s))
  <2>. HIDE DEF vs
  <2>. QED  BY <1>1, <1>3, <1>4, <1>5 DEF Extends, OneFlight, InFlight
<1>7. ASSUME NEW v \in Active(page, s)
      PROVE  LET k == KeyOf(v, s) IN
             k = f.key \/ k \in DOMAIN cache \/ k \in failed
                \/ \E g \in (flights \ {f}) \cup FromDetails(f, s) : g.key = k
  <2>1. CASE s = sel
    BY <2>1 DEF ViewsInv, WaitsOnlyWhileFetching, OnScreen, Key, InFlight
  <2>2. CASE s # sel /\ v = "detail"
    <3>1. f.key = Key("detail") /\ s = [sel EXCEPT !.details = d]
      BY <2>2 DEF Opened
    <3>2. s.event = sel.event
      BY <1>1, <3>1 DEF IsSelection, Fields
    <3>3. KeyFields("detail") = {"event"}
      BY DEF KeyFields, Wallboard, AuditKey
    <3>4. KeyOf("detail", s) = KeyOf("detail", sel)
      BY <3>2, <3>3 DEF KeyOf, Restrict
    <3>. QED  BY <2>2, <3>1, <3>4 DEF Key
  <2>3. CASE s # sel /\ v # "detail"
    <3>1. CASE InFlight(KeyOf(v, s))
      BY <3>1 DEF InFlight
    <3>2. CASE ~InFlight(KeyOf(v, s))
      BY <1>3, <1>4, <2>3, <3>2
    <3>. QED  BY <3>1, <3>2
  <2>. QED  BY <2>1, <2>2, <2>3
<1>. QED  BY <1>2, <1>6, <1>7

(* An answer arrives: it is the only one for its key, and no older than the one
   it replaces. *)
LEMMA ArriveStep ==
    ASSUME ViewsInv, NEW f \in flights, Arrive(f)
    PROVE  ViewsInv'
<1>. DEFINE s == Opened(f, "known")
            fs == (flights \ {f}) \cup FromDetails(f, s)
<1>1. /\ f.ver \notin {Unanswered, Denied} /\ cache' = Stored(f) /\ sel' = s /\ flights' = fs
      /\ failed' = failed \ ({f.key} \cup ({g.key : g \in FromDetails(f, s)} \ DOMAIN cache))
      /\ UNCHANGED <<follow, page, signedOut, ver, nav, fails>>
  BY DEF Arrive
<1>2. TypeOK /\ page \in Pages /\ ver \in 0 .. MaxVer /\ IsRequest(f) /\ f.ver \in 0 .. ver
  BY <1>1, ViewsAssumption DEF ViewsInv, Shape, TypeOK, Unanswered, Denied
<1>3. /\ IsSelection(s) /\ Extends(fs)
      /\ \A v \in Active(page, s) :
            \/ KeyOf(v, s) = f.key \/ KeyOf(v, s) \in DOMAIN cache \/ KeyOf(v, s) \in failed
            \/ \E g \in fs : g.key = KeyOf(v, s)
  BY OpenedFacts
<1>4. /\ DOMAIN cache' = DOMAIN cache \cup {f.key}
      /\ cache'[f.key].ver = f.ver /\ cache'[f.key].req = f.req
      /\ \A k \in DOMAIN cache : k # f.key => cache'[k] = cache[k]
  BY <1>1 DEF Stored
<1>5. \A k \in failed : k \in failed' \/ k = f.key \/ \E g \in fs : g.key = k
  BY <1>1
<1>6. f \notin fs
  <2>1. \A g \in FromDetails(f, s) : g.ver \in {Unanswered, Denied}
    BY DEF FromDetails, Asks, Ask
  <2>. QED  BY <1>1, <2>1
<1>. HIDE DEF s, fs
<1>7. \A g \in flights' : IsRequest(g) /\ g.ver \in Denied .. ver
  BY <1>1, <1>2, <1>3, ViewsAssumption DEF ViewsInv, Shape, Extends, Unanswered, Denied
<1>8. \A k \in DOMAIN cache' : cache'[k].ver \in 0 .. ver
  BY <1>2, <1>4 DEF ViewsInv, Shape
<1>9. \A k \in DOMAIN cache' : Answers(k, cache'[k].req)
  BY <1>2, <1>4 DEF ViewsInv, Shape, IsRequest
<1>10. TypeOK'
  <2>1. \A g \in flights' : g.ver \in Denied .. MaxVer
    BY <1>2, <1>7, ViewsAssumption
  <2>2. \A k \in DOMAIN cache' : cache'[k].ver \in 0 .. MaxVer
    BY <1>2, <1>8, ViewsAssumption
  <2>. QED  BY <1>1, <1>2, <1>3, <2>1, <2>2 DEF TypeOK, IsSelection, NewSelection, Fields
<1>11. Shape'
  BY <1>1, <1>3, <1>7, <1>8, <1>9, <1>10 DEF Shape
<1>12. OneFlight'
  BY <1>1, <1>3 DEF Extends, OneFlight
<1>13. Newer'
  <2>. SUFFICES ASSUME NEW g \in flights', g.ver \notin {Unanswered, Denied}, g.key \in DOMAIN cache'
                PROVE  cache'[g.key].ver <= g.ver
    BY DEF Newer
  <2>1. g \in flights /\ g # f
    BY <1>1, <1>3, <1>6 DEF Extends
  <2>2. g.key # f.key
    BY <2>1 DEF ViewsInv, OneFlight
  <2>. QED  BY <1>4, <2>1, <2>2 DEF ViewsInv, Newer
<1>14. WaitsOnlyWhileFetching'
  <2>1. OnScreen' = Active(page, s)
    BY <1>1 DEF OnScreen, Active
  <2>. QED  BY <1>1, <1>3, <1>4, <1>5, <2>1 DEF WaitsOnlyWhileFetching, Key, InFlight
<1>. QED  BY <1>11, <1>12, <1>13, <1>14 DEF ViewsInv

(* A request fails, of itself or for want of tokens. *)
LEMMA FailStep ==
    ASSUME ViewsInv, NEW f \in flights, Fail(f) \/ Deny(f)
    PROVE  ViewsInv'
<1>. DEFINE s == Opened(f, "failed")
            fs == (flights \ {f}) \cup FromDetails(f, s)
<1>0. fails' \in 0 .. MaxFail
  BY ViewsAssumption DEF Fail, Deny, ViewsInv, Shape, TypeOK
<1>1. /\ sel' = s /\ flights' = fs
      /\ failed' = (failed \cup {f.key}) \ ({g.key : g \in FromDetails(f, s)} \ DOMAIN cache)
      /\ UNCHANGED <<follow, page, cache, signedOut, ver, nav>>
  BY DEF Fail, Deny, Reject
<1>2. TypeOK /\ page \in Pages /\ ver \in 0 .. MaxVer
  BY DEF ViewsInv, Shape, TypeOK
<1>3. /\ IsSelection(s) /\ Extends(fs)
      /\ \A v \in Active(page, s) :
            \/ KeyOf(v, s) = f.key \/ KeyOf(v, s) \in DOMAIN cache \/ KeyOf(v, s) \in failed
            \/ \E g \in fs : g.key = KeyOf(v, s)
  BY OpenedFacts
<1>4. \A k \in failed \cup {f.key} : k \in failed' \/ \E g \in fs : g.key = k
  BY <1>1
<1>. HIDE DEF s, fs
<1>5. \A g \in flights' : IsRequest(g) /\ g.ver \in Denied .. ver
  BY <1>1, <1>2, <1>3, ViewsAssumption DEF ViewsInv, Shape, Extends, Unanswered, Denied
<1>6. TypeOK'
  <2>1. \A g \in flights' : g.ver \in Denied .. MaxVer
    BY <1>2, <1>5, ViewsAssumption
  <2>. QED  BY <1>0, <1>1, <1>2, <1>3, <2>1 DEF TypeOK, IsSelection, NewSelection, Fields
<1>7. Shape'
  BY <1>1, <1>3, <1>5, <1>6 DEF ViewsInv, Shape
<1>8. OneFlight' /\ Newer'
  BY <1>1, <1>3 DEF ViewsInv, Extends, OneFlight, Newer
<1>9. WaitsOnlyWhileFetching'
  <2>1. OnScreen' = Active(page, s)
    BY <1>1 DEF OnScreen, Active
  <2>. QED  BY <1>1, <1>3, <1>4, <2>1 DEF WaitsOnlyWhileFetching, Key, InFlight
<1>. QED  BY <1>7, <1>8, <1>9 DEF ViewsInv

(* The tokens of the wallboard are cleared: some requests will not be answered. *)
LEMMA SignOutStep ==
    ASSUME ViewsInv, SignOut
    PROVE  ViewsInv'
<1>1. /\ signedOut' = TRUE
      /\ UNCHANGED <<follow, page, sel, cache, failed, ver, nav, fails>>
  BY DEF SignOut
<1>2. PICK out \in SUBSET {f \in flights : f.ver = Unanswered} :
        flights' = (flights \ out) \cup {[f EXCEPT !.ver = Denied] : f \in out}
  BY DEF SignOut
<1>. DEFINE off(f) == [f EXCEPT !.ver = Denied]
<1>3. \A f \in flights : /\ IsRequest(off(f)) /\ off(f).key = f.key
                         /\ off(f).ver = Denied
  BY DEF ViewsInv, Shape, IsRequest
<1>4. \A g \in flights' : \/ g \in flights \ out
                          \/ \E f \in out : g = off(f)
  BY <1>2
<1>5. \A f \in flights : \E g \in flights' : g.key = f.key
  <2>1. \A f \in out : off(f) \in flights'
    BY <1>2
  <2>. HIDE DEF off
  <2>. QED  BY <1>2, <1>3, <2>1
<1>. HIDE DEF off
<1>6. Extends(flights')
  <2>1. \A f \in flights' : f \in flights \/ (IsRequest(f) /\ f.ver \in {Unanswered, Denied})
    BY <1>2, <1>3, <1>4
  <2>2. ASSUME NEW g \in flights', NEW h \in flights', g.key = h.key PROVE g = h
    <3>1. PICK f1 \in flights :
             /\ g.key = f1.key
             /\ (f1 \notin out /\ g = f1) \/ (f1 \in out /\ g = off(f1))
      BY <1>2, <1>3, <1>4
    <3>2. PICK f2 \in flights :
             /\ h.key = f2.key
             /\ (f2 \notin out /\ h = f2) \/ (f2 \in out /\ h = off(f2))
      BY <1>2, <1>3, <1>4
    <3>3. f1.key = f2.key
      BY <2>2, <3>1, <3>2
    <3>4. f1 = f2
      BY <3>3 DEF ViewsInv, OneFlight
    <3>. QED  BY <3>1, <3>2, <3>4
  <2>. QED  BY <2>1, <2>2 DEF Extends
<1>7. /\ IsSelection(sel) /\ page \in Pages /\ nav \in 0 .. MaxNav /\ ver \in 0 .. MaxVer
      /\ sel' = sel /\ page' = page /\ cache' = cache /\ ver' = ver
  BY <1>1 DEF ViewsInv, Shape, TypeOK
<1>8. \A f \in flights' : IsRequest(f) /\ f.ver \in Denied .. ver
  BY <1>6, <1>7, ViewsAssumption DEF ViewsInv, Shape, Extends, Unanswered, Denied
<1>9. TypeOK'
  <2>1. \A f \in flights' : f.ver \in Denied .. MaxVer
    BY <1>7, <1>8, ViewsAssumption DEF Denied
  <2>. QED  BY <1>1, <2>1 DEF ViewsInv, Shape, TypeOK
<1>10. Shape'
  BY <1>7, <1>8, <1>9 DEF ViewsInv, Shape
<1>11. OneFlight' /\ Newer'
  BY <1>6, <1>7 DEF ViewsInv, Extends, OneFlight, Newer
<1>12. WaitsOnlyWhileFetching'
  <2>1. OnScreen' = OnScreen
    BY <1>1 DEF OnScreen, Active
  <2>. QED  BY <1>1, <1>5, <2>1 DEF ViewsInv, WaitsOnlyWhileFetching, Key, InFlight
<1>. QED  BY <1>10, <1>11, <1>12 DEF ViewsInv

(* No key holds the end of a session. *)
LEMMA EndOutsideKeys ==
    ASSUME NEW s, IsSelection(s), NEW u, NEW e, u = [s EXCEPT !.end = e], NEW v \in Queries
    PROVE  KeyOf(v, u) = KeyOf(v, s)
<1>1. /\ DOMAIN s = Fields /\ DOMAIN u = Fields
      /\ \A x \in Fields \ {"end"} : u[x] = s[x]
  BY DEF IsSelection, Fields
<1>2. CASE v = "list"
  <2>1. KeyFields(v) = ListKey
    BY <1>2 DEF KeyFields, Wallboard
  <2>2. \A w : DOMAIN w = Fields =>
          /\ \A x \in ListKey \ {"dates"} : ActiveFilters(w)[x] = w[x]
          /\ ActiveFilters(w)["dates"] = IF w.range = "relative" THEN None ELSE w.dates
    BY DEF ActiveFilters, ListKey, Fields
  <2>3. ListKey \subseteq Fields \ {"end"} /\ u.range = s.range /\ u.dates = s.dates
    BY <1>1 DEF ListKey, Fields
  <2>4. ASSUME NEW x \in ListKey PROVE ActiveFilters(u)[x] = ActiveFilters(s)[x]
    <3>1. CASE x = "dates"
      BY <1>1, <2>2, <2>3, <3>1
    <3>2. CASE x # "dates"
      <4>1. ActiveFilters(u)[x] = u[x] /\ ActiveFilters(s)[x] = s[x] /\ u[x] = s[x]
        BY <1>1, <2>2, <2>3, <3>2
      <4>. QED  BY <4>1
    <3>. QED  BY <3>1, <3>2
  <2>5. [x \in ListKey |-> ActiveFilters(u)[x]] = [x \in ListKey |-> ActiveFilters(s)[x]]
    BY <2>4
  <2>. QED  BY <1>2, <2>1, <2>5 DEF KeyOf, Restrict
<1>3. CASE v # "list"
  <2>1. KeyFields(v) \subseteq Fields \ {"end"}
    BY <1>3 DEF Queries, Fields, KeyFields, HistoryKey, MonitorsKey, Wallboard, WallboardKey,
                AuditKey
  <2>2. [x \in KeyFields(v) |-> u[x]] = [x \in KeyFields(v) |-> s[x]]
    BY <1>1, <2>1
  <2>. QED  BY <1>3, <2>2 DEF KeyOf, Restrict
<1>. QED  BY <1>2, <1>3

(* The session list gives the session another end: nothing is asked. *)
LEMMA ListedStep ==
    ASSUME ViewsInv, NEW e \in 0 .. MaxVer, SessionListed(e)
    PROVE  ViewsInv'
<1>. DEFINE s == [sel EXCEPT !.end = e]
<1>1. /\ sel' = s
      /\ UNCHANGED <<follow, page, cache, failed, flights, signedOut, ver, nav, fails>>
  BY DEF SessionListed
<1>2. IsSelection(sel) /\ page \in Pages /\ nav \in 0 .. MaxNav
  BY DEF ViewsInv, Shape, TypeOK
<1>3. IsSelection(s)
  BY <1>2, SelectionFacts DEF Fields
<1>4. \A v \in Queries : KeyOf(v, s) = KeyOf(v, sel)
  BY <1>2, EndOutsideKeys
<1>5. Active(page, s) = Active(page, sel)
  <2>1. \A x \in Fields \ {"end"} : s[x] = sel[x]
    BY <1>2 DEF IsSelection, Fields
  <2>. HIDE DEF s
  <2>2. /\ s.mode = sel.mode /\ s.project = sel.project /\ s.event = sel.event
        /\ s.details = sel.details /\ s.session = sel.session /\ s.lookup = sel.lookup
    BY <2>1 DEF Fields
  <2>3. Panels(page, s) = Panels(page, sel)
    BY <2>2 DEF Panels
  <2>4. \A v : Enabled(v, s) <=> Enabled(v, sel)
    BY <2>2 DEF Enabled
  <2>. QED  BY <2>3, <2>4 DEF Active, Mounted
<1>. HIDE DEF s
<1>6. Extends(flights')
  BY <1>1 DEF ViewsInv, OneFlight, Extends
<1>7. Shape' /\ OneFlight' /\ Newer'
  <2>1. page' \in Pages /\ IsSelection(sel') /\ nav' \in 0 .. MaxNav
    BY <1>1, <1>2, <1>3
  <2>. QED  BY <1>1, <1>6, <2>1, AskingKeeps
<1>8. WaitsOnlyWhileFetching'
  <2>1. OnScreen' = OnScreen
    BY <1>1, <1>5 DEF OnScreen, Active
  <2>2. \A v \in OnScreen : Key(v)' = Key(v)
    BY <1>1, <1>2, <1>4, ActiveFacts DEF OnScreen, Key
  <2>. QED  BY <1>1, <2>1, <2>2 DEF ViewsInv, WaitsOnlyWhileFetching, InFlight
<1>. QED  BY <1>7, <1>8 DEF ViewsInv

(* Every selector, filter and link leads to a selection. *)
LEMMA MoveStep ==
    ASSUME ViewsInv,
           \/ \E p \in Projects \cup {All} : SelectProject(p) \/ GridSelect(p)
           \/ \E e \in Envs \cup {All} : SelectEnvironment(e)
           \/ \E p \in Projects \cup {All}, e \in Envs \cup {All} : TVSelect(p, e)
           \/ \E p \in Pages : Navigate(p)
           \/ \E x \in {None, "x"} : SetFilter(x) \/ SetSessionFilter(x)
           \/ \E r \in {None, "relative", "custom"} : SetRange(r)
           \/ \E n \in 0 .. MaxPage : SetPage(n)
           \/ \E e \in {None, "e"} : SelectEvent(e)
           \/ \E m \in {"dashboard", "grid"} : TVMode(m)
           \/ \E id \in {None, "id"} : Lookup(id)
           \/ \E d \in {"7d", "30d"} : SetPeriod(d)
           \/ ToggleStatusClass \/ ToggleFeedSort \/ ClearFilters \/ ClickTimeline
           \/ GoToEvents \/ ToggleSession \/ ClearSessionFilters
    PROVE  ViewsInv'
<1>1. IsSelection(sel) /\ page \in Pages /\ "events" \in Pages
  BY DEF ViewsInv, Shape, TypeOK, Pages
<1>2. sel.project \in Projects \cup {All} /\ sel.env \in Envs \cup {All}
  BY <1>1 DEF IsSelection
<1>3. 1 \in 0 .. MaxPage
  BY ViewsAssumption
<1>. DEFINE Free == Fields \ {"number", "project", "env", "mode"}
<1>4. /\ \A s : IsSelection(s) => \A x \in Free : \A e : IsSelection([s EXCEPT ![x] = e])
      /\ \A s : IsSelection(s) => \A n \in 0 .. MaxPage : IsSelection([s EXCEPT !.number = n])
      /\ \A s : IsSelection(s) => \A p \in Projects \cup {All} : IsSelection([s EXCEPT !.project = p])
      /\ \A s : IsSelection(s) => \A e \in Envs \cup {All} : IsSelection([s EXCEPT !.env = e])
      /\ \A s : IsSelection(s) => \A m \in {"dashboard", "grid"} : IsSelection([s EXCEPT !.mode = m])
  BY SelectionFacts
<1>5. {"field", "path", "class", "range", "dates", "sort", "session", "lookup", "event", "details",
       "period"} \subseteq Free
  BY DEF Fields
<1>. HIDE DEF Free
<1>6. \A p \in Pages : \A s : IsSelection(s) /\ Show(p, s) => ViewsInv'
  BY ShowStep
<1>7. ASSUME NEW p \in Projects \cup {All}, SelectProject(p) \/ GridSelect(p) PROVE ViewsInv'
  BY <1>1, <1>4, <1>6, <1>7 DEF SelectProject, GridSelect
<1>8. ASSUME NEW e \in Envs \cup {All}, SelectEnvironment(e) PROVE ViewsInv'
  BY <1>1, <1>4, <1>6, <1>8 DEF SelectEnvironment
<1>9. ASSUME NEW p \in Projects \cup {All}, NEW e \in Envs \cup {All}, TVSelect(p, e) PROVE ViewsInv'
  BY <1>1, <1>4, <1>6, <1>9 DEF TVSelect
<1>10. ASSUME NEW p \in Pages, Navigate(p) PROVE ViewsInv'
  BY <1>2, <1>4, <1>6, <1>10, NewSelectionFacts DEF Navigate
<1>11. ASSUME NEW x, SetFilter(x) \/ SetSessionFilter(x) PROVE ViewsInv'
  BY <1>1, <1>3, <1>4, <1>5, <1>6, <1>11 DEF SetFilter, SetSessionFilter
<1>12. ASSUME NEW r, SetRange(r) PROVE ViewsInv'
  BY <1>1, <1>3, <1>4, <1>5, <1>6, <1>12 DEF SetRange
<1>13. ASSUME NEW n \in 0 .. MaxPage, SetPage(n) PROVE ViewsInv'
  BY <1>1, <1>4, <1>6, <1>13 DEF SetPage
<1>14. ASSUME NEW e, SelectEvent(e) PROVE ViewsInv'
  <2>. DEFINE s == [sel EXCEPT !.event = e]
  <2>1. IsSelection(s)
    BY <1>1, <1>4, <1>5
  <2>2. PICK d : Show(page, [s EXCEPT !.details = d])
    BY <1>14 DEF SelectEvent
  <2>. HIDE DEF s
  <2>. QED  BY <1>1, <1>4, <1>5, <1>6, <2>1, <2>2
<1>15. ASSUME NEW m \in {"dashboard", "grid"}, TVMode(m) PROVE ViewsInv'
  BY <1>1, <1>4, <1>6, <1>15 DEF TVMode
<1>16. ASSUME NEW x, Lookup(x) \/ SetPeriod(x) PROVE ViewsInv'
  BY <1>1, <1>4, <1>5, <1>6, <1>16 DEF Lookup, SetPeriod
<1>17. CASE ToggleStatusClass
  BY <1>1, <1>3, <1>4, <1>5, <1>6, <1>17 DEF ToggleStatusClass
<1>18. CASE ToggleFeedSort
  BY <1>1, <1>3, <1>4, <1>5, <1>6, <1>18 DEF ToggleFeedSort
<1>19. CASE ClearFilters
  BY <1>1, <1>3, <1>4, <1>5, <1>6, <1>19 DEF ClearFilters
<1>20. CASE GoToEvents
  BY <1>1, <1>2, <1>4, <1>5, <1>6, <1>20, NewSelectionFacts DEF GoToEvents
<1>21. CASE ToggleSession \/ ClearSessionFilters
  BY <1>1, <1>4, <1>5, <1>6, <1>21 DEF ToggleSession, ClearSessionFilters
<1>22. CASE ClickTimeline
  BY <1>12, <1>22 DEF ClickTimeline
<1>. QED  BY <1>7, <1>8, <1>9, <1>10, <1>11, <1>12, <1>13, <1>14, <1>15, <1>16, <1>17, <1>18,
             <1>19, <1>20, <1>21, <1>22

(* Every step of the dashboard preserves the invariant. *)
LEMMA ViewsStep == ViewsInv /\ [Next]_vars => ViewsInv'
<1>. SUFFICES ASSUME ViewsInv, [Next]_vars PROVE ViewsInv'
  OBVIOUS
<1>1. CASE Focus \/ Refresh \/ NewEvents \/ SignOut
  BY <1>1, FocusStep, RefreshStep, NewEventsStep, SignOutStep
<1>5. ASSUME NEW e \in 0 .. MaxVer, SessionListed(e) PROVE ViewsInv'
  BY <1>5, ListedStep
<1>2. ASSUME NEW v \in Polled, Poll(v) PROVE ViewsInv'
  BY <1>2, PollStep
<1>3. ASSUME NEW f \in flights, Answer(f) \/ Arrive(f) \/ Fail(f) \/ Deny(f) PROVE ViewsInv'
  BY <1>3, AnswerStep, ArriveStep, FailStep
<1>4. CASE UNCHANGED vars
  <2>1. /\ page' = page /\ sel' = sel /\ cache' = cache /\ failed' = failed /\ flights' = flights
        /\ ver' = ver /\ nav' = nav /\ fails' = fails /\ follow' = follow
        /\ signedOut' = signedOut
    BY <1>4 DEF vars
  <2>2. Shape'
    BY <2>1 DEF ViewsInv, Shape, TypeOK
  <2>. QED  BY <2>1, <2>2 DEF ViewsInv, OneFlight, Newer, WaitsOnlyWhileFetching, OnScreen, Active,
                              Key, InFlight
<1>. QED  BY <1>1, <1>2, <1>3, <1>4, <1>5, MoveStep DEF Next

(* What the invariant says of the screen. *)
LEMMA ViewsImplies ==
    ViewsInv => TypeOK /\ ShownAnswersSelection /\ WaitsOnlyWhileFetching
<1>. SUFFICES ASSUME ViewsInv PROVE ShownAnswersSelection
  BY DEF ViewsInv, Shape
<1>1. IsSelection(sel) /\ page \in Pages
  BY DEF ViewsInv, Shape, TypeOK
<1>2. ASSUME NEW v \in OnScreen, Key(v) \in DOMAIN cache PROVE AsksFor(v, sel, cache[Key(v)].req)
  <2>1. v \in Queries
    BY <1>1, ActiveFacts DEF OnScreen
  <2>2. Answers(Key(v), cache[Key(v)].req)
    BY <1>2 DEF ViewsInv, Shape
  <2>. QED  BY <1>1, <2>1, <2>2 DEF Answers, Key
<1>. QED  BY <1>2 DEF ShownAnswersSelection

(* An answer that arrives is no older than the one it replaces. *)
LEMMA ForwardStep ==
    ASSUME ViewsInv, [Next]_vars
    PROVE  \A k \in DOMAIN cache : k \in DOMAIN cache' /\ cache'[k].ver >= cache[k].ver
<1>1. \A k \in DOMAIN cache : cache[k].ver \in Int
  BY DEF ViewsInv, Shape, TypeOK
<1>2. ASSUME NEW f \in flights, Arrive(f)
      PROVE  \A k \in DOMAIN cache : k \in DOMAIN cache' /\ cache'[k].ver >= cache[k].ver
  <2>1. f.ver \notin {Unanswered, Denied} /\ cache' = Stored(f)
    BY <1>2 DEF Arrive
  <2>2. /\ DOMAIN cache' = DOMAIN cache \cup {f.key} /\ cache'[f.key].ver = f.ver
        /\ \A k \in DOMAIN cache : k # f.key => cache'[k] = cache[k]
    BY <2>1 DEF Stored
  <2>3. f.key \in DOMAIN cache => cache[f.key].ver <= f.ver
    BY <2>1 DEF ViewsInv, Newer
  <2>4. f.ver \in Int
    BY DEF ViewsInv, Shape, TypeOK
  <2>. QED  BY <1>1, <2>2, <2>3, <2>4
<1>3. ASSUME cache' = cache
      PROVE  \A k \in DOMAIN cache : k \in DOMAIN cache' /\ cache'[k].ver >= cache[k].ver
  BY <1>1, <1>3
<1>4. cache' = cache \/ \E f \in flights : Arrive(f)
  BY DEF Next, vars, SelectProject, GridSelect, SelectEnvironment, TVSelect, Navigate, SetFilter,
         SetSessionFilter, SetRange, SetPage, SelectEvent, TVMode, Lookup, SetPeriod,
         ToggleStatusClass, ToggleFeedSort, ClearFilters, ClickTimeline, GoToEvents,
         ToggleSession, ClearSessionFilters, SessionListed, Show, Focus, Refresh, NewEvents,
         SignOut, Poll, Answer, Fail, Deny, Reject
<1>. QED  BY <1>2, <1>3, <1>4

-----------------------------------------------------------------------------
(* Every state of the dashboard has the shape that the model gives it, with
   versions within what the trail has seen. *)
THEOREM ViewsTypeOK == Spec => []TypeOK
BY ViewsInit, ViewsStep, ViewsImplies, PTL DEF Spec

(* The answer a panel has for the selection is one to what is selected now: the
   key of every query holds all of the selection that its request depends on,
   but for the end of an expanded session, and an answer is cached under the key
   it was asked for. *)
THEOREM ViewsShownAnswersSelection == Spec => []ShownAnswersSelection
BY ViewsInit, ViewsStep, ViewsImplies, PTL DEF Spec

(* No panel waits for a request that was shared, cancelled, answered or lost:
   what is on screen is cached, failed or under way. *)
THEOREM ViewsWaitsOnlyWhileFetching == Spec => []WaitsOnlyWhileFetching
BY ViewsInit, ViewsStep, ViewsImplies, PTL DEF Spec

(* For one selection the data on screen never goes back in time: a key has one
   request under way, and the Reader answers it from the trail of that moment. *)
THEOREM ViewsNoTimeTravel == Spec => NoTimeTravel
<1>1. ViewsInv /\ [Next]_vars
        => [\A k \in DOMAIN cache : k \in DOMAIN cache' /\ cache'[k].ver >= cache[k].ver]_vars
  BY ForwardStep
<1>. QED  BY <1>1, ViewsInit, ViewsStep, PTL DEF Spec, NoTimeTravel
=============================================================================
