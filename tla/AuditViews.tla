---------------------------- MODULE AuditViews -----------------------------
(***************************************************************************)
(* What the dashboard shows of the audit trail.  A page is made of panels, *)
(* a panel asks queries: the current selection (project, environment,      *)
(* filters in the URL, expanded session, ...) gives a query's key, and the *)
(* answer cached under that key is what the panel shows.  Requests are     *)
(* answered by the Reader at one moment and arrive at another, in any      *)
(* order.                                                                  *)
(*                                                                         *)
(* Data is abstracted to what was asked and how much of the trail the      *)
(* answer saw: the trail is its version `ver`, an answer a record of the   *)
(* request's parameters and the version it was computed from.              *)
(***************************************************************************)
EXTENDS QueryCache, FiniteSets, Functions

CONSTANTS
    Projects, Envs,   \* what the selectors offer besides "all"
    Followed,         \* sets of queries: one behaviour tracks the queries of one
                      \* of them (requests under different keys do not interact)
    MaxPage,          \* bound: pages of the event list
    MaxNav,           \* bound: user actions
    MaxVer,           \* bound: batches of new events
    MaxFail           \* bound: requests that fail

ASSUME ViewsAssumption ==
    MaxPage \in Nat \ {0} /\ MaxNav \in Nat /\ MaxVer \in Nat /\ MaxFail \in Nat

All == "all"
None == "none"

VARIABLES
    page,     \* the route on screen
    sel,      \* the selection: contexts, URL search, component state
    follow,   \* the queries tracked
    signedOut, \* a refused refresh has cleared the wallboard's tokens
    ver, nav, fails

vars == <<follow, page, sel, cache, failed, flights, signedOut, ver, nav, fails>>

Pages == {"events", "sessions", "anomalies", "insights", "tv"}

NewSelection == [project |-> All, env |-> All, number |-> 1, field |-> None,
                 path |-> None, class |-> None, range |-> None, dates |-> None,
                 sort |-> None, session |-> None, end |-> 0, lookup |-> None,
                 event |-> None, details |-> None, period |-> "7d",
                 mode |-> "dashboard"]

----------------------------------------------------------------------------
(* Panels: the queries each asks.                                          *)

\* The events page: cards and banners, services and timeline, history, feed.
MetricCards  == {"stats", "alerts", "orphans", "monitors"}
ServiceTable == {"stats", "monitors"}
HistoryChart == {"history"}
EventFeed    == {"list"}
EventDetailModal == {"detail"}

\* The sessions page.
SessionTimeline == {"timeline"}
SessionLookup   == {"lookup"}
SessionCards    == {"sessions"}

\* The anomalies page, with the drawer of the selected alert.
AlertList       == {"alerts"}
AlertDrawer     == {"detail"}
RelatedEvents   == {"related"}
AffectedUsers   == {"affected"}

InsightsPage    == {"insights"}

\* The wallboard.
TVHeader        == {"wbprojects"}
TVPanels        == {"panel"}
HealthCarousel  == {"health"}
ProjectGrid     == {"grid"}

Panels(p, s) ==
    CASE p = "events"    -> {MetricCards, ServiceTable, HistoryChart, EventFeed,
                             EventDetailModal}
      [] p = "sessions"  -> {SessionCards, SessionTimeline, SessionLookup,
                             EventDetailModal}
      [] p = "anomalies" -> {AlertList, AlertDrawer, RelatedEvents, AffectedUsers}
      [] p = "insights"  -> {InsightsPage}
      [] p = "tv" /\ s.mode = "grid"      -> {TVHeader, ProjectGrid}
      [] p = "tv" /\ s.mode = "dashboard" -> {TVHeader, TVPanels, HealthCarousel}

Mounted(p, s) == UNION Panels(p, s)

----------------------------------------------------------------------------
(* Queries: what their key is made of, when they are enabled, and what     *)
(* their request sends.                                                    *)

Enabled(v, s) ==
    /\ v \in {"orphans", "history", "affected"} => s.project # All
    /\ v \in {"detail", "related"} => s.event # None
    /\ v = "related" => s.details # None
    /\ v = "affected" => s.details = "known"
    /\ v = "timeline" => s.session # None
    /\ v = "lookup" => s.lookup # None

\* Dates in the URL count only without a relative range.
ActiveFilters(s) == [s EXCEPT !.dates = IF s.range = "relative" THEN None ELSE @]

\* Mutant: the environment is missing from the key of the event list.
ListKeyNoEnv ==
    {"number", "project", "field", "path", "class", "range", "dates", "sort"}

ListKey ==
    {"number", "project", "env", "field", "path", "class", "range", "dates", "sort"}

\* The other hooks of the audit trail.
AuditKey(v) ==
    CASE v \in {"stats", "alerts", "orphans"} -> {"project", "env"}
      [] v = "insights" -> {"project", "env", "period"}
      [] v = "sessions" -> {"project", "env", "field", "dates"}
      [] v = "timeline" -> {"session", "project"}
      [] v = "lookup"   -> {"lookup"}
      [] v = "detail"   -> {"event"}
      [] v \in {"related", "affected"} -> {"event", "project", "details"}
HistoryKey == {"project", "env"}
MonitorsKey == {"project"}

\* The hooks of the wallboard; "panel" stands for its summary, feed, volume,
\* alerts and error routes.
Wallboard == {"panel", "health", "grid", "wbprojects"}
WallboardKey(v) ==
    CASE v = "panel"  -> {"project", "env"}
      [] v = "health" -> {"project"}
      [] v = "grid"   -> {"env"}
      [] v = "wbprojects" -> {}

KeyFields(v) ==
    CASE v = "list"     -> ListKey
      [] v = "history"  -> HistoryKey
      [] v = "monitors" -> MonitorsKey
      [] v \in Wallboard -> WallboardKey(v)
      [] OTHER -> AuditKey(v)

KeyOf(v, s) ==
    <<v, Restrict(IF v = "list" THEN ActiveFilters(s) ELSE s, KeyFields(v))>>

\* A relative range is sent as a start date computed when the request is.
Since(f) == IF f.range = "relative" THEN f.range ELSE None

\* ListAudit sends every filter that is set; page 0 is not sent, and the
\* Reader answers with the first page.
ListAudit(s) ==
    LET f == ActiveFilters(s) IN
    [page |-> IF f.number = 0 THEN 1 ELSE f.number, project |-> f.project,
     env |-> f.env, field |-> f.field, path |-> f.path, class |-> f.class,
     since |-> Since(f), dates |-> f.dates, sort |-> f.sort]
GetAuditStats(s)    == [project |-> s.project, env |-> s.env]
AlertFilters(s)     == [project |-> s.project, env |-> s.env]
GetOrphans(s)       == [project |-> s.project, env |-> s.env]
GetAuditHistory(s)  == [project |-> s.project, env |-> s.env]
GetInsights(s)      == [project |-> s.project, env |-> s.env, period |-> s.period]
GetSessions(s)      == [project |-> s.project, env |-> s.env, field |-> s.field,
                        dates |-> s.dates]
GetSessionByID(s)   == [lookup |-> s.lookup]
\* A session is its identity (user, service, start); its end is sent as the
\* session list on screen gives it, and is not part of the key.
TimelineFilters(s)  == [session |-> s.session, end |-> s.end, project |-> s.project]
GetAuditDetail(s)   == [event |-> s.event]
ListMonitors(s)     == [project |-> s.project]
\* The events around an alert: the window and filters come from its details.
BuildRelatedFilters(s) ==
    [event |-> s.event, project |-> s.project, details |-> s.details]
GetAffectedUsers(s) ==
    [event |-> s.event, project |-> s.project, details |-> s.details]
GetWb(v, s) == Restrict(s, CASE v = "panel"  -> {"project", "env"}
                             [] v = "health" -> {"project"}
                             [] v = "grid"   -> {"env"}
                             [] v = "wbprojects" -> {})

Request(v, s) ==
    CASE v = "list"     -> ListAudit(s)
      [] v = "stats"    -> GetAuditStats(s)
      [] v = "alerts"   -> AlertFilters(s)
      [] v = "orphans"  -> GetOrphans(s)
      [] v = "history"  -> GetAuditHistory(s)
      [] v = "insights" -> GetInsights(s)
      [] v = "sessions" -> GetSessions(s)
      [] v = "timeline" -> TimelineFilters(s)
      [] v = "lookup"   -> GetSessionByID(s)
      [] v = "detail"   -> GetAuditDetail(s)
      [] v = "related"  -> BuildRelatedFilters(s)
      [] v = "affected" -> GetAffectedUsers(s)
      [] v = "monitors" -> ListMonitors(s)
      [] OTHER -> GetWb(v, s)

\* staleTime of minutes.
KeepsFresh == {"insights", "history", "monitors"}
\* refetchInterval: asked for again for as long as it is on screen.
Polled == {"list", "stats", "alerts", "orphans", "panel", "health", "grid",
           "wbprojects"}

Active(p, s) == {v \in Mounted(p, s) \cap follow : Enabled(v, s)}
Key(v) == KeyOf(v, sel)
OnScreen == Active(page, sel)

\* wbFetch without tokens throws: such a request will not be answered.
Denied == -2

Ask(v, s) == [key |-> KeyOf(v, s), req |-> Request(v, s),
              ver |-> IF signedOut /\ v \in Wallboard THEN Denied ELSE Unanswered]
Asks(vs, s) == {Ask(v, s) : v \in vs}

----------------------------------------------------------------------------
\* A page opened from a link: any filters its URL may carry.
Init ==
    /\ follow \in Followed
    /\ page \in Pages
    /\ sel \in {NewSelection,
                [NewSelection EXCEPT !.range = "relative", !.dates = "d"]}
    /\ cache = <<>> /\ failed = {}
    /\ signedOut = FALSE
    /\ flights = Asks(Active(page, sel), sel)
    /\ ver = 0 /\ nav = 0 /\ fails = 0

\* staleTime: a cached answer of these is fresh for a while, the rest is
\* stale at once.
Stale(vs, s) ==
    {{v \in vs : ~(v \in fresh /\ KeyOf(v, s) \in DOMAIN cache)} :
        fresh \in {{}, KeepsFresh}}

\* A change that neither leads elsewhere nor touches a tracked query is left out.
Matters(p, s) ==
    \/ p # page \/ s.mode # sel.mode
    \/ \E v \in follow : \/ v \in Active(p, s) \ OnScreen
                         \/ KeyOf(v, s) # Key(v) \/ Request(v, s) # Request(v, sel)

\* The new selection is rendered: queries that were not on screen, or that were
\* under another key, are asked if they are stale.
Show(p, s) ==
    /\ Matters(p, s)
    /\ nav < MaxNav /\ nav' = nav + 1
    /\ page' = p /\ sel' = s
    /\ LET new == {v \in Active(p, s) : ~(v \in OnScreen /\ KeyOf(v, s) = Key(v))}
       IN  \E vs \in Stale(new, s) : Fetch(Asks(vs, s))
    /\ UNCHANGED <<follow, cache, signedOut, ver, fails>>

\* The window gets the focus back.
Focus ==
    /\ nav < MaxNav /\ nav' = nav + 1
    /\ sel' = [sel EXCEPT !.details = IF @ = "failed" THEN None ELSE @]
    /\ \E vs \in Stale(Active(page, sel'), sel') : Fetch(Asks(vs, sel'))
    /\ UNCHANGED <<follow, page, cache, signedOut, ver, fails>>

\* The selectors of the header and the environment pills of the events page:
\* contexts, which leave the URL and with it the page number alone.
SelectProject(p) == page # "tv" /\ Show(page, [sel EXCEPT !.project = p])
SelectEnvironment(e) == page # "tv" /\ Show(page, [sel EXCEPT !.env = e])

\* The sidebar; the contexts outlive the page.
Navigate(p) == /\ page # "tv" /\ p # "tv" /\ p # page
               /\ Show(p, [NewSelection EXCEPT !.project = sel.project, !.env = sel.env])

SetFilter(x) == page = "events" /\ Show(page, [sel EXCEPT !.field = x, !.number = 1])

ToggleStatusClass ==
    /\ page = "events"
    /\ Show(page, [sel EXCEPT !.class = IF @ = None THEN "5xx" ELSE None, !.number = 1])

ToggleFeedSort ==
    /\ page = "events"
    /\ Show(page, [sel EXCEPT !.sort = IF @ = None THEN "asc" ELSE None, !.number = 1])

ClearFilters ==
    /\ page = "events"
    /\ Show(page, [sel EXCEPT !.number = 1, !.field = None, !.path = None, !.class = None,
                              !.range = None, !.dates = None, !.sort = None])

\* The time-range picker: a preset, an absolute range or none.
SetRange(r) ==
    /\ page = "events"
    /\ Show(page, [sel EXCEPT !.range = r, !.dates = IF r = "custom" THEN "d" ELSE None,
                              !.number = 1])
\* The hour clicked in the timeline chart is an absolute range too.
ClickTimeline == SetRange("custom")

\* Mutant: an off-by-one in "Next".
SetPageBeyond(n) == page = "events" /\ Show(page, [sel EXCEPT !.number = n + 1])

\* AppPagination, given the total of the rows on screen: those of the previous
\* selection while they stand in.  An empty list has no pages.
SetPage(n) == page = "events" /\ Show(page, [sel EXCEPT !.number = n])

GoToEvents ==
    /\ page = "insights"
    /\ Show("events", [NewSelection EXCEPT !.project = sel.project, !.env = sel.env,
                                           !.path = "x"])

SelectEvent(e) ==
    /\ page \in {"events", "sessions", "anomalies"}
    /\ LET s == [sel EXCEPT !.event = e] IN
       Show(page, [s EXCEPT !.details = IF e # None /\ KeyOf("detail", s) \in DOMAIN cache
                                        THEN "known" ELSE None])

SetSessionFilter(x) == page = "sessions" /\ Show(page, [sel EXCEPT !.field = x])
ClearSessionFilters ==
    page = "sessions" /\ Show(page, [sel EXCEPT !.field = None, !.dates = None])
ToggleSession ==
    /\ page = "sessions"
    /\ Show(page, [sel EXCEPT !.session = IF @ = None THEN "s" ELSE None])
\* The session list on screen, fetched anew or of other filters, gives the session
\* another end; the timeline's key stays, so that nothing is fetched.
SessionListed(e) ==
    /\ page = "sessions" /\ "timeline" \in follow /\ e <= ver /\ e # sel.end
    /\ sel' = [sel EXCEPT !.end = e]
    /\ UNCHANGED <<follow, page, cache, failed, flights, signedOut, ver, nav, fails>>
Lookup(id) == page = "sessions" /\ Show(page, [sel EXCEPT !.lookup = id])
SetPeriod(d) == page = "insights" /\ Show(page, [sel EXCEPT !.period = d])

\* The wallboard: its own selectors (the grid hides that of the project), and
\* the grid of projects.
TVSelect(p, e) ==
    /\ page = "tv" /\ (sel.mode = "grid" => p = sel.project)
    /\ Show(page, [sel EXCEPT !.project = p, !.env = e])
TVMode(m) == page = "tv" /\ Show(page, [sel EXCEPT !.mode = m])
GridSelect(p) ==
    /\ page = "tv" /\ sel.mode = "grid"
    /\ Show(page, [sel EXCEPT !.project = p, !.mode = "dashboard"])

----------------------------------------------------------------------------
\* Mutant: the interval is armed only once a project is chosen.
PollWithProject(v) ==
    /\ v \in OnScreen \cap Polled /\ ~InFlight(Key(v)) /\ sel.project # All
    /\ Fetch({Ask(v, sel)})
    /\ UNCHANGED <<follow, page, sel, cache, signedOut, ver, nav, fails>>

\* refetchInterval fires.  A poll of what is up to date brings the same answer
\* and is left out; a refetch of it that fails is met with Focus and Refresh.
Poll(v) ==
    /\ v \in OnScreen \cap Polled /\ ~InFlight(Key(v))
    /\ Key(v) \in failed \/ (Key(v) \in DOMAIN cache /\ cache[Key(v)].ver < ver)
    /\ Fetch({Ask(v, sel)})
    /\ UNCHANGED <<follow, page, sel, cache, signedOut, ver, nav, fails>>

\* Mutant: a second request is started and the first one kept.
RefreshKeepsFirst ==
    /\ page = "events" /\ nav < MaxNav /\ nav' = nav + 1
    /\ flights' = flights \cup Asks({"stats", "list"} \cap follow, sel)
    /\ UNCHANGED <<follow, page, sel, cache, failed, signedOut, ver, fails>>

\* The Refresh button refetches statistics and list.
Refresh ==
    /\ page = "events" /\ nav < MaxNav /\ nav' = nav + 1
    /\ Refetch(Asks({"stats", "list"} \cap follow, sel))
    /\ UNCHANGED <<follow, page, sel, cache, signedOut, ver, fails>>

----------------------------------------------------------------------------
(* The Reader and the network.                                             *)

NewEvents ==
    /\ ver < MaxVer /\ ver' = ver + 1
    /\ UNCHANGED <<follow, page, sel, cache, failed, flights, signedOut, nav, fails>>

\* The Reader computes the answer to f from the trail as it is now.
Answer(f) ==
    /\ f.ver = Unanswered
    /\ flights' = (flights \ {f}) \cup {[f EXCEPT !.ver = ver]}
    /\ UNCHANGED <<follow, page, sel, cache, failed, signedOut, ver, nav, fails>>

\* The drawer of an alert waits for the alert's details (d: how they came): its
\* other queries are made from them and start now.
Opened(f, d) ==
    IF f.key = Key("detail") /\ sel.event # None /\ sel.details # "known"
    THEN [sel EXCEPT !.details = d] ELSE sel

\* Mutant: the sections are not rendered anew when the details could not be had.
FromDetailsKnownOnly(f, s) ==
    Asks({v \in Active(page, s) \ {"detail"} :
            s.details = "known" /\ s # sel /\ ~InFlight(KeyOf(v, s))}, s)

\* The queries of the drawer that start once the details are settled.
FromDetails(f, s) ==
    Asks({v \in Active(page, s) \ {"detail"} : s # sel /\ ~InFlight(KeyOf(v, s))}, s)

Arrive(f) ==
    /\ f.ver \notin {Unanswered, Denied}
    /\ cache' = Stored(f)
    /\ sel' = Opened(f, "known")
    /\ flights' = (flights \ {f}) \cup FromDetails(f, sel')
    /\ failed' = failed \ ({f.key} \cup ({g.key : g \in FromDetails(f, sel')} \ DOMAIN cache))
    /\ UNCHANGED <<follow, page, signedOut, ver, nav, fails>>

\* The last attempt at f is rejected.
Reject(f) ==
    /\ sel' = Opened(f, "failed")
    /\ flights' = (flights \ {f}) \cup FromDetails(f, sel')
    /\ failed' = (failed \cup {f.key}) \ ({g.key : g \in FromDetails(f, sel')} \ DOMAIN cache)
    /\ UNCHANGED <<follow, page, cache, signedOut, ver, nav>>

\* The request fails and its retries do; on the wallboard, also because no answer
\* came to a refresh, which leaves the tokens.
Fail(f) ==
    /\ f.ver # Denied
    /\ fails < MaxFail /\ fails' = fails + 1
    /\ Reject(f)

\* A refresh of the wallboard's tokens is answered, not with success: they are
\* cleared, for good (a renewal by another request that was under way would
\* bring back one access token and is left out; see WallboardTV).  The page
\* stays on; requests still at their own renewal are lost with the tokens.
SignOut ==
    /\ page = "tv" /\ ~signedOut /\ signedOut' = TRUE
    /\ \E out \in SUBSET {f \in flights : f.ver = Unanswered} :
         flights' = (flights \ out) \cup {[f EXCEPT !.ver = Denied] : f \in out}
    /\ UNCHANGED <<follow, page, sel, cache, failed, ver, nav, fails>>

\* wbFetch finds no tokens: "unauthenticated".
Deny(f) ==
    /\ f.ver = Denied
    /\ Reject(f)
    /\ UNCHANGED fails

Next ==
    \/ \E p \in Projects \cup {All} : SelectProject(p) \/ GridSelect(p)
    \/ \E e \in Envs \cup {All} : SelectEnvironment(e)
    \/ \E p \in Projects \cup {All}, e \in Envs \cup {All} : TVSelect(p, e)
    \/ \E p \in Pages : Navigate(p)
    \/ \E x \in {None, "x"} : SetFilter(x) \/ SetSessionFilter(x)
    \/ \E r \in {None, "relative", "custom"} : SetRange(r)
    \/ \E n \in 0 .. MaxPage : SetPage(n)
    \/ \E e \in {None, "e"} : SelectEvent(e)
    \/ \E m \in {"dashboard", "grid"} : TVMode(m)
    \/ \E id \in {None, "id"} : Lookup(id)
    \/ \E d \in {"7d", "30d"} : SetPeriod(d)
    \/ ToggleStatusClass \/ ToggleFeedSort \/ ClearFilters \/ ClickTimeline
    \/ GoToEvents \/ ToggleSession \/ ClearSessionFilters
    \/ \E e \in 0 .. MaxVer : SessionListed(e)
    \/ Focus \/ Refresh \/ NewEvents \/ SignOut
    \/ \E v \in Polled : Poll(v)
    \/ \E f \in flights : Answer(f) \/ Arrive(f) \/ Fail(f) \/ Deny(f)

\* Intervals keep firing, the Reader answers and answers arrive; wbFetch throws.
Fairness ==
    /\ \A v \in Polled : WF_vars(Poll(v))
    /\ WF_vars(\E f \in flights : Answer(f) \/ Arrive(f) \/ Deny(f))

Spec == Init /\ [][Next]_vars /\ Fairness

----------------------------------------------------------------------------
\* The shape of the state: page numbers that the pagination offers (0 for an
\* empty list), versions within what the trail has seen.
TypeOK ==
    /\ page \in Pages /\ DOMAIN sel = DOMAIN NewSelection /\ signedOut \in BOOLEAN
    /\ sel.number \in 0 .. MaxPage
    /\ sel.project \in Projects \cup {All} /\ sel.env \in Envs \cup {All}
    /\ ver \in 0 .. MaxVer /\ nav \in 0 .. MaxNav /\ fails \in 0 .. MaxFail
    /\ \A f \in flights : f.ver \in Denied .. MaxVer
    /\ \A k \in DOMAIN cache : cache[k].ver \in 0 .. MaxVer

\* What a request sends that its key leaves out: the end of a session.
OutsideKey(v) == IF v = "timeline" THEN {"end"} ELSE {}

\* What was asked is what selection s asks query v for, but for what the key
\* leaves out.
AsksFor(v, s, req) ==
    /\ DOMAIN req = DOMAIN Request(v, s)
    /\ \A x \in DOMAIN req \ OutsideKey(v) : req[x] = Request(v, s)[x]

\* Whatever order requests are answered and arrive in, the answer a panel has
\* for the selection is one to the project, environment, filters, session and
\* event that are selected now.  Two exceptions: the timeline of a session may
\* have been asked for with an earlier end than the session list now shows, and
\* while the event list has no answer for the selection the rows of the previous
\* one stand in (see WaitsOnlyWhileFetching).
ShownAnswersSelection ==
    \A v \in OnScreen : Key(v) \in DOMAIN cache => AsksFor(v, sel, cache[Key(v)].req)

\* A panel waits only for a request that is under way: no spinner is left behind
\* by an answer that was shared, cancelled or lost, and the rows of the previous
\* selection stand in for the event list only until its own rows or the error.
WaitsOnlyWhileFetching ==
    \A v \in OnScreen :
        Key(v) \in DOMAIN cache \/ Key(v) \in failed \/ InFlight(Key(v))

\* For one selection the data on screen never goes back in time: no answer
\* overtaken by a newer one replaces it.
NoTimeTravel ==
    [][\A k \in DOMAIN cache : k \in DOMAIN cache' /\ cache'[k].ver >= cache[k].ver]_vars

CaughtUp ==
    \A v \in OnScreen \cap Polled :
        Key(v) \in DOMAIN cache /\ cache[Key(v)].ver = ver /\ Key(v) \notin failed

\* Polled panels catch up with the trail when the user rests and the network
\* works: the list, its statistics and the wallboard end up showing the newest.
\* The exception is a wallboard whose refresh was answered with an error, a
\* passing one too: it is signed out and never catches up.
PanelsCatchUp == <>[](signedOut \/ CaughtUp)

=============================================================================
