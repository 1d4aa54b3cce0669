------------------------------- MODULE Studio ------------------------------
(***************************************************************************)
(* The report editor.  One report at a time is edited: its id (none while  *)
(* it is a draft) and its widgets, each an SQL query.  An effect runs      *)
(* every widget's query when widgets, project or period change.  Opening,  *)
(* saving and deleting reports are calls to the Reader; what the user does *)
(* while one is under way interleaves with its reply.                      *)
(*                                                                         *)
(* A report's document is its lineage (the report or draft it was first    *)
(* written as) and its widgets; name and layout go with it.                *)
(***************************************************************************)
EXTENDS Integers

CONSTANTS
    Projects,   \* what the project selector offers
    Periods,    \* pairs of dates the toolbar can be set to
    Widgets,    \* widget ids (random in the code, hence fresh)
    Queries,    \* SQL texts
    Reports,    \* report ids the server can hand out, besides "r0"
    Saved,      \* widgets of "r0", a report that exists at the start
    MaxSteps,   \* bound: user actions
    MaxFail     \* bound: calls that fail

\* The widgets of the saved report have ids like all others.
ASSUME StudioAssumption == DOMAIN Saved \subseteq Widgets

All == "all"
None == "none"
\* The period the page opens with.
LastMonth == "last30"

VARIABLES
    project, period,   \* the variables the queries are run with
    list,              \* ids of the saved reports on offer
    reportId, doc,     \* the report in the editor
    editing,           \* the widget whose editor is open
    saving,            \* the Save button is disabled
    data,              \* widget -> its state and the query its result is of
    gen,               \* the latest run of the effect: the others are inactive
    calls,             \* calls to the Reader that are under way
    store,             \* Reader: id -> document
    born,              \* project and lineage each report was created with
    crossed,           \* reports whose create was answered after the editor had
                       \* moved on to another document (see CreateReply)
    drafts, steps, fails

vars == <<project, period, list, reportId, doc, editing, saving, data, gen, calls,
          store, born, crossed, drafts, steps, fails>>
editor == <<reportId, doc, data, gen, drafts>>
server == <<store, born>>

\* The function f with v at k, whether or not it had a value there.
Put(f, k, v) == [x \in DOMAIN f \cup {k} |-> IF x = k THEN v ELSE f[x]]

Draft(n) == [lineage |-> n, widgets |-> <<>>]

\* A query as it is run: its text with the variables filled in.
ApplyVars(sql, p, d) == [sql |-> sql, project |-> p, period |-> d]
WidgetState(s, req) == [status |-> s, of |-> req]
NoResult == ApplyVars(None, None, None)
Blank == WidgetState("blank", NoResult)
Loading == WidgetState("loading", NoResult)
Failed == WidgetState("error", NoResult)

Call(op, rid, body, p, by) ==
    [op |-> op, id |-> rid, body |-> body, project |-> p, by |-> by, served |-> FALSE]

\* by: what awaits the list, so that Save is re-enabled once it has come.
ListCall(p, by) == Call("list", None, Draft(0), p, by)

Init ==
    /\ project = All /\ period = LastMonth
    /\ list = {} /\ reportId = None /\ doc = Draft(1) /\ editing = None
    /\ saving = FALSE /\ data = [w \in Widgets |-> Blank] /\ gen = 0
    /\ calls = {ListCall(project, "page")}
    /\ store = [r \in {"r0"} |-> [lineage |-> 0, widgets |-> Saved]]
    /\ \E p \in Projects : born = [r \in {"r0"} |-> [lineage |-> 0, project |-> p]]
    /\ crossed = {} /\ drafts = 1 /\ steps = 0 /\ fails = 0

----------------------------------------------------------------------------
\* Mutant: the effect's clean-up does not silence the previous run.
RunWidgetsAlwaysActive(d, p, t, others) ==
    IF <<d.widgets, p, t>> = <<doc.widgets, project, period>>
    THEN data' = data /\ gen' = gen /\ calls' = others
    ELSE /\ gen' = gen
         /\ data' = [w \in Widgets |-> IF w \in DOMAIN d.widgets THEN Loading ELSE data[w]]
         /\ calls' = others \cup
              {[op |-> "query", w |-> w, req |-> ApplyVars(d.widgets[w], p, t), gen |-> gen] :
                  w \in DOMAIN d.widgets}

\* The effect: when the widgets' ids and queries, the project or the period are
\* others than before, the previous run becomes inactive and every widget's
\* query is run.  (others: the other calls under way.)
RunWidgets(d, p, t, others) ==
    IF <<d.widgets, p, t>> = <<doc.widgets, project, period>>
    THEN data' = data /\ gen' = gen /\ calls' = others
    ELSE /\ gen' = gen + 1
         /\ data' = [w \in Widgets |-> IF w \in DOMAIN d.widgets THEN Loading ELSE data[w]]
         /\ calls' = others \cup
              {[op |-> "query", w |-> w, req |-> ApplyVars(d.widgets[w], p, t), gen |-> gen + 1] :
                  w \in DOMAIN d.widgets}

\* The editor shows document d as report rid.
Load(rid, d, others) ==
    /\ reportId' = rid /\ doc' = d
    /\ RunWidgets(d, project, period, others)

UserActs == steps < MaxSteps /\ steps' = steps + 1
\* The widget editor covers the page.
OnPage == UserActs /\ editing = None

SelectProject(p) ==
    /\ OnPage /\ p # project /\ project' = p
    /\ RunWidgets(doc, p, period, calls \cup {ListCall(p, "page")})
    /\ UNCHANGED <<period, list, reportId, doc, editing, saving, server, crossed, drafts, fails>>

\* The two dates of the toolbar are free.
SetPeriod(t) ==
    /\ OnPage /\ t # period /\ period' = t
    /\ RunWidgets(doc, project, t, calls)
    /\ UNCHANGED <<project, list, reportId, doc, editing, saving, server, crossed, drafts, fails>>

\* Mutant: the id is set at once, the document when it has come.
OpenReportEarly(r) ==
    /\ OnPage /\ r \in list
    /\ reportId' = r
    /\ calls' = calls \cup {Call("open", r, Draft(0), project, None)}
    /\ UNCHANGED <<project, period, list, doc, editing, saving, data, gen, server,
                   crossed, drafts, fails>>

OpenReport(r) ==
    /\ OnPage /\ r \in list
    /\ calls' = calls \cup {Call("open", r, Draft(0), project, None)}
    /\ UNCHANGED <<project, period, list, editor, editing, saving, server, crossed, fails>>

NewReport ==
    /\ OnPage /\ list # {}
    /\ drafts' = drafts + 1
    /\ Load(None, Draft(drafts'), calls)
    /\ UNCHANGED <<project, period, list, editing, saving, server, crossed, fails>>

\* A widget of the report, or a new one under an id nobody has used.
EditWidget(w) ==
    /\ OnPage
    /\ \/ w \in DOMAIN doc.widgets
       \/ /\ data[w] = Blank
          /\ \A r \in DOMAIN store : w \notin DOMAIN store[r].widgets
    /\ editing' = w
    /\ UNCHANGED <<project, period, list, editor, saving, calls, server, crossed, fails>>

CloseEditor ==
    /\ editing # None /\ editing' = None
    /\ UNCHANGED <<project, period, list, editor, saving, calls, server, crossed, steps, fails>>

AddOrUpdateWidget(q) ==
    /\ editing # None /\ editing' = None
    /\ Load(reportId, [doc EXCEPT !.widgets = Put(@, editing, q)], calls)
    /\ UNCHANGED <<project, period, list, saving, server, crossed, drafts, steps, fails>>

RemoveWidget(w) ==
    /\ OnPage /\ w \in DOMAIN doc.widgets
    /\ Load(reportId,
            [doc EXCEPT !.widgets = [x \in DOMAIN @ \ {w} |-> @[x]]], calls)
    /\ UNCHANGED <<project, period, list, editing, saving, server, crossed, drafts, fails>>

\* Bound: a create is sent only while the server has an id left.
IdsLeft == Reports \ DOMAIN born # {}

Save ==
    /\ reportId = None => IdsLeft
    /\ OnPage /\ ~saving /\ saving' = TRUE
    /\ calls' = calls \cup
         {Call(IF reportId = None THEN "create" ELSE "update", reportId, doc, project, None)}
    /\ UNCHANGED <<project, period, list, editor, editing, server, crossed, fails>>

DeleteReport ==
    /\ OnPage /\ reportId # None
    /\ calls' = calls \cup {Call("delete", reportId, Draft(0), project, None)}
    /\ UNCHANGED <<project, period, list, editor, editing, saving, server, crossed, fails>>

----------------------------------------------------------------------------
(* The Reader serves a call.  Updating a report that is gone changes       *)
(* nothing and is answered as a success; opening it is an error.           *)

Served(c, rid, body) ==
    calls' = (calls \ {c}) \cup {[c EXCEPT !.served = TRUE, !.id = rid, !.body = body]}

ServeCreate(c) ==
    /\ c.op = "create"
    /\ \E r \in Reports \ DOMAIN born :
         /\ store' = Put(store, r, c.body)
         /\ born' = Put(born, r, [lineage |-> c.body.lineage, project |-> c.project])
         /\ Served(c, r, c.body)

ServeUpdate(c) ==
    /\ c.op = "update"
    /\ store' = [r \in DOMAIN store |-> IF r = c.id THEN c.body ELSE store[r]]
    /\ Served(c, c.id, c.body) /\ UNCHANGED born

ServeDelete(c) ==
    /\ c.op = "delete"
    /\ store' = [r \in DOMAIN store \ {c.id} |-> store[r]]
    /\ Served(c, c.id, c.body) /\ UNCHANGED born

ServeGet(c) ==
    /\ c.op = "open" /\ c.id \in DOMAIN store
    /\ Served(c, c.id, store[c.id]) /\ UNCHANGED server

Serve(c) ==
    /\ c.op # "query" /\ c.op # "list" /\ ~c.served
    /\ ServeCreate(c) \/ ServeUpdate(c) \/ ServeDelete(c) \/ ServeGet(c)
    /\ UNCHANGED <<project, period, list, editor, editing, saving, crossed, steps, fails>>

----------------------------------------------------------------------------
(* The page receives the reply.                                            *)

Returned(c, op) == c.op = op /\ c.served

OpenReply(c) ==
    /\ Returned(c, "open")
    /\ Load(c.id, c.body, calls \ {c})
    /\ UNCHANGED <<project, period, list, editing, saving, server, crossed, drafts, steps, fails>>

\* The id is adopted whatever the editor holds by now; then the list is loaded,
\* for the project selected when Save was clicked.
CreateReply(c) ==
    /\ Returned(c, "create")
    /\ reportId' = c.id
    /\ crossed' = IF doc.lineage = c.body.lineage THEN crossed ELSE crossed \cup {c.id}
    /\ calls' = (calls \ {c}) \cup {ListCall(c.project, "save")}
    /\ UNCHANGED <<project, period, list, doc, editing, saving, data, gen, server, drafts,
                   steps, fails>>

UpdateReply(c) ==
    /\ Returned(c, "update")
    /\ calls' = (calls \ {c}) \cup {ListCall(c.project, "save")}
    /\ UNCHANGED <<project, period, list, editor, editing, saving, server, crossed, steps, fails>>

\* The editor is emptied, whatever it holds by now.
DeleteReply(c) ==
    /\ Returned(c, "delete")
    /\ drafts' = drafts + 1
    /\ Load(None, Draft(drafts'), (calls \ {c}) \cup {ListCall(c.project, "page")})
    /\ UNCHANGED <<project, period, list, editing, saving, server, crossed, steps, fails>>

ListReply(c) ==
    /\ c.op = "list"
    /\ list' = {r \in DOMAIN store : c.project \in {All, born[r].project}}
    /\ saving' = (saving /\ c.by # "save")
    /\ calls' = calls \ {c}
    /\ UNCHANGED <<project, period, editor, editing, server, crossed, steps, fails>>

\* Mutant: results after the first are dropped.
QueryReplyFirstOnly(c) ==
    /\ c.op = "query"
    /\ data' = IF c.gen = gen /\ \A w \in DOMAIN doc.widgets : data[w].status # "result"
               THEN [data EXCEPT ![c.w] = WidgetState("result", c.req)] ELSE data
    /\ calls' = calls \ {c}
    /\ UNCHANGED <<project, period, list, reportId, doc, editing, saving, gen, server,
                   crossed, drafts, steps, fails>>

\* The result of a widget's query; that of an inactive run is dropped.
QueryReply(c) ==
    /\ c.op = "query"
    /\ data' = IF c.gen = gen THEN [data EXCEPT ![c.w] = WidgetState("result", c.req)] ELSE data
    /\ calls' = calls \ {c}
    /\ UNCHANGED <<project, period, list, reportId, doc, editing, saving, gen, server,
                   crossed, drafts, steps, fails>>

\* Mutant: createReport does not look at the status, as listReports does not.
CallFailsUnchecked(c) ==
    /\ fails < MaxFail /\ fails' = fails + 1
    /\ calls' = calls \ {c}
    /\ data' = IF c.op = "query" /\ c.gen = gen THEN [data EXCEPT ![c.w] = Failed] ELSE data
    /\ saving' = (saving /\ ~(c.op \in {"create", "update"} \/ (c.op = "list" /\ c.by = "save")))
    /\ list' \in IF c.op = "list" THEN {list, {}} ELSE {list}
    /\ reportId' = IF c.op = "create" THEN "undefined" ELSE reportId
    /\ UNCHANGED <<project, period, doc, editing, gen, server, crossed, drafts, steps>>

\* Mutant: Save is re-enabled after a success only.
CallFailsSaving(c) ==
    /\ fails < MaxFail /\ fails' = fails + 1
    /\ calls' = calls \ {c}
    /\ data' = IF c.op = "query" /\ c.gen = gen THEN [data EXCEPT ![c.w] = Failed] ELSE data
    /\ list' \in IF c.op = "list" THEN {list, {}} ELSE {list}
    /\ UNCHANGED <<project, period, reportId, doc, editing, saving, gen, server, crossed,
                   drafts, steps>>

\* A call fails, served or not: a widget shows the error, Save is enabled again,
\* an error status in place of the list is read as an empty list, the rest leaves
\* the page as it is.
CallFails(c) ==
    /\ fails < MaxFail /\ fails' = fails + 1
    /\ calls' = calls \ {c}
    /\ data' = IF c.op = "query" /\ c.gen = gen THEN [data EXCEPT ![c.w] = Failed] ELSE data
    /\ list' \in IF c.op = "list" THEN {list, {}} ELSE {list}
    /\ saving' = (saving /\ ~(c.op \in {"create", "update"} \/ (c.op = "list" /\ c.by = "save")))
    /\ UNCHANGED <<project, period, reportId, doc, editing, gen, server, crossed, drafts, steps>>

\* The report to open is gone: not found.
NotFound(c) ==
    /\ c.op = "open" /\ ~c.served /\ c.id \notin DOMAIN store
    /\ calls' = calls \ {c}
    /\ UNCHANGED <<project, period, list, editor, editing, saving, server, crossed, steps, fails>>

Reply(c) == \/ OpenReply(c) \/ CreateReply(c) \/ UpdateReply(c) \/ DeleteReply(c)
            \/ ListReply(c) \/ QueryReply(c) \/ NotFound(c)

Next ==
    \/ \E p \in Projects \cup {All} : SelectProject(p)
    \/ \E r \in list : OpenReport(r)
    \/ \E w \in Widgets : EditWidget(w) \/ RemoveWidget(w)
    \/ \E q \in Queries : AddOrUpdateWidget(q)
    \/ \E t \in Periods \cup {LastMonth} : SetPeriod(t)
    \/ NewReport \/ CloseEditor \/ Save \/ DeleteReport
    \/ \E c \in calls : Serve(c) \/ Reply(c) \/ CallFails(c)

\* The Reader serves every call and its replies arrive.
Fairness == WF_vars(\E c \in calls : Serve(c) \/ Reply(c))
Spec == Init /\ [][Next]_vars /\ Fairness

----------------------------------------------------------------------------
\* The shape of the state; the Reader knows the project of every report.
TypeOK ==
    /\ project \in Projects \cup {All} /\ period \in Periods \cup {LastMonth}
    /\ list \subseteq Reports \cup {"r0"} /\ reportId \in Reports \cup {"r0", None}
    /\ DOMAIN doc.widgets \subseteq Widgets /\ editing \in Widgets \cup {None}
    /\ saving \in BOOLEAN /\ DOMAIN data = Widgets
    /\ DOMAIN store \subseteq DOMAIN born /\ crossed \subseteq DOMAIN born

\* The result a widget shows is that of its present query for the project and
\* the period on screen, whatever order results arrive in.
WidgetShowsItsQuery ==
    \A w \in DOMAIN doc.widgets : data[w].status = "result" =>
        data[w].of = ApplyVars(doc.widgets[w], project, period)

\* A widget's spinner ends: the run it waits for is under way and still active.
SpinnerIsBackedByRun ==
    \A w \in DOMAIN doc.widgets :
        /\ data[w].status # "blank"
        /\ data[w].status = "loading" =>
             \E c \in calls : c.op = "query" /\ c.w = w /\ c.gen = gen

\* No report is overwritten with another one's document, whatever is opened,
\* created, saved and deleted at once, with one exception, which the code has
\* (CreateReply): a draft that the user left while it was being created gives its
\* id to what the editor holds by then, and the next Save stores that under it.
SavedUnderOwnReport ==
    \A r \in DOMAIN store \ crossed : store[r].lineage = born[r].lineage

\* Save becomes available again, however the call or the list after it ends.
SaveButtonReturns == saving ~> ~saving
=============================================================================
