---------------------------- MODULE StudioProofs ----------------------------
(***************************************************************************)
(* Proofs about Studio for any projects, widgets, queries and reports and  *)
(* any number of user actions and failures: its type invariant, that a     *)
(* widget shows the result of its own present query, that a spinner is     *)
(* backed by a run that is under way, and that no report is overwritten    *)
(* with another one's document.                                            *)
(***************************************************************************)
EXTENDS Studio, TLAPS

(* a document: its widgets have ids *)
IsDoc(d) ==
    /\ d = [lineage |-> d.lineage, widgets |-> d.widgets]
    /\ DOMAIN d.widgets \subseteq Widgets

(* a call under way: the query of a widget, or one about reports *)
IsCall(c) ==
    \/ c.op = "query" /\ c.w \in Widgets /\ c.gen \in Nat
    \/ /\ c.op \in {"list", "open", "create", "update", "delete"}
       /\ DOMAIN c = {"op", "id", "body", "project", "by", "served"}
       /\ IsDoc(c.body)

(* The shape of the state in more detail than the runs check it. *)
Shape ==
    /\ TypeOK
    /\ IsDoc(doc) /\ \A r \in DOMAIN store : IsDoc(store[r])
    /\ gen \in Nat /\ \A c \in calls : IsCall(c)
    /\ DOMAIN born \subseteq Reports \cup {"r0"}

(* The document goes back to the one that report r was created with, unless
   the id of r was adopted for another draft. *)
Kept(r, d) == r \in DOMAIN born /\ (d.lineage = born[r].lineage \/ r \in crossed)

CallKept(c) ==
    /\ c.op = "open" => c.id \in DOMAIN born
    /\ c.op = "open" /\ c.served => Kept(c.id, c.body)
    /\ c.op = "update" => Kept(c.id, c.body)
    /\ c.op = "create" /\ c.served => c.id \in DOMAIN born /\ c.body.lineage = born[c.id].lineage

(* What makes SavedUnderOwnReport inductive: the id and the document in the
   editor, in every update on its way and in every answer that is still to
   come belong together. *)
LineageInv ==
    /\ list \subseteq DOMAIN born
    /\ reportId # None => Kept(reportId, doc)
    /\ \A r \in DOMAIN store : Kept(r, store[r])
    /\ \A c \in calls : CallKept(c)

(* a run of the effect that is not silenced asks for what is on screen *)
RunCurrent(c) ==
    /\ c.gen <= gen
    /\ c.gen = gen => /\ c.w \in DOMAIN doc.widgets
                      /\ c.req = ApplyVars(doc.widgets[c.w], project, period)

(* What makes WidgetShowsItsQuery and SpinnerIsBackedByRun inductive. *)
RunInv ==
    /\ \A c \in calls : c.op = "query" => RunCurrent(c)
    /\ WidgetShowsItsQuery
    /\ SpinnerIsBackedByRun

-----------------------------------------------------------------------------
(* Facts about the helpers *)

(* A draft is an empty document. *)
LEMMA DraftFacts ==
    ASSUME NEW n
    PROVE  IsDoc(Draft(n)) /\ DOMAIN Draft(n).widgets = {} /\ Draft(n).lineage = n
BY DEF IsDoc, Draft

(* Changing the widgets keeps the lineage. *)
LEMMA EditedFacts ==
    ASSUME NEW d, IsDoc(d), NEW ws, DOMAIN ws \subseteq Widgets
    PROVE  /\ IsDoc([d EXCEPT !.widgets = ws])
           /\ [d EXCEPT !.widgets = ws].lineage = d.lineage
           /\ [d EXCEPT !.widgets = ws].widgets = ws
<1>1. [d EXCEPT !.widgets = ws] = [lineage |-> d.lineage, widgets |-> ws]
  BY DEF IsDoc
<1>. QED  BY <1>1 DEF IsDoc

(* The call that the page makes. *)
LEMMA CallFacts ==
    ASSUME NEW op \in {"list", "open", "create", "update", "delete"}, NEW rid, NEW body, IsDoc(body),
           NEW p, NEW by
    PROVE  LET c == Call(op, rid, body, p, by)
           IN  /\ IsCall(c) /\ c.op = op /\ c.op # "query"
               /\ c.id = rid /\ c.body = body /\ c.project = p /\ ~c.served
BY DEF Call, IsCall

(* The call that asks for the list of reports. *)
LEMMA ListCallFacts ==
    ASSUME NEW p, NEW by
    PROVE  LET c == ListCall(p, by)
           IN  IsCall(c) /\ c.op = "list" /\ c.op # "query"
BY CallFacts, DraftFacts DEF ListCall

(* A call that was served keeps its operation. *)
LEMMA ServedFacts ==
    ASSUME NEW c, IsCall(c), c.op # "query", NEW rid, NEW body, IsDoc(body), Served(c, rid, body)
    PROVE  \E s : /\ calls' = (calls \ {c}) \cup {s}
                  /\ IsCall(s) /\ s.op = c.op /\ s.op # "query"
                  /\ s.id = rid /\ s.body = body /\ s.served
<1>. DEFINE s == [c EXCEPT !.served = TRUE, !.id = rid, !.body = body]
<1>0. /\ c.op \in {"list", "open", "create", "update", "delete"}
      /\ DOMAIN c = {"op", "id", "body", "project", "by", "served"}
  BY DEF IsCall
<1>1. /\ DOMAIN s = DOMAIN c /\ s.op = c.op
      /\ s.id = rid /\ s.body = body /\ s.served
  BY <1>0
<1>2. calls' = (calls \ {c}) \cup {s}
  BY DEF Served
<1>. HIDE DEF s
<1>3. IsCall(s) /\ s.op # "query"
  BY <1>0, <1>1 DEF IsCall
<1>. QED  BY <1>1, <1>2, <1>3

(* What the effect leaves: the calls it was given and runs of its own. *)
LEMMA RunWidgetsShape ==
    ASSUME Shape, NEW d, IsDoc(d), NEW p, NEW t, NEW others, RunWidgets(d, p, t, others)
    PROVE  /\ gen' \in Nat /\ DOMAIN data' = Widgets /\ others \subseteq calls'
           /\ \A c \in calls' : c \in others \/ (IsCall(c) /\ c.op = "query")
<1>1. CASE <<d.widgets, p, t>> = <<doc.widgets, project, period>>
  BY <1>1 DEF RunWidgets, Shape, TypeOK
<1>2. CASE <<d.widgets, p, t>> # <<doc.widgets, project, period>>
  <2>. DEFINE run(w) == [op |-> "query", w |-> w, req |-> ApplyVars(d.widgets[w], p, t), gen |-> gen + 1]
  <2>1. /\ gen' = gen + 1 /\ calls' = others \cup {run(w) : w \in DOMAIN d.widgets}
        /\ DOMAIN data' = Widgets
    BY <1>2 DEF RunWidgets
  <2>2. \A w \in DOMAIN d.widgets : IsCall(run(w)) /\ run(w).op = "query"
    BY DEF IsCall, IsDoc, Shape
  <2>. HIDE DEF run
  <2>. QED  BY <2>1, <2>2 DEF Shape
<1>. QED  BY <1>1, <1>2

(* What the effect runs is what is on screen, and it silences what was. *)
LEMMA RunWidgetsRuns ==
    ASSUME Shape, RunInv, NEW d, IsDoc(d), NEW p, NEW t, NEW others,
           doc' = d, project' = p, period' = t, RunWidgets(d, p, t, others),
           \A c \in others : c.op = "query" => c \in calls,
           \A c \in calls : c.op = "query" => c \in others
    PROVE  RunInv'
<1>1. CASE <<d.widgets, p, t>> = <<doc.widgets, project, period>>
  <2>1. /\ d.widgets = doc.widgets /\ p = project /\ t = period
        /\ data' = data /\ gen' = gen /\ calls' = others
    BY <1>1 DEF RunWidgets
  <2>. QED  BY <2>1 DEF RunInv, RunCurrent, WidgetShowsItsQuery, SpinnerIsBackedByRun
<1>2. CASE <<d.widgets, p, t>> # <<doc.widgets, project, period>>
  <2>. DEFINE run(w) == [op |-> "query", w |-> w, req |-> ApplyVars(d.widgets[w], p, t), gen |-> gen + 1]
  <2>1. /\ gen' = gen + 1 /\ calls' = others \cup {run(w) : w \in DOMAIN d.widgets}
        /\ data' = [w \in Widgets |-> IF w \in DOMAIN d.widgets THEN Loading ELSE data[w]]
    BY <1>2 DEF RunWidgets
  <2>2. \A w \in DOMAIN d.widgets :
           /\ run(w).op = "query" /\ run(w).w = w /\ run(w).gen = gen'
           /\ run(w).req = ApplyVars(d.widgets[w], p, t)
    BY <2>1
  <2>. HIDE DEF run
  <2>3. ASSUME NEW c \in calls', c.op = "query" PROVE RunCurrent(c)'
    <3>1. CASE c \in others
      <4>1. c.gen <= gen /\ c.gen \in Nat /\ gen \in Nat
        BY <2>3, <3>1 DEF RunInv, RunCurrent, Shape, IsCall
      <4>2. c.gen <= gen' /\ c.gen # gen'
        BY <2>1, <4>1
      <4>. QED  BY <4>2 DEF RunCurrent
    <3>2. ASSUME NEW w \in DOMAIN d.widgets, c = run(w) PROVE RunCurrent(c)'
      <4>1. gen' <= gen'
        BY <2>1 DEF Shape
      <4>. QED  BY <2>2, <3>2, <4>1 DEF RunCurrent
    <3>. QED  BY <2>1, <3>1, <3>2
  <2>4. ASSUME NEW w \in DOMAIN d.widgets
        PROVE  /\ data'[w].status = "loading"
               /\ \E c \in calls' : c.op = "query" /\ c.w = w /\ c.gen = gen'
    <3>1. data'[w] = Loading
      BY <2>1 DEF IsDoc
    <3>. QED  BY <2>1, <2>2, <3>1 DEF Loading, WidgetState
  <2>5. WidgetShowsItsQuery' /\ SpinnerIsBackedByRun'
    BY <2>4 DEF WidgetShowsItsQuery, SpinnerIsBackedByRun
  <2>. QED  BY <2>3, <2>5 DEF RunInv
<1>. QED  BY <1>1, <1>2

(* A step that leaves the screen and the runs alone. *)
LEMMA RunFrame ==
    ASSUME RunInv, UNCHANGED <<project, period, doc, data, gen>>,
           \A c \in calls' : c.op = "query" => c \in calls,
           \A c \in calls : c.op = "query" => c \in calls'
    PROVE  RunInv'
BY DEF RunInv, RunCurrent, WidgetShowsItsQuery, SpinnerIsBackedByRun

(* A run ends, with a result, an error, or silenced. *)
LEMMA RunEnds ==
    ASSUME Shape, RunInv, NEW c \in calls, c.op = "query", NEW s,
           s.status \in {"result", "error"}, s.status = "result" => s.of = c.req,
           data' = (IF c.gen = gen THEN [data EXCEPT ![c.w] = s] ELSE data),
           calls' = calls \ {c}, UNCHANGED <<project, period, doc, gen>>
    PROVE  RunInv'
<1>1. c.w \in Widgets /\ DOMAIN data = Widgets /\ DOMAIN doc.widgets \subseteq Widgets
  BY DEF Shape, TypeOK, IsCall
<1>2. \A b \in calls' : b.op = "query" => RunCurrent(b)'
  BY DEF RunInv, RunCurrent
<1>3. CASE c.gen # gen
  BY <1>2, <1>3 DEF RunInv, WidgetShowsItsQuery, SpinnerIsBackedByRun
<1>4. CASE c.gen = gen
  <2>1. data'[c.w] = s /\ \A w \in Widgets : w # c.w => data'[w] = data[w]
    BY <1>1, <1>4
  <2>2. c.req = ApplyVars(doc.widgets[c.w], project, period)
    BY <1>4 DEF RunInv, RunCurrent
  <2>3. WidgetShowsItsQuery'
    BY <1>1, <2>1, <2>2 DEF RunInv, WidgetShowsItsQuery
  <2>4. ASSUME NEW w \in DOMAIN doc.widgets
        PROVE  /\ data'[w].status # "blank"
               /\ data'[w].status = "loading" =>
                    \E b \in calls' : b.op = "query" /\ b.w = w /\ b.gen = gen
    <3>1. CASE w = c.w
      BY <2>1, <3>1
    <3>2. CASE w # c.w
      <4>1. data'[w] = data[w]
        BY <1>1, <2>1, <3>2
      <4>. QED  BY <3>2, <4>1 DEF RunInv, SpinnerIsBackedByRun
    <3>. QED  BY <3>1, <3>2
  <2>. QED  BY <1>2, <2>3, <2>4 DEF RunInv, SpinnerIsBackedByRun
<1>. QED  BY <1>3, <1>4

-----------------------------------------------------------------------------
(* The shape of the state *)

(* A document with a widget put into it or taken out is a document. *)
LEMMA EditFacts ==
    ASSUME Shape
    PROVE  /\ \A q : editing # None =>
                LET d == [doc EXCEPT !.widgets = Put(@, editing, q)]
                IN  IsDoc(d) /\ d.lineage = doc.lineage
           /\ \A w : LET d == [doc EXCEPT !.widgets = [x \in DOMAIN @ \ {w} |-> @[x]]]
                     IN  IsDoc(d) /\ d.lineage = doc.lineage
<1>1. IsDoc(doc) /\ DOMAIN doc.widgets \subseteq Widgets /\ (editing # None => editing \in Widgets)
  BY DEF Shape, TypeOK, IsDoc
<1>2. ASSUME NEW q, editing # None
      PROVE  LET d == [doc EXCEPT !.widgets = Put(@, editing, q)]
             IN  IsDoc(d) /\ d.lineage = doc.lineage
  <2>1. DOMAIN Put(doc.widgets, editing, q) \subseteq Widgets
    BY <1>1, <1>2 DEF Put
  <2>. QED  BY <1>1, <2>1, EditedFacts
<1>3. ASSUME NEW w
      PROVE  LET d == [doc EXCEPT !.widgets = [x \in DOMAIN @ \ {w} |-> @[x]]]
             IN  IsDoc(d) /\ d.lineage = doc.lineage
  <2>. DEFINE ws == [x \in DOMAIN doc.widgets \ {w} |-> doc.widgets[x]]
  <2>1. DOMAIN ws \subseteq Widgets
    BY <1>1
  <2>. HIDE DEF ws
  <2>2. IsDoc([doc EXCEPT !.widgets = ws]) /\ [doc EXCEPT !.widgets = ws].lineage = doc.lineage
    BY <1>1, <2>1, EditedFacts
  <2>. QED  BY <2>2 DEF ws
<1>. QED  BY <1>2, <1>3

(* A step of the page that loads a document into the editor. *)
LEMMA LoadShape ==
    ASSUME Shape, NEW rid \in Reports \cup {"r0", None}, NEW d, IsDoc(d), NEW others,
           \A c \in others : IsCall(c), Load(rid, d, others),
           UNCHANGED <<project, period, list, saving, store, born, crossed>>,
           editing' \in Widgets \cup {None}
    PROVE  Shape'
<1>1. reportId' = rid /\ doc' = d /\ RunWidgets(d, project, period, others)
  BY DEF Load
<1>2. /\ gen' \in Nat /\ DOMAIN data' = Widgets
      /\ \A c \in calls' : c \in others \/ (IsCall(c) /\ c.op = "query")
  BY <1>1, RunWidgetsShape
<1>3. \A c \in calls' : IsCall(c)
  BY <1>2
<1>4. TypeOK'
  BY <1>1, <1>2 DEF Shape, TypeOK, IsDoc
<1>. QED  BY <1>1, <1>2, <1>3, <1>4 DEF Shape

(* A step that leaves the editor and the Reader alone. *)
LEMMA CallsShape ==
    ASSUME Shape, UNCHANGED <<project, period, doc, gen, store, born>>,
           \A c \in calls' : IsCall(c),
           list' \subseteq Reports \cup {"r0"}, reportId' \in Reports \cup {"r0", None},
           editing' \in Widgets \cup {None}, saving' \in BOOLEAN, DOMAIN data' = Widgets,
           crossed' \subseteq DOMAIN born
    PROVE  Shape'
<1>1. TypeOK'
  BY DEF Shape, TypeOK
<1>. QED  BY <1>1 DEF Shape

(* Every step keeps the shape. *)
LEMMA ShapeStep ==
    ASSUME Shape, LineageInv, [Next]_vars
    PROVE  Shape'
<1>0. /\ \A c \in calls : IsCall(c)
      /\ TypeOK /\ IsDoc(doc)
      /\ DOMAIN born \subseteq Reports \cup {"r0"} /\ DOMAIN store \subseteq DOMAIN born
  BY DEF Shape, TypeOK
<1>t. /\ list \subseteq Reports \cup {"r0"} /\ reportId \in Reports \cup {"r0", None}
      /\ editing \in Widgets \cup {None} /\ saving \in BOOLEAN /\ DOMAIN data = Widgets
      /\ crossed \subseteq DOMAIN born /\ period \in Periods \cup {LastMonth}
  BY <1>0 DEF TypeOK
<1>1. ASSUME NEW p \in Projects \cup {All}, SelectProject(p) PROVE Shape'
  <2>. DEFINE others == calls \cup {ListCall(p, "page")}
  <2>1. /\ project' = p /\ RunWidgets(doc, p, period, others)
        /\ UNCHANGED <<period, list, reportId, doc, editing, saving, store, born, crossed>>
    BY <1>1 DEF SelectProject, server
  <2>2. \A c \in others : IsCall(c)
    BY <1>0, ListCallFacts
  <2>. HIDE DEF others
  <2>3. /\ gen' \in Nat /\ DOMAIN data' = Widgets
        /\ \A c \in calls' : c \in others \/ (IsCall(c) /\ c.op = "query")
    BY <1>0, <2>1, RunWidgetsShape
  <2>4. TypeOK'
    BY <1>0, <2>1, <2>3 DEF TypeOK
  <2>5. IsDoc(doc)' /\ \A r \in DOMAIN store' : IsDoc(store'[r])
    BY <2>1 DEF Shape, IsDoc
  <2>. QED  BY <1>0, <2>1, <2>2, <2>3, <2>4, <2>5 DEF Shape
<1>2. ASSUME NEW t \in Periods \cup {LastMonth}, SetPeriod(t) PROVE Shape'
  <2>1. /\ period' = t /\ RunWidgets(doc, project, t, calls)
        /\ UNCHANGED <<project, list, reportId, doc, editing, saving, store, born, crossed>>
    BY <1>2 DEF SetPeriod, server
  <2>2. /\ gen' \in Nat /\ DOMAIN data' = Widgets
        /\ \A c \in calls' : c \in calls \/ (IsCall(c) /\ c.op = "query")
    BY <1>0, <2>1, RunWidgetsShape
  <2>3. period' \in Periods \cup {LastMonth}
    BY <2>1
  <2>4. TypeOK'
    BY <1>0, <2>1, <2>2, <2>3 DEF TypeOK
  <2>5. IsDoc(doc)' /\ \A r \in DOMAIN store' : IsDoc(store'[r])
    BY <2>1 DEF Shape, IsDoc
  <2>. QED  BY <1>0, <2>1, <2>2, <2>4, <2>5 DEF Shape
<1>3. ASSUME NEW r \in list, OpenReport(r) PROVE Shape'
  <2>1. \A c \in calls' : IsCall(c)
    BY <1>0, <1>3, CallFacts, DraftFacts DEF OpenReport
  <2>. QED  BY <1>3, <1>t, <2>1, CallsShape DEF OpenReport, editor, server
<1>4. CASE NewReport
  <2>1. Load(None, Draft(drafts'), calls)
        /\ UNCHANGED <<project, period, list, editing, saving, store, born, crossed>>
    BY <1>4 DEF NewReport, server
  <2>. QED  BY <1>0, <1>t, <2>1, DraftFacts, LoadShape
<1>5. ASSUME NEW w \in Widgets, EditWidget(w) PROVE Shape'
  BY <1>5, <1>0, <1>t, CallsShape DEF EditWidget, editor, server
<1>6. CASE CloseEditor
  BY <1>6, <1>0, <1>t, CallsShape DEF CloseEditor, editor, server
<1>7. ASSUME NEW q \in Queries, AddOrUpdateWidget(q) PROVE Shape'
  <2>. DEFINE d == [doc EXCEPT !.widgets = Put(@, editing, q)]
  <2>1. /\ editing # None /\ editing' = None /\ Load(reportId, d, calls)
        /\ UNCHANGED <<project, period, list, saving, store, born, crossed>>
    BY <1>7 DEF AddOrUpdateWidget, server
  <2>2. IsDoc(d)
    BY <2>1, EditFacts
  <2>. HIDE DEF d
  <2>. QED  BY <1>0, <1>t, <2>1, <2>2, LoadShape
<1>8. ASSUME NEW w \in Widgets, RemoveWidget(w) PROVE Shape'
  <2>. DEFINE d == [doc EXCEPT !.widgets = [x \in DOMAIN @ \ {w} |-> @[x]]]
  <2>1. /\ Load(reportId, d, calls)
        /\ UNCHANGED <<project, period, list, editing, saving, store, born, crossed>>
    BY <1>8 DEF RemoveWidget, server
  <2>2. IsDoc(d)
    BY EditFacts
  <2>. HIDE DEF d
  <2>. QED  BY <1>0, <1>t, <2>1, <2>2, LoadShape
<1>9. CASE Save
  <2>1. \A c \in calls' : IsCall(c)
    BY <1>0, <1>9, CallFacts DEF Save
  <2>. QED  BY <1>9, <1>t, <2>1, CallsShape DEF Save, editor, server
<1>10. CASE DeleteReport
  <2>1. \A c \in calls' : IsCall(c)
    BY <1>0, <1>10, CallFacts, DraftFacts DEF DeleteReport
  <2>. QED  BY <1>10, <1>t, <2>1, CallsShape DEF DeleteReport, editor, server
<1>11. ASSUME NEW c \in calls, Serve(c) PROVE Shape'
  <2>1. /\ c.op # "query"
        /\ UNCHANGED <<project, period, list, reportId, doc, editing, saving, data, gen, crossed>>
    BY <1>11 DEF Serve, editor
  <2>2. IsCall(c) /\ IsDoc(c.body)
    BY <1>0, <2>1 DEF IsCall
  <2>3. ASSUME NEW rid, NEW body, IsDoc(body), Served(c, rid, body) PROVE \A b \in calls' : IsCall(b)
    BY <1>0, <2>1, <2>2, <2>3, ServedFacts
  <2>4. /\ \A b \in calls' : IsCall(b)
        /\ DOMAIN store' \subseteq DOMAIN born' /\ DOMAIN born \subseteq DOMAIN born'
        /\ DOMAIN born' \subseteq Reports \cup {"r0"}
        /\ \A r \in DOMAIN store' : IsDoc(store'[r])
    <3>1. CASE ServeCreate(c)
      <4>1. PICK r \in Reports \ DOMAIN born :
               /\ store' = Put(store, r, c.body)
               /\ born' = Put(born, r, [lineage |-> c.body.lineage, project |-> c.project])
               /\ Served(c, r, c.body)
        BY <3>1 DEF ServeCreate
      <4>2. /\ DOMAIN store' = DOMAIN store \cup {r} /\ DOMAIN born' = DOMAIN born \cup {r}
            /\ \A x \in DOMAIN store' : store'[x] = c.body \/ (x \in DOMAIN store /\ store'[x] = store[x])
        BY <4>1 DEF Put
      <4>. QED  BY <1>0, <2>2, <2>3, <4>1, <4>2 DEF Shape
    <3>2. CASE ServeUpdate(c)
      BY <1>0, <2>2, <2>3, <3>2 DEF ServeUpdate, Shape
    <3>3. CASE ServeDelete(c)
      BY <1>0, <2>2, <2>3, <3>3 DEF ServeDelete, Shape
    <3>4. CASE ServeGet(c)
      BY <1>0, <2>2, <2>3, <3>4 DEF ServeGet, Shape, server
    <3>. QED  BY <1>11, <3>1, <3>2, <3>3, <3>4 DEF Serve
  <2>5. TypeOK'
    BY <1>0, <2>1, <2>4 DEF TypeOK
  <2>6. IsDoc(doc)' /\ gen' \in Nat
    BY <2>1 DEF Shape, IsDoc
  <2>. QED  BY <2>4, <2>5, <2>6 DEF Shape
<1>12. ASSUME NEW c \in calls, OpenReply(c) PROVE Shape'
  <2>1. /\ c.op = "open" /\ c.served /\ Load(c.id, c.body, calls \ {c})
        /\ UNCHANGED <<project, period, list, editing, saving, store, born, crossed>>
    BY <1>12 DEF OpenReply, Returned, server
  <2>2. IsDoc(c.body) /\ c.id \in Reports \cup {"r0", None}
    BY <1>0, <2>1 DEF IsCall, LineageInv, CallKept
  <2>. QED  BY <1>0, <1>t, <2>1, <2>2, LoadShape
<1>13. ASSUME NEW c \in calls, CreateReply(c) PROVE Shape'
  <2>1. c.id \in DOMAIN born
    BY <1>13 DEF CreateReply, Returned, LineageInv, CallKept
  <2>2. \A b \in calls' : IsCall(b)
    BY <1>0, <1>13, ListCallFacts DEF CreateReply
  <2>. QED  BY <1>0, <1>13, <1>t, <2>1, <2>2, CallsShape DEF CreateReply, server
<1>14. ASSUME NEW c \in calls, UpdateReply(c) PROVE Shape'
  <2>1. \A b \in calls' : IsCall(b)
    BY <1>0, <1>14, ListCallFacts DEF UpdateReply
  <2>. QED  BY <1>14, <1>t, <2>1, CallsShape DEF UpdateReply, editor, server
<1>15. ASSUME NEW c \in calls, DeleteReply(c) PROVE Shape'
  <2>. DEFINE others == (calls \ {c}) \cup {ListCall(c.project, "page")}
  <2>1. /\ Load(None, Draft(drafts'), others)
        /\ UNCHANGED <<project, period, list, editing, saving, store, born, crossed>>
    BY <1>15 DEF DeleteReply, server
  <2>2. \A b \in others : IsCall(b)
    BY <1>0, ListCallFacts
  <2>. HIDE DEF others
  <2>. QED  BY <1>0, <1>t, <2>1, <2>2, DraftFacts, LoadShape
<1>16. ASSUME NEW c \in calls, ListReply(c) PROVE Shape'
  <2>1. list' \subseteq Reports \cup {"r0"} /\ saving' \in BOOLEAN
    BY <1>0, <1>16 DEF ListReply
  <2>. QED  BY <1>0, <1>16, <1>t, <2>1, CallsShape DEF ListReply, editor, server
<1>17. ASSUME NEW c \in calls, QueryReply(c) PROVE Shape'
  <2>1. DOMAIN data' = Widgets
    BY <1>17, <1>t DEF QueryReply
  <2>. QED  BY <1>0, <1>17, <1>t, <2>1, CallsShape DEF QueryReply, server
<1>18. ASSUME NEW c \in calls, CallFails(c) PROVE Shape'
  <2>1. DOMAIN data' = Widgets /\ saving' \in BOOLEAN /\ list' \subseteq Reports \cup {"r0"}
    BY <1>18, <1>t DEF CallFails
  <2>. QED  BY <1>0, <1>18, <1>t, <2>1, CallsShape DEF CallFails, server
<1>19. ASSUME NEW c \in calls, NotFound(c) PROVE Shape'
  BY <1>0, <1>19, <1>t, CallsShape DEF NotFound, editor, server
<1>20. CASE UNCHANGED vars
  BY <1>0, <1>20, <1>t, CallsShape DEF vars
<1>. QED
  BY <1>1, <1>2, <1>3, <1>4, <1>5, <1>6, <1>7, <1>8, <1>9, <1>10, <1>11, <1>12, <1>13, <1>14,
     <1>15, <1>16, <1>17, <1>18, <1>19, <1>20 DEF Next, Reply

-----------------------------------------------------------------------------
(* Widgets and runs *)

(* A document is loaded; what else is under way are other calls. *)
LEMMA LoadRuns ==
    ASSUME Shape, RunInv, NEW rid, NEW d, IsDoc(d), NEW others, Load(rid, d, others),
           UNCHANGED <<project, period>>,
           \A c \in others : c.op = "query" => c \in calls,
           \A c \in calls : c.op = "query" => c \in others
    PROVE  RunInv'
<1>1. /\ doc' = d /\ RunWidgets(d, project, period, others)
      /\ project' = project /\ period' = period
  BY DEF Load
<1>. QED  BY <1>1, RunWidgetsRuns

(* Every step keeps the runs and the screen consistent. *)
LEMMA RunStep ==
    ASSUME Shape, RunInv, [Next]_vars
    PROVE  RunInv'
<1>0. /\ \A c \in calls : IsCall(c)
      /\ IsDoc(doc)
  BY DEF Shape
<1>a. ASSUME UNCHANGED <<project, period, doc, data, gen>>, NEW c, c.op # "query",
             calls' = calls \cup {c}
      PROVE  RunInv'
  BY <1>a, RunFrame
<1>b. ASSUME UNCHANGED <<project, period, doc, data, gen>>, NEW c, c.op # "query",
             calls' = calls \ {c}
      PROVE  RunInv'
  BY <1>b, RunFrame
<1>c. ASSUME UNCHANGED <<project, period, doc, data, gen>>, NEW c, c.op # "query",
             NEW b, b.op # "query", calls' = (calls \ {c}) \cup {b}
      PROVE  RunInv'
  BY <1>c, RunFrame
<1>1. ASSUME NEW p \in Projects \cup {All}, SelectProject(p) PROVE RunInv'
  <2>. DEFINE others == calls \cup {ListCall(p, "page")}
  <2>1. /\ project' = p /\ RunWidgets(doc, p, period, others)
        /\ period' = period /\ doc' = doc
    BY <1>1 DEF SelectProject
  <2>2. /\ \A c \in others : c.op = "query" => c \in calls
        /\ \A c \in calls : c.op = "query" => c \in others
    BY ListCallFacts
  <2>. HIDE DEF others
  <2>. QED  BY <1>0, <2>1, <2>2, RunWidgetsRuns
<1>2. ASSUME NEW t \in Periods \cup {LastMonth}, SetPeriod(t) PROVE RunInv'
  <2>1. /\ RunWidgets(doc, project, t, calls) /\ period' = t
        /\ project' = project /\ doc' = doc
    BY <1>2 DEF SetPeriod
  <2>. QED  BY <1>0, <2>1, RunWidgetsRuns
<1>3. ASSUME NEW r \in list, OpenReport(r) PROVE RunInv'
  BY <1>3, <1>a, CallFacts, DraftFacts DEF OpenReport, editor
<1>4. CASE NewReport
  BY <1>4, DraftFacts, LoadRuns DEF NewReport
<1>5. CASE (\E w \in Widgets : EditWidget(w)) \/ CloseEditor \/ UNCHANGED vars
  BY <1>5, RunFrame DEF EditWidget, CloseEditor, editor, vars
<1>6. ASSUME NEW q \in Queries, AddOrUpdateWidget(q) PROVE RunInv'
  <2>. DEFINE d == [doc EXCEPT !.widgets = Put(@, editing, q)]
  <2>1. editing # None /\ Load(reportId, d, calls) /\ UNCHANGED <<project, period>>
    BY <1>6 DEF AddOrUpdateWidget
  <2>2. IsDoc(d)
    BY <2>1, EditFacts
  <2>. HIDE DEF d
  <2>. QED  BY <2>1, <2>2, LoadRuns
<1>7. ASSUME NEW w \in Widgets, RemoveWidget(w) PROVE RunInv'
  <2>. DEFINE d == [doc EXCEPT !.widgets = [x \in DOMAIN @ \ {w} |-> @[x]]]
  <2>1. Load(reportId, d, calls) /\ UNCHANGED <<project, period>>
    BY <1>7 DEF RemoveWidget
  <2>2. IsDoc(d)
    BY EditFacts
  <2>. HIDE DEF d
  <2>. QED  BY <2>1, <2>2, LoadRuns
<1>8. CASE Save
  <2>1. PICK op \in {"create", "update"} : calls' = calls \cup {Call(op, reportId, doc, project, None)}
    BY <1>8 DEF Save
  <2>2. Call(op, reportId, doc, project, None).op # "query"
    BY <1>0, CallFacts
  <2>. QED  BY <1>8, <1>a, <2>1, <2>2 DEF Save, editor
<1>9. CASE DeleteReport
  BY <1>9, <1>a, CallFacts, DraftFacts DEF DeleteReport, editor
<1>10. ASSUME NEW c \in calls, Serve(c) PROVE RunInv'
  <2>1. c.op # "query" /\ UNCHANGED <<project, period, doc, data, gen>>
    BY <1>10 DEF Serve, editor
  <2>2. IsCall(c) /\ IsDoc(c.body)
    BY <1>0, <2>1 DEF IsCall
  <2>3. PICK rid, body : IsDoc(body) /\ Served(c, rid, body)
    BY <1>10, <2>2 DEF Serve, ServeCreate, ServeUpdate, ServeDelete, ServeGet, Shape
  <2>4. PICK s : calls' = (calls \ {c}) \cup {s} /\ s.op # "query"
    BY <2>1, <2>2, <2>3, ServedFacts
  <2>. QED  BY <1>c, <2>1, <2>4
<1>11. ASSUME NEW c \in calls, OpenReply(c) PROVE RunInv'
  <2>1. c.op = "open" /\ Load(c.id, c.body, calls \ {c}) /\ UNCHANGED <<project, period>>
    BY <1>11 DEF OpenReply, Returned
  <2>2. IsDoc(c.body)
    BY <1>0, <2>1 DEF IsCall
  <2>. QED  BY <2>1, <2>2, LoadRuns
<1>12. ASSUME NEW c \in calls, CreateReply(c) \/ UpdateReply(c) PROVE RunInv'
  BY <1>12, <1>c, ListCallFacts DEF CreateReply, UpdateReply, Returned, editor
<1>13. ASSUME NEW c \in calls, DeleteReply(c) PROVE RunInv'
  <2>. DEFINE others == (calls \ {c}) \cup {ListCall(c.project, "page")}
  <2>1. c.op = "delete" /\ Load(None, Draft(drafts'), others) /\ UNCHANGED <<project, period>>
    BY <1>13 DEF DeleteReply, Returned
  <2>2. /\ \A b \in others : b.op = "query" => b \in calls
        /\ \A b \in calls : b.op = "query" => b \in others
    BY <2>1, ListCallFacts
  <2>. HIDE DEF others
  <2>. QED  BY <2>1, <2>2, DraftFacts, LoadRuns
<1>14. ASSUME NEW c \in calls, ListReply(c) \/ NotFound(c) PROVE RunInv'
  BY <1>14, <1>b DEF ListReply, NotFound, editor
<1>15. ASSUME NEW c \in calls, QueryReply(c) PROVE RunInv'
  <2>1. WidgetState("result", c.req).status = "result" /\ WidgetState("result", c.req).of = c.req
    BY DEF WidgetState
  <2>. QED  BY <1>15, <2>1, RunEnds DEF QueryReply
<1>16. ASSUME NEW c \in calls, CallFails(c) PROVE RunInv'
  <2>1. CASE c.op = "query"
    <3>1. Failed.status = "error"
      BY DEF Failed, WidgetState
    <3>. QED  BY <1>16, <2>1, <3>1, RunEnds DEF CallFails
  <2>2. CASE c.op # "query"
    BY <1>16, <1>b, <2>2 DEF CallFails
  <2>. QED  BY <2>1, <2>2
<1>. QED
  BY <1>1, <1>2, <1>3, <1>4, <1>5, <1>6, <1>7, <1>8, <1>9, <1>10, <1>11, <1>12, <1>13, <1>14,
     <1>15, <1>16 DEF Next, Reply

-----------------------------------------------------------------------------
(* Reports and their documents *)

(* A step that leaves the Reader alone and adds no call that breaks the rule. *)
LEMMA LineageFrame ==
    ASSUME LineageInv, UNCHANGED <<store, born>>, crossed \subseteq crossed',
           list' \subseteq DOMAIN born, reportId' # None => Kept(reportId, doc)',
           \A c \in calls' : c \in calls \/ CallKept(c)'
    PROVE  LineageInv'
<1>1. \A r, d : Kept(r, d) => Kept(r, d)'
  BY DEF Kept
<1>2. \A c : CallKept(c) => CallKept(c)'
  BY <1>1 DEF CallKept
<1>. QED  BY <1>1, <1>2 DEF LineageInv

(* The editor keeps the report, or gets another one with its document. *)
LEMMA LoadLineage ==
    ASSUME Shape, LineageInv, NEW rid, NEW d, IsDoc(d), NEW others, Load(rid, d, others),
           rid # None => Kept(rid, d), UNCHANGED <<list, store, born, crossed>>,
           \A c \in others : c \in calls \/ c.op = "list"
    PROVE  LineageInv'
<1>1. reportId' = rid /\ doc' = d /\ RunWidgets(d, project, period, others)
  BY DEF Load
<1>2. \A c \in calls' : c \in others \/ c.op = "query"
  BY <1>1, RunWidgetsShape
<1>3. \A c : c.op \in {"query", "list"} => CallKept(c)'
  BY DEF CallKept
<1>4. reportId' # None => Kept(reportId, doc)'
  BY <1>1 DEF Kept
<1>. QED  BY <1>2, <1>3, <1>4, LineageFrame DEF LineageInv

(* Every step keeps ids and documents together. *)
LEMMA LineageStep ==
    ASSUME Shape, LineageInv, [Next]_vars
    PROVE  LineageInv'
<1>0. /\ \A c \in calls : IsCall(c)
      /\ IsDoc(doc) /\ DOMAIN store \subseteq DOMAIN born /\ list \subseteq DOMAIN born
      /\ reportId # None => Kept(reportId, doc)
  BY DEF Shape, TypeOK, LineageInv
<1>a. ASSUME UNCHANGED <<reportId, doc, list, store, born, crossed>>,
             \A c \in calls' : c \in calls \/ CallKept(c)'
      PROVE  LineageInv'
  <2>1. reportId' # None => Kept(reportId, doc)'
    BY <1>0, <1>a DEF Kept
  <2>. QED  BY <1>0, <1>a, <2>1, LineageFrame
<1>b. \A c : c.op \in {"query", "list", "delete"} => CallKept(c)'
  BY DEF CallKept
<1>1. ASSUME NEW p \in Projects \cup {All}, SelectProject(p) PROVE LineageInv'
  <2>. DEFINE others == calls \cup {ListCall(p, "page")}
  <2>1. /\ RunWidgets(doc, p, period, others)
        /\ UNCHANGED <<reportId, doc, list, store, born, crossed>>
    BY <1>1 DEF SelectProject, server
  <2>2. \A c \in others : c \in calls \/ c.op = "list"
    BY ListCallFacts
  <2>. HIDE DEF others
  <2>3. \A c \in calls' : c \in others \/ c.op = "query"
    BY <1>0, <2>1, RunWidgetsShape
  <2>. QED  BY <1>a, <1>b, <2>1, <2>2, <2>3
<1>2. ASSUME NEW t \in Periods \cup {LastMonth}, SetPeriod(t) PROVE LineageInv'
  <2>1. /\ RunWidgets(doc, project, t, calls)
        /\ UNCHANGED <<reportId, doc, list, store, born, crossed>>
    BY <1>2 DEF SetPeriod, server
  <2>2. \A c \in calls' : c \in calls \/ c.op = "query"
    BY <1>0, <2>1, RunWidgetsShape
  <2>. QED  BY <1>a, <1>b, <2>1, <2>2
<1>3. ASSUME NEW r \in list, OpenReport(r) PROVE LineageInv'
  <2>1. UNCHANGED <<reportId, doc, list, store, born, crossed>>
    BY <1>3 DEF OpenReport, editor, server
  <2>2. PICK b : calls' = calls \cup {b} /\ b.op = "open" /\ b.id = r /\ ~b.served
    BY <1>3, CallFacts, DraftFacts DEF OpenReport
  <2>3. CallKept(b)'
    BY <1>0, <2>1, <2>2 DEF CallKept
  <2>. QED  BY <1>a, <2>1, <2>2, <2>3
<1>4. CASE NewReport
  BY <1>4, DraftFacts, LoadLineage DEF NewReport, server
<1>5. CASE (\E w \in Widgets : EditWidget(w)) \/ CloseEditor \/ UNCHANGED vars
  BY <1>5, <1>a DEF EditWidget, CloseEditor, editor, server, vars
<1>6. ASSUME NEW q \in Queries, AddOrUpdateWidget(q) PROVE LineageInv'
  <2>. DEFINE d == [doc EXCEPT !.widgets = Put(@, editing, q)]
  <2>1. editing # None /\ Load(reportId, d, calls) /\ UNCHANGED <<list, store, born, crossed>>
    BY <1>6 DEF AddOrUpdateWidget, server
  <2>2. IsDoc(d) /\ d.lineage = doc.lineage
    BY <2>1, EditFacts
  <2>. HIDE DEF d
  <2>3. reportId # None => Kept(reportId, d)
    BY <1>0, <2>2 DEF Kept
  <2>. QED  BY <2>1, <2>2, <2>3, LoadLineage
<1>7. ASSUME NEW w \in Widgets, RemoveWidget(w) PROVE LineageInv'
  <2>. DEFINE d == [doc EXCEPT !.widgets = [x \in DOMAIN @ \ {w} |-> @[x]]]
  <2>1. Load(reportId, d, calls) /\ UNCHANGED <<list, store, born, crossed>>
    BY <1>7 DEF RemoveWidget, server
  <2>2. IsDoc(d) /\ d.lineage = doc.lineage
    BY EditFacts
  <2>. HIDE DEF d
  <2>3. reportId # None => Kept(reportId, d)
    BY <1>0, <2>2 DEF Kept
  <2>. QED  BY <2>1, <2>2, <2>3, LoadLineage
<1>8. CASE Save
  <2>. DEFINE op == IF reportId = None THEN "create" ELSE "update"
  <2>1. UNCHANGED <<reportId, doc, list, store, born, crossed>>
    BY <1>8 DEF Save, editor, server
  <2>2. PICK b : /\ calls' = calls \cup {b}
                 /\ b.op = op /\ b.id = reportId /\ b.body = doc /\ ~b.served
    <3>1. op \in {"list", "open", "create", "update", "delete"}
      OBVIOUS
    <3>2. calls' = calls \cup {Call(op, reportId, doc, project, None)}
      BY <1>8 DEF Save
    <3>. HIDE DEF op
    <3>. QED  BY <1>0, <3>1, <3>2, CallFacts
  <2>3. CallKept(b)'
    BY <1>0, <2>1, <2>2 DEF CallKept, Kept
  <2>. QED  BY <1>a, <2>1, <2>2, <2>3
<1>9. CASE DeleteReport
  <2>1. UNCHANGED <<reportId, doc, list, store, born, crossed>>
    BY <1>9 DEF DeleteReport, editor, server
  <2>2. PICK b : calls' = calls \cup {b} /\ b.op = "delete"
    BY <1>9, CallFacts, DraftFacts DEF DeleteReport
  <2>. QED  BY <1>a, <1>b, <2>1, <2>2
<1>10. ASSUME NEW c \in calls, Serve(c) PROVE LineageInv'
  <2>1. c.op # "query" /\ UNCHANGED <<reportId, doc, list, crossed>>
    BY <1>10 DEF Serve, editor
  <2>2. IsCall(c) /\ IsDoc(c.body) /\ CallKept(c)
    BY <1>0, <2>1 DEF IsCall, LineageInv
  <2>3. CASE ServeCreate(c)
    <3>1. PICK r \in Reports \ DOMAIN born :
             /\ store' = Put(store, r, c.body)
             /\ born' = Put(born, r, [lineage |-> c.body.lineage, project |-> c.project])
             /\ Served(c, r, c.body)
      BY <2>3 DEF ServeCreate
    <3>2. /\ DOMAIN born' = DOMAIN born \cup {r} /\ born'[r].lineage = c.body.lineage
          /\ \A x \in DOMAIN born : born'[x] = born[x]
          /\ DOMAIN store' = DOMAIN store \cup {r} /\ store'[r] = c.body
          /\ \A x \in DOMAIN store : store'[x] = store[x]
      <4>1. r \notin DOMAIN store
        BY <1>0
      <4>. QED  BY <3>1, <4>1 DEF Put
    <3>3. \A x, d : Kept(x, d) => Kept(x, d)'
      BY <2>1, <3>2 DEF Kept
    <3>4. \A b : CallKept(b) => CallKept(b)'
      BY <3>2, <3>3 DEF CallKept
    <3>5. PICK s : /\ calls' = (calls \ {c}) \cup {s} /\ s.op = c.op
                   /\ s.id = r /\ s.body = c.body
      BY <2>1, <2>2, <3>1, ServedFacts
    <3>6. CallKept(s)'
      BY <2>3, <3>2, <3>5 DEF ServeCreate, CallKept
    <3>7. Kept(r, store[r])'
      BY <3>2 DEF Kept
    <3>8. \A x \in DOMAIN store' : Kept(x, store[x])'
      BY <3>2, <3>3, <3>7 DEF LineageInv
    <3>9. reportId' # None => Kept(reportId, doc)'
      BY <1>0, <2>1, <3>3
    <3>. QED  BY <1>0, <2>1, <3>2, <3>4, <3>5, <3>6, <3>8, <3>9 DEF LineageInv
  <2>4. ASSUME UNCHANGED <<store, born>>, NEW s, calls' = (calls \ {c}) \cup {s}, CallKept(s)
        PROVE  LineageInv'
    <3>1. CallKept(s)'
      BY <2>1, <2>4 DEF CallKept, Kept
    <3>. QED  BY <1>a, <2>1, <2>4, <3>1
  <2>5. CASE ServeGet(c)
    <3>1. Served(c, c.id, store[c.id]) /\ c.id \in DOMAIN store /\ c.op = "open" /\ UNCHANGED <<store, born>>
      BY <2>5 DEF ServeGet, server
    <3>2. IsDoc(store[c.id]) /\ Kept(c.id, store[c.id])
      BY <3>1 DEF Shape, LineageInv
    <3>3. PICK s : /\ calls' = (calls \ {c}) \cup {s} /\ s.op = c.op
                   /\ s.id = c.id /\ s.body = store[c.id]
      BY <2>1, <2>2, <3>1, <3>2, ServedFacts
    <3>4. CallKept(s)
      BY <3>1, <3>2, <3>3 DEF CallKept, Kept
    <3>. QED  BY <2>4, <3>1, <3>3, <3>4
  <2>6. CASE ServeUpdate(c) \/ ServeDelete(c)
    <3>1. Served(c, c.id, c.body) /\ born' = born /\ c.op \in {"update", "delete"}
      BY <2>6 DEF ServeUpdate, ServeDelete
    <3>2. PICK s : /\ calls' = (calls \ {c}) \cup {s} /\ s.op = c.op
                   /\ s.id = c.id /\ s.body = c.body
      BY <2>1, <2>2, <3>1, ServedFacts
    <3>3. CallKept(s)'
      BY <2>1, <2>2, <3>1, <3>2 DEF CallKept, Kept
    <3>4. \A x \in DOMAIN store' : x \in DOMAIN store /\ Kept(x, store'[x])
      BY <2>2, <2>6 DEF ServeUpdate, ServeDelete, CallKept, LineageInv
    <3>5. \A x \in DOMAIN store' : Kept(x, store[x])'
      BY <2>1, <3>1, <3>4 DEF Kept
    <3>6. \A b : CallKept(b) => CallKept(b)'
      BY <2>1, <3>1 DEF CallKept, Kept
    <3>7. reportId' # None => Kept(reportId, doc)'
      BY <1>0, <2>1, <3>1 DEF Kept
    <3>. QED  BY <1>0, <2>1, <3>1, <3>2, <3>3, <3>5, <3>6, <3>7 DEF LineageInv
  <2>. QED  BY <1>10, <2>3, <2>5, <2>6 DEF Serve
<1>11. ASSUME NEW c \in calls, OpenReply(c) PROVE LineageInv'
  <2>1. /\ c.op = "open" /\ c.served /\ Load(c.id, c.body, calls \ {c})
        /\ UNCHANGED <<list, store, born, crossed>>
    BY <1>11 DEF OpenReply, Returned, server
  <2>2. IsDoc(c.body) /\ Kept(c.id, c.body)
    BY <1>0, <2>1 DEF IsCall, LineageInv, CallKept
  <2>. QED  BY <2>1, <2>2, LoadLineage
<1>12. ASSUME NEW c \in calls, CreateReply(c) PROVE LineageInv'
  <2>1. /\ reportId' = c.id /\ doc' = doc /\ UNCHANGED <<list, store, born>>
        /\ crossed' = IF doc.lineage = c.body.lineage THEN crossed ELSE crossed \cup {c.id}
        /\ calls' = (calls \ {c}) \cup {ListCall(c.project, "save")}
        /\ c.op = "create" /\ c.served
    BY <1>12 DEF CreateReply, Returned, server
  <2>2. c.id \in DOMAIN born /\ c.body.lineage = born[c.id].lineage
    BY <2>1 DEF LineageInv, CallKept
  <2>3. Kept(reportId, doc)'
    BY <2>1, <2>2 DEF Kept
  <2>4. \A b \in calls' : b \in calls \/ CallKept(b)'
    BY <1>b, <2>1, ListCallFacts
  <2>. QED  BY <1>0, <2>1, <2>3, <2>4, LineageFrame
<1>13. ASSUME NEW c \in calls, UpdateReply(c) PROVE LineageInv'
  <2>1. /\ calls' = (calls \ {c}) \cup {ListCall(c.project, "save")}
        /\ UNCHANGED <<reportId, doc, list, store, born, crossed>>
    BY <1>13 DEF UpdateReply, editor, server
  <2>2. \A b \in calls' : b \in calls \/ CallKept(b)'
    BY <1>b, <2>1, ListCallFacts
  <2>. QED  BY <1>a, <2>1, <2>2
<1>14. ASSUME NEW c \in calls, DeleteReply(c) PROVE LineageInv'
  <2>. DEFINE others == (calls \ {c}) \cup {ListCall(c.project, "page")}
  <2>1. /\ Load(None, Draft(drafts'), others) /\ UNCHANGED <<list, store, born, crossed>>
    BY <1>14 DEF DeleteReply, server
  <2>2. \A b \in others : b \in calls \/ b.op = "list"
    BY ListCallFacts
  <2>. HIDE DEF others
  <2>. QED  BY <2>1, <2>2, DraftFacts, LoadLineage
<1>15. ASSUME NEW c \in calls, ListReply(c) PROVE LineageInv'
  <2>1. /\ list' \subseteq DOMAIN store /\ calls' = calls \ {c}
        /\ UNCHANGED <<reportId, doc, store, born, crossed>>
    BY <1>15 DEF ListReply, editor, server
  <2>2. reportId' # None => Kept(reportId, doc)'
    BY <1>0, <2>1 DEF Kept
  <2>. QED  BY <1>0, <2>1, <2>2, LineageFrame
<1>16. ASSUME NEW c \in calls, QueryReply(c) \/ NotFound(c) \/ CallFails(c) PROVE LineageInv'
  <2>1. CASE QueryReply(c) \/ NotFound(c)
    BY <2>1, <1>a DEF QueryReply, NotFound, editor, server
  <2>2. CASE CallFails(c)
    <3>1. /\ UNCHANGED <<reportId, doc, store, born, crossed>> /\ calls' \subseteq calls
          /\ list' \subseteq list
      BY <2>2 DEF CallFails, server
    <3>. QED  BY <3>1, LineageFrame DEF LineageInv, Kept
  <2>. QED  BY <1>16, <2>1, <2>2
<1>. QED
  BY <1>1, <1>2, <1>3, <1>4, <1>5, <1>6, <1>7, <1>8, <1>9, <1>10, <1>11, <1>12, <1>13, <1>14,
     <1>15, <1>16 DEF Next, Reply

-----------------------------------------------------------------------------
(* The theorems *)

StudioInv == Shape /\ RunInv /\ LineageInv

(* The editor as it is opened satisfies the invariant. *)
LEMMA StudioInit == Init => StudioInv
<1>. SUFFICES ASSUME Init PROVE StudioInv
  OBVIOUS
<1>1. IsDoc(doc) /\ DOMAIN doc.widgets = {}
  BY DraftFacts DEF Init
<1>2. DOMAIN store = {"r0"} /\ store["r0"] = [lineage |-> 0, widgets |-> Saved]
  BY DEF Init
<1>3. IsDoc(store["r0"]) /\ store["r0"].lineage = 0
  BY <1>2, StudioAssumption DEF IsDoc
<1>4. DOMAIN born = {"r0"} /\ born["r0"].lineage = 0
  BY DEF Init
<1>5. \A c \in calls : IsCall(c) /\ c.op = "list"
  BY ListCallFacts DEF Init
<1>6. TypeOK
  BY <1>1, <1>2, <1>4 DEF Init, TypeOK
<1>7. Shape
  BY <1>1, <1>2, <1>3, <1>4, <1>5, <1>6 DEF Shape, Init
<1>8. RunInv
  BY <1>1, <1>5 DEF RunInv, WidgetShowsItsQuery, SpinnerIsBackedByRun
<1>9. LineageInv
  <2>1. \A c \in calls : CallKept(c)
    BY <1>5 DEF CallKept
  <2>2. \A r \in DOMAIN store : Kept(r, store[r])
    BY <1>2, <1>3, <1>4 DEF Kept
  <2>. QED  BY <2>1, <2>2 DEF LineageInv, Init
<1>. QED  BY <1>7, <1>8, <1>9 DEF StudioInv

(* The three parts hold together. *)
LEMMA StudioInvariant == Spec => []StudioInv
<1>1. StudioInv /\ [Next]_vars => StudioInv'
  BY ShapeStep, RunStep, LineageStep DEF StudioInv
<1>. QED  BY <1>1, StudioInit, PTL DEF Spec

(* Type correctness of the editor, the list and the Reader's reports. *)
THEOREM StudioTypeOK == Spec => []TypeOK
<1>1. StudioInv => TypeOK
  BY DEF StudioInv, Shape
<1>. QED  BY <1>1, StudioInvariant, PTL

(* A widget never shows the result of an older query, project or period,
   whatever order the results of any number of runs arrive in. *)
THEOREM StudioWidgetShowsItsQuery == Spec => []WidgetShowsItsQuery
<1>1. StudioInv => WidgetShowsItsQuery
  BY DEF StudioInv, RunInv
<1>. QED  BY <1>1, StudioInvariant, PTL

(* A widget's spinner always waits for a call that is under way and whose
   answer will not be dropped. *)
THEOREM StudioSpinnerIsBackedByRun == Spec => []SpinnerIsBackedByRun
<1>1. StudioInv => SpinnerIsBackedByRun
  BY DEF StudioInv, RunInv
<1>. QED  BY <1>1, StudioInvariant, PTL

(* No report is overwritten with the document of another, for any number of
   reports, drafts and calls that are under way at once, except one whose
   id was adopted by an editor that had moved on (`crossed`): that one the code
   does overwrite. *)
THEOREM StudioSavedUnderOwnReport == Spec => []SavedUnderOwnReport
<1>1. StudioInv => SavedUnderOwnReport
  BY DEF StudioInv, LineageInv, Kept, SavedUnderOwnReport
<1>. QED  BY <1>1, StudioInvariant, PTL
=============================================================================
