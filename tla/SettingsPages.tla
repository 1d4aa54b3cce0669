-------------------------- MODULE SettingsPages ----------------------------
(***************************************************************************)
(* The settings of the dashboard: lists of projects, API keys, members,    *)
(* users, invites, webhooks and monitors that are changed from the page    *)
(* that shows them.  A change is a mutation of react-query: it is sent,    *)
(* applied by the server, and acknowledged; the acknowledgement            *)
(* invalidates the list its hook was rendered for, which is then asked for *)
(* again.  All of this may happen while the user moves between pages and   *)
(* projects.                                                               *)
(*                                                                         *)
(* Data is abstracted to how many changes an answer has seen: the version  *)
(* of a list is the number of changes applied to it.                       *)
(***************************************************************************)
EXTENDS QueryCache

CONSTANTS
    Projects,    \* what the selectors offer besides "all"
    Followed,    \* the lists of which a behaviour tracks one (requests and
                 \* changes of different lists do not interact)
    MaxNav,      \* bound: user moves
    MaxChanges,  \* bound: changes submitted
    MaxFail      \* bound: requests that fail

ASSUME SettingsAssumption == MaxChanges \in Nat

All == "all"
None == "none"

VARIABLES
    follow,    \* the list tracked
    page,      \* the settings page on screen
    sel,       \* [project: of the header, expanded: of the keys page]
    invalid,   \* keys invalidated since their last answer
    pending,   \* changes sent and not yet settled
    rows,      \* on the server: list -> number of changes applied
    acked,     \* list -> version of its last acknowledged change
    missed,    \* lists left as they were before an acknowledged change, until
               \* an answer that has it arrives (see Missed)
    nav, sent, fails

vars == <<follow, page, sel, cache, failed, flights, invalid, pending, rows, acked, missed,
          nav, sent, fails>>
browser == <<follow, cache, failed, flights, invalid>>

----------------------------------------------------------------------------
(* The pages: which lists each shows.  The header lists the projects on    *)
(* every page.                                                             *)

KeysTab           == {"keys"}
MembersTab        == {"members"}
APIKeysPage       == KeysTab \cup MembersTab
MembersPage       == {"members"}
UsersPage         == {"users", "invites"}
NotificationsPage == {"webhooks"}
HealthcheckPage   == {"monitors"}
RetentionPage     == {"usage"}

Pages == {"keys", "members", "users", "notifications", "monitors", "retention"}

Lists(p) ==
    {"projects"} \cup
    CASE p = "keys"          -> APIKeysPage
      [] p = "members"       -> MembersPage
      [] p = "users"         -> UsersPage
      [] p = "notifications" -> NotificationsPage
      [] p = "monitors"      -> HealthcheckPage
      [] p = "retention"     -> RetentionPage

\* The project a page works on.
Scope(p, s) == IF p = "keys" THEN s.expanded ELSE s.project

\* Mutant: the list of projects is keyed by the project selected.
KeyOfScoped(v, p, s) ==
    <<v, IF v \in {"users", "invites"} THEN All ELSE Scope(p, s)>>

\* The keys of the hooks: by project, but for the lists of the whole system.
KeyOf(v, p, s) ==
    <<v, IF v \in {"projects", "users", "invites"} THEN All ELSE Scope(p, s)>>

\* Monitors are listed for all projects too; the other lists need one.
Enabled(v, p, s) ==
    v \in {"projects", "users", "invites", "monitors"} \/ Scope(p, s) \in Projects

Active(p, s) == {v \in Lists(p) \cap {follow} : Enabled(v, p, s)}
KeysOf(p, s) == {KeyOf(v, p, s) : v \in Active(p, s)}
OnScreen == KeysOf(page, sel)

AllKeys == ({"projects", "users", "invites", "monitors"} \X {All})
           \cup ({"keys", "members", "webhooks", "monitors", "usage"} \X Projects)

\* staleTime: half a minute for monitors, minutes for usage.
KeepsFresh == {"monitors", "usage"}

Ask(k) == [key |-> k, req |-> k, ver |-> Unanswered]

\* The list of all monitors holds those of every project.
AllMonitors == <<"monitors", All>>
Holding(k) == {k} \cup IF k[1] = "monitors" THEN {AllMonitors} ELSE {}

Init ==
    /\ follow \in Followed
    /\ page \in {p \in Pages : follow \in Lists(p)}
    /\ sel = [project |-> All, expanded |-> None]
    /\ cache = <<>> /\ failed = {} /\ invalid = {}
    /\ flights = {Ask(k) : k \in OnScreen}
    /\ pending = {} /\ missed = {}
    /\ rows = [k \in AllKeys |-> 0] /\ acked = [k \in AllKeys |-> 0]
    /\ nav = 0 /\ sent = 0 /\ fails = 0

----------------------------------------------------------------------------
(* Moving around.                                                          *)

\* The component that sent change c is still on the page after a move there:
\* all of the keys page, a form whose page still has a project, the row of a
\* member that the other project's list, already loaded, has too.
Stays(c, p, s) ==
    /\ c.mounted /\ p = page
    /\ \/ p = "keys"
       \/ /\ Scope(p, s) \in Projects
          /\ c.kind = "create" \/ (c.shared /\ KeyOf(c.list[1], p, s) \in DOMAIN cache)

\* A pending change is bound to the project its component was last rendered for.
Rebound(p, s) ==
    {IF Stays(c, p, s) THEN [c EXCEPT !.hook = KeyOf(c.list[1], p, s)[2]]
                       ELSE [c EXCEPT !.mounted = FALSE] : c \in pending}

\* The lists that come on screen are asked for if they are stale: at once, or
\* when their staleTime is over, or when they were invalidated.
Show(p, s) ==
    /\ nav < MaxNav /\ nav' = nav + 1
    /\ page' = p /\ sel' = s
    /\ pending' = Rebound(p, s)
    /\ LET new == KeysOf(p, s) \ OnScreen
           fresh == {k \in new : k[1] \in KeepsFresh /\ k \in DOMAIN cache \ invalid}
       IN  \E kept \in {{}, fresh} : Fetch({Ask(k) : k \in new \ kept})
    /\ UNCHANGED <<follow, cache, invalid, rows, acked, missed, sent, fails>>

\* The sidebar of the settings; leaving the keys page collapses its projects.
Navigate(p) == p \in Pages \ {page} /\ Show(p, [sel EXCEPT !.expanded = None])
\* The project selector of the header; the keys, users and retention pages hide it.
SelectProject(p) ==
    /\ page \in {"members", "notifications", "monitors"} /\ p # sel.project
    /\ Show(page, [sel EXCEPT !.project = p])
\* A project of the keys page is expanded or collapsed.
Expand(p) ==
    /\ page = "keys"
    /\ Show(page, [sel EXCEPT !.expanded = IF @ = p THEN None ELSE p])

Focus ==
    /\ nav < MaxNav /\ nav' = nav + 1
    /\ Fetch({Ask(k) : k \in OnScreen})
    /\ UNCHANGED <<follow, page, sel, cache, invalid, pending, rows, acked, missed, sent, fails>>

----------------------------------------------------------------------------
(* Changes.  A form is disabled while its change is pending; rows are not, *)
(* and on the keys page all rows share the page's hook, which follows its  *)
(* latest change only.                                                     *)

Submit(v, kind, shared) ==
    LET k == KeyOf(v, page, sel)
        Same(d) == d.mounted /\ d.list[1] = v /\ d.kind = kind
        c == [list |-> k, kind |-> kind, hook |-> k[2], mounted |-> TRUE,
              shared |-> shared, ver |-> Unanswered, all |-> 0, id |-> sent]
    IN
    /\ v \in Active(page, sel) /\ k # AllMonitors
    /\ kind # "create" => k \in DOMAIN cache
    /\ kind = "create" => ~\E d \in pending : Same(d)
    /\ sent < MaxChanges /\ sent' = sent + 1
    /\ pending' = {[d EXCEPT !.mounted = @ /\ ~(page = "keys" /\ Same(d))] : d \in pending}
                  \cup {c}
    /\ UNCHANGED <<browser, page, sel, rows, acked, missed, nav, fails>>

CreateProject == page = "keys" /\ Submit("projects", "create", FALSE)
CreateAPIKey  == page = "keys" /\ Submit("keys", "create", FALSE)
RevokeAPIKey  == page = "keys" /\ Submit("keys", "revoke", FALSE)
AddMember     == page \in {"keys", "members"} /\ Submit("members", "create", FALSE)
UpdateMemberRole(both) == page \in {"keys", "members"} /\ Submit("members", "role", both)
RemoveMember(both)     == page \in {"keys", "members"} /\ Submit("members", "remove", both)
CreateInvite  == page = "users" /\ Submit("invites", "create", FALSE)
RevokeInvite  == page = "users" /\ Submit("invites", "revoke", FALSE)
DeleteUser    == page = "users" /\ Submit("users", "remove", FALSE)
CreateWebhook == page = "notifications" /\ Submit("webhooks", "create", FALSE)
DeleteWebhook == page = "notifications" /\ Submit("webhooks", "remove", FALSE)
CreateMonitor == page = "monitors" /\ Submit("monitors", "create", FALSE)
\* Edited in a form, paused or resumed, deleted.
UpdateMonitor == page = "monitors" /\ Submit("monitors", "edit", FALSE)
DeleteMonitor == page = "monitors" /\ Submit("monitors", "remove", FALSE)

\* The server applies the change: it is now part of every later answer.
Apply(c) ==
    /\ c.ver = Unanswered
    /\ rows' = [k \in AllKeys |-> rows[k] + IF k \in Holding(c.list) THEN 1 ELSE 0]
    /\ pending' = (pending \ {c})
                  \cup {[c EXCEPT !.ver = rows'[c.list], !.all = rows'[AllMonitors]]}
    /\ UNCHANGED <<browser, page, sel, acked, missed, nav, sent, fails>>

\* invalidateQueries: the list is asked for again if it is on screen, and
\* otherwise when it comes back.
Invalidate(k) ==
    /\ invalid' = invalid \cup ({k} \cap DOMAIN cache)
    /\ Refetch({Ask(j) : j \in {k} \cap OnScreen})

\* The lists that go on showing what was there before change c when its
\* acknowledgement invalidates k.  A list other than k is not touched: the hook
\* may follow another project by now, and no change invalidates the list of all
\* monitors.  An older request for k itself goes on in two cases: the first load
\* is shared, and a list off screen is only marked, which the older answer undoes.
Missed(c, k) ==
    {j \in Holding(c.list) :
        IF j = k THEN InFlight(j) /\ j \notin OnScreen \cap DOMAIN cache
                 ELSE InFlight(j) \/ j \in DOMAIN cache}

\* The lists' versions with change c in them.
Acknowledged(c) ==
    [k \in AllKeys |->
        LET v == IF k = c.list THEN c.ver ELSE IF k \in Holding(c.list) THEN c.all ELSE 0
        IN  IF v > acked[k] THEN v ELSE acked[k]]

\* Mutant: onSuccess is missing.
ReplyForgets(c) ==
    /\ c.ver # Unanswered
    /\ pending' = pending \ {c}
    /\ acked' = Acknowledged(c)
    /\ missed' = missed \cup Missed(c, <<c.list[1], c.hook>>)
    /\ UNCHANGED <<browser, page, sel, rows, nav, sent, fails>>

\* Mutant: refetchType "none", the list is marked and not asked for again.
ReplyMarksOnly(c) ==
    LET k == <<c.list[1], c.hook>> IN
    /\ c.ver # Unanswered
    /\ pending' = pending \ {c}
    /\ invalid' = invalid \cup ({k} \cap DOMAIN cache)
    /\ acked' = Acknowledged(c)
    /\ missed' = missed \cup Missed(c, k)
    /\ UNCHANGED <<follow, flights, failed, page, sel, cache, rows, nav, sent, fails>>

\* The acknowledgement arrives: onSuccess invalidates the list of the project
\* the hook is bound to now.
Reply(c) ==
    LET k == <<c.list[1], c.hook>> IN
    /\ c.ver # Unanswered
    /\ pending' = pending \ {c}
    /\ Invalidate(k)
    /\ acked' = Acknowledged(c)
    /\ missed' = missed \cup Missed(c, k)
    /\ UNCHANGED <<follow, page, sel, cache, rows, nav, sent, fails>>

\* The change is refused, or its acknowledgement is lost: an error shows and no
\* list is asked for.
Refuse(c) ==
    /\ fails < MaxFail /\ fails' = fails + 1
    /\ pending' = pending \ {c}
    /\ UNCHANGED <<browser, page, sel, rows, acked, missed, nav, sent>>

----------------------------------------------------------------------------
(* Reading the lists.                                                      *)

Answer(f) ==
    /\ f.ver = Unanswered
    /\ flights' = (flights \ {f}) \cup {[f EXCEPT !.ver = rows[f.key]]}
    /\ UNCHANGED <<follow, page, sel, cache, failed, invalid, pending, rows, acked, missed, nav, sent, fails>>

Arrive(f) ==
    /\ f.ver # Unanswered
    /\ cache' = Stored(f)
    /\ flights' = flights \ {f} /\ failed' = failed \ {f.key}
    /\ invalid' = invalid \ {f.key}
    /\ missed' = IF f.ver >= acked[f.key] THEN missed \ {f.key} ELSE missed
    /\ UNCHANGED <<follow, page, sel, pending, rows, acked, nav, sent, fails>>

Fail(f) ==
    /\ fails < MaxFail /\ fails' = fails + 1
    /\ flights' = flights \ {f} /\ failed' = failed \cup {f.key}
    /\ UNCHANGED <<follow, page, sel, cache, invalid, pending, rows, acked, missed, nav, sent>>

Next ==
    \/ \E p \in Pages : Navigate(p)
    \/ \E p \in Projects \cup {All} : SelectProject(p)
    \/ \E p \in Projects : Expand(p)
    \/ Focus
    \/ CreateProject \/ CreateAPIKey \/ RevokeAPIKey \/ AddMember
    \/ \E both \in BOOLEAN : UpdateMemberRole(both) \/ RemoveMember(both)
    \/ CreateInvite \/ RevokeInvite \/ DeleteUser \/ CreateWebhook \/ DeleteWebhook
    \/ CreateMonitor \/ UpdateMonitor \/ DeleteMonitor
    \/ \E c \in pending : Apply(c) \/ Reply(c) \/ Refuse(c)
    \/ \E f \in flights : Answer(f) \/ Arrive(f) \/ Fail(f)

Spec == Init /\ [][Next]_vars

----------------------------------------------------------------------------
\* The shape of the state; only a list that is in the cache is marked invalid.
TypeOK ==
    /\ page \in Pages
    /\ sel \in [project : Projects \cup {All}, expanded : Projects \cup {None}]
    /\ DOMAIN cache \subseteq AllKeys /\ failed \subseteq AllKeys
    /\ invalid \subseteq DOMAIN cache
    /\ \A f \in flights : f.key \in AllKeys /\ f.ver \in -1 .. MaxChanges
    /\ \A c \in pending : c.list \in AllKeys /\ c.hook \in Projects \cup {All, None}
    /\ rows \in [AllKeys -> 0 .. MaxChanges] /\ acked \in [AllKeys -> 0 .. MaxChanges]
    /\ missed \subseteq AllKeys

\* A list on screen shows every change that the server acknowledged, or is being
\* fetched, or its last fetch failed: the invalidation after a change outlives
\* overlapping changes, focus refetches, and leaving the page and coming back.
\* It says nothing of a list that onSuccess did not reach (Missed): the hook had
\* moved to another project, the first load was still under way, an older request
\* ran for a list off screen, or it is the list of all monitors, which no hook
\* invalidates.  Such a list may be outdated until its next answer.
AcknowledgedChangeShows ==
    \A k \in (OnScreen \cap DOMAIN cache) \ missed :
        cache[k].ver >= acked[k] \/ InFlight(k) \/ k \in failed

\* An answer on its way has every acknowledged change of its list, a first load
\* included: the request that an acknowledgement overtook was cancelled by the
\* invalidation, or its list is one of those just named (Missed).
RefetchSeesChange ==
    \A f \in flights :
        (f.ver # Unanswered /\ f.key \notin missed) => f.ver >= acked[f.key]
=============================================================================
