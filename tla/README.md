# Verification of BatAudit

TLA+ models of the parts of BatAudit whose correctness depends on the order in
which several actors take their steps: the ingest path from an SDK to the audits
table, the worker pool with its autoscaling, data tiering, the healthcheck
monitors, the sessions of the wallboard screens, and the pages of the dashboard
with their cached and overlapping requests. Every definition is written from the Go or TypeScript source;
`PROJECT.json` ("map") names the lines each one stands for.

To run: `tlc -config IngestFaults.cfg MCIngestPipeline` (module and cfg of each
run are in the table below) and `tlapm IngestPipelineProofs.tla`.

## 1. The system

An application posts audit events through an SDK (`sdks/node`, `sdks/browser`) to
the **Writer** (`cmd/api/writer`), which authenticates, validates and pushes them
on a Redis list. The **Worker** process (`cmd/api/worker`) takes them from the
list, inserts them in Postgres, and runs four more activities in goroutines of
its own: anomaly detection, healthcheck polling, data tiering, and sending
notifications. The **Reader** (`cmd/api/reader`) serves the dashboard: queries,
accounts, rules, monitors, notifications, reports, wallboards.

| component | state it keeps | operations | interacts with | hard behaviour |
|---|---|---|---|---|
| SDK client | pending promises, attempt number | send, retry with delays, flush | Writer (HTTP) | an attempt that succeeded late looks failed |
| Writer handler | none beyond the request | authenticate, bind, validate, enqueue, answer | Postgres (key, project), Redis | Redis timeout while the push is under way; death of the process |
| Queue | the Redis list | RPUSH, BLPOP, LLEN | Writer, Worker | late, repeated, lost commands; a pop is final |
| Worker goroutines | item in hand, attempt count | pop, decode, insert with retries, hand to detector | Redis, Postgres, detector | crash with an item in hand; an INSERT committed but not confirmed |
| Worker pool | worker count, stop channels, wait group, cooldown | Start, monitor, scale up, scale down, shutdown | the goroutines, signals | two scalers; a lock released between reading and scaling; Wait during Add |
| Data tiering | raw rows, hourly and daily summaries, next run | nightly run (4 statements), history query | Postgres, workers that keep inserting | no transaction over INSERT and DELETE; cutoffs inside a bucket; restarts |
| Healthcheck | monitor rows, cancel map, one goroutine per monitor | create, update, delete, reload, check, record, fire | Reader and Worker share the table; services | read-modify-write of whole rows; cancelled checks; two writes per transition |
| Anomaly detector | windows, cooldowns, last-seen times in memory | ProcessEvent, silent-service loop | worker goroutines, alert sink | shared memory under a mutex; restart forgets; cooldown before a failed insert |
| Project resolution, API keys | projects, keys | EnsureProject, RevokeAPIKey | Writer | get, create, re-read by concurrent requests |
| Accounts and sessions | users, invites | SetupOwner, AcceptInvite, login | Reader | check, then create, in separate statements |
| Notifications | channels, deliveries | NotifyAll with retries per channel | alert and health sinks | shutdown does not wait; a late answer is a failure |
| Wallboard | profile rows (code, refresh hash, expiry); tokens in the localStorage of a screen | generate, activate, refresh, revoke; mount, poll, disconnect | Reader and any number of screens | handlers that read a row before it is revoked or re-activated; late replies; a page that reloads in between; failures between statements |
| Dashboard views | project and environment contexts, filters in the URL, component state; the react-query cache | select, filter, page, navigate, refresh, export; polling | Reader | answers out of order; rows of the previous selection standing in; keys that leave out what the request sends; a wallboard that loses its tokens |
| Settings pages | the same cache, changes under way | create, edit and delete in eight lists; invalidation | Reader | changes overlapping with refetches, navigation and each other; staleTime |
| Studio | the report in the editor, results per widget, calls under way | open, edit, save, delete, run | Reader (reports, ad-hoc queries) | replies that arrive after the user has moved on; inactive runs of an effect |
| Audit queries | none | sessions, orphans, statistics | Reader | algorithmic, not concurrent |
| Login pages, SDK middlewares, configuration, health endpoints, migrations, tools, docs | - | - | - | not protocols; listed in `PROJECT.json` with the reason |

What makes each modelled component correct:

* *ingest*: an item that Redis received ends in exactly one known way, and is lost
  only through a lost BLPOP reply, a crash of the worker, a row that cannot be decoded
  or stored, or MaxRetries failures of the database; nothing is
  stored or analysed twice; every promise of the SDK settles; the queue drains;
  a 202 means that the event is received, and what is stored stays stored.
* *pool*: count, map and goroutines agree; limits hold; the wait group is exact;
  a signal ends the process and nothing runs after Start has returned.
* *tiering*: nothing is deleted before it is counted, nothing is counted twice,
  the retention is honoured.
* *healthcheck*: a goroutine that should run can always be stopped; no monitor
  has two of them; events are the transitions of the status, outside edited monitors and
  failed writes; the status follows the service; n concurrent requests pass the limit of
  monitors by n - 1 at most.
* *wallboard*: a revoked profile goes dark within one access-token lifetime; one
  screen at a time can renew a profile's session; after Disconnect no poll or silent
  refresh brings back a refresh token. An activation that was sent before Disconnect and
  is answered after it still does.
* *views*: the answer a panel has for the selection is one to that selection and never
  goes back in time; waiting ends, and with it the time in which the rows of the previous
  selection stand in; polled panels catch up. Exceptions: the timeline of a session may
  have been asked for up to an earlier end, and a wallboard whose refresh was answered
  with an error never catches up.
* *settings*: an acknowledged change shows in every list its invalidation reaches. It
  does not reach the list of a project that the hook has left, a first load or an older
  request off screen that is still under way, and the list of all monitors; these stay
  as they were until their next answer.
* *studio*: a result belongs to the query on screen; no report is saved with the
  document of another, except under the id of a draft that the user left while it was
  being created; Save becomes available again.

## 2. The modules

**`AuditTrail`** - the abstract specification of the ingest path: for each
submission, absent, pending, stored or lost, and the set of submissions that were
promised (answered with 202).

**`IngestPipeline`** - SDK, Writer, Redis list and worker goroutines
(`sdks/node/src/client.ts`, `internal/audit/handler.go`, `internal/queue`,
`internal/worker/service.go`). A submission is one attempt of the SDK for one
event. State: the promise and attempt number (`sdk`, `attempt`), the stage of each
request, the executions of each RPUSH, the list, the phase, item and retry count of
each worker, the rows, the calls of the detector, and two ghosts: `fate` counts how
items ended, `dbFailures` the INSERTs that failed on rows the table would have taken.
Redis may execute a push, or repeat it, at any time after it was sent, after the 202 too:
the client library resends a command whose reply it did not read. The content of an event is abstracted to what the code branches on:
its method, validity, client id, whether the table accepts it, whether it is an
alert. `Faults` chooses among the failures of network, Redis, database and
processes. `Trail` is the refinement mapping to `AuditTrail`.

**`WorkerPool`** - `internal/worker/service.go`, `autoscale.go`, `helpers.go`.
State: `active` (activeWorkers), `channels` (the map of stop channels), the
goroutines in `Slots`, `stopped` (a stop was sent and not yet received), `wg`, the
cooldown, the position of Start and of the monitor, what evaluateScaling has read
(`seen`) and decided (`target`). Reading, evaluating and scaling are three actions,
because the code releases the lock between them. A scale factor is a fraction.

**`Tiering`** - `internal/tiering`. Each SQL statement of a run is an action;
workers insert and time passes between them; statements fail and the process
stops and restarts. A summary row is the set of events its counters count, which
makes "counted twice" and "never counted" expressible. `GetHistory` is the
operator `HistoryCount`. Ghosts: `folded`, `split`, `clean`, `failed`.

**`HealthMonitor`** - `internal/healthcheck`: the handlers of the Reader, each
statement an action, and the poller of the worker: reload (query and
reconciliation), a goroutine per monitor with its check (read the row, request,
record, fire), shutdown, crash and restart. Ghosts: `lastEvent`, and `disturbed`,
the monitors whose row was edited or that lost one of their two writes.

**`WallboardTV`** - `internal/wallboard` and the screen (`routes/tv.tsx`,
`http/wallboard.ts`). State: the profile rows, per screen its localStorage, the
`authenticated` flag of its page and the asynchronous calls in progress: the silent
refresh of a page load, the activation form, one fetch per polling hook. Activate and
Refresh are a read and the writes after it, so that revocation and other handlers
come between; the second UPDATE of Activate may fail alone (`ActivateHalf`). Replies
are lost or late. Time is in ticks; a handler finishes in the tick of its read. An
access token is the code it was signed for and its expiry. A page is not reloaded
while a handler it has called is between its read and its writes; a screen sends one
activation at a time. Ghost: `entered`, whether a code was entered since the last
Disconnect, or an activation was on its way when the button was pressed ("form").

**`QueryCache`** - react-query as the dashboard uses it (external): one entry and one
request per key; a fetch is shared, a refetch cancels the one under way where there
is data and joins it where there is none. AuditViews and SettingsPages extend it.

**`AuditViews`** - the events, sessions, anomalies and insights pages and the panels of
the wallboard. State: the page, the selection (`sel`: contexts, URL, component state),
the cache, and whether the wallboard was signed out (`signedOut`). A panel is the queries it asks; a query is its key (what its hook puts in `queryKey`), its request (what the
function in `http/` sends) and when it is enabled. The trail is its version, an answer the
request and the version it was computed from, so that "belongs to the selection" and
"newer" are expressible. Every control that changes the selection is an action. The
session list may show another end of an expanded session at any time (`SessionListed`);
the key of the timeline leaves it out, the request sends it. A refresh of the wallboard
that is answered with an error (`SignOut`) takes the tokens for good: what is asked from
then on is `Denied`.

**`SettingsPages`** - the lists of projects, keys, members, users, invites, webhooks,
monitors and usage, and the fourteen changes made from them. A change is sent, applied
by the server (the version of its list, and of the list of all monitors if it is one of a
monitor), and acknowledged; `onSuccess` invalidates the
list of the project the hook was last rendered for (`Rebound`). `missed` records the
lists with the change that this does not reach (`Missed`): the invalidation went to
another project, joined the first load, or will be undone by an answer already on its way;
and the list of all monitors, which no hook invalidates. A list leaves `missed` when an
answer with the change arrives. The properties hold outside it, and hazards list the cases.

**`Studio`** - the report editor (`studio.tsx`, `http/studio.ts`) with the handlers of
`internal/reports`. `RunWidgets` is the effect with its `active` flag, modelled as the
number of the latest run. A document is its lineage and its widgets. `crossed` records
reports whose create was answered after the editor had moved on to another document:
the id is adopted for that document, and SavedUnderOwnReport does not hold for them. An
error answer to the list of reports is read as an empty list or leaves it as it was.

`MC...` modules instantiate them for TLC. `...Proofs` hold the theorems. Operators commented "Mutant" are variants
of the definition that follows them, with a plausible bug; each property is
violated when its mutant is used.

## 3. The runs

| run | shows | instance |
|---|---|---|
| IngestFaults | conservation of queue items, AnalysedOnce, LossHasCause, refinement of AuditTrail, SendSettles, QueueDrains | 1 event with a client id, 2 attempts, 1 worker, 2 attempts per INSERT, 2 executions per push, 1 crash, all failures |
| IngestKinds | the same conservation, LossHasCause | 2 workers; an event without method, one too wide, one alert; late, repeated, lost Redis commands |
| IngestMethodless | *violation*: accepted and never stored | 1 event without a method, no failures |
| PoolSafety | limits, PoolConsistent, WaitGroupExact, ReturnedMeansStopped, ShutdownCompletes, StoppedWorkerLeaves, ScalesToLoad | 1 to 2 workers, asked to start with 3, factor 3/2, 3 queue lengths, 3 goroutine slots |
| TieringRuns | RawDeletedAfterFolded, HistoryCountsOnce, RetentionHonoured | 4 events, one without a project, days of 2 hours of 2 ticks, 16 ticks, failures and restarts |
| TieringSplitDay | *violation*: hours of a split day deleted uncounted | 4 events on time, no failures |
| HealthPollers | PollersConsistent, EventsTrackStatus | 2 monitors, a limit of 1, 1 request, 1 edit, 2 goroutine slots, 2 processes, failing writes, crashes |
| HealthLiveness | StatusFollowsService, PausedIsNotPolled | 1 monitor, 1 edit, 2 processes |
| WallboardTV | RevokedGoesDark, OneRenewerPerCode, DisconnectEndsRenewal | 2 screens, 1 profile, 1 polling hook, 4 ticks, tokens of 2 ticks, 3 refresh tokens |
| AuditViews | ShownAnswersSelection, WaitsOnlyWhileFetching, NoTimeTravel, PanelsCatchUp | each query in turn (an alert's drawer with its details), 1 project and 1 environment besides "all", 2 user actions, 1 batch of new events, 1 failure |
| SettingsPages | AcknowledgedChangeShows, RefetchSeesChange | each list in turn, 2 projects, 3 moves, 2 changes, 1 failure |
| Studio | WidgetShowsItsQuery, SpinnerIsBackedByRun, SavedUnderOwnReport, SaveButtonReturns | 1 project besides "all", a saved report, room for a second one, 2 widgets, 2 queries, 4 user actions, 1 failure |

The inductive invariants of section 4 are left to the proofs, as are the type invariants of the
other modules; those of AuditViews, SettingsPages and Studio are checked by their runs.

**Bounds.** Retries, crashes, pushes, edits, processes, load changes and time are
capped by constants in the guards (`SdkRetries`, `MaxRetries`, `MaxCrashes`,
`PushLimit`, `MaxEdits`, `MaxProcesses`, `MaxLoadChanges`, `MaxTime`, `MaxClock`,
`MaxHash`, `MaxNav`, `MaxVer`, `MaxChanges`, `MaxSteps`, `MaxFail`). Two executions
per push and two workers are enough for an item to be pushed twice, held twice, and stored
by one worker while the other retries. A factor of 3/2 exercises rounding in both
directions; a third slot holds a stopped worker next to a full pool, and an initial count
above the maximum is clamped. Sixteen ticks are
four days, so that an event passes through both tiers with runs in between. Two
goroutine slots let a cancelled goroutine coexist with its successor. Two screens
are what a takeover of a code needs; four ticks with tokens of two let a token expire
while its reply travels and the profile be revoked around it. Queries under
different keys do not interact except through the alert's drawer, so a behaviour of
AuditViews or SettingsPages tracks one of them; two user actions leave a selection and
return to it with the first request still under way. A poll of data that is up to
date is left out of AuditViews: it brings the same answer. Four steps of Studio open,
edit, save and delete with all replies outstanding. Deadlock is not
checked: all these systems may come to rest (an empty queue, a finished process, an idle
page, the end of the modelled time). `Slots` of the pool and the monitors also bound how many
goroutines live at once: a step that would need one more is not taken.
An event that fails validation
(`Invalid`) takes the same action as one with a revoked key, which every ingest run
exercises.

**Fairness.** IngestPipeline: weak fairness of the SDK's timers, of the Writer's
handlers and of each worker's loop: all run on timers or timeouts of their own;
nothing is assumed of applications, of failures, or of pushes that were given up.
WorkerPool: weak fairness of Start, the monitor and the processing of an event (each
attempt ends, and there are finitely many), strong fairness of the exits, because
Go's select chooses at random among ready cases and so does not take the ticker
for ever. HealthMonitor: weak fairness of reload and of each check (tickers and
timeouts), strong fairness of a cancelled goroutine's exit for the same reason,
and a worker process that was told to stop is started again. HealthLiveness has no
failing writes: with them a status can stay wrong for as long as they fail.
AuditViews: the interval of a polled hook keeps firing while its page is shown, and
the Reader answers and answers arrive, or `wbFetch` throws for want of tokens; failures
are finitely many. Studio: the Reader
serves the calls and replies arrive or fail. Nothing is assumed of the user.

## 4. What is proved

TLAPS checks these for every value of the constants that satisfies the module's
ASSUME; there are no other assumptions.

* `IngestPipelineProofs`: **PipelineTypeOK**, **PipelineAnalysedOnce**,
  **PipelineEveryPushAccounted**, **PipelineLossHasCause** and
  **PipelineImplementsTrail**, the refinement of AuditTrail. AnalysedOnce
  is not inductive: the detector is called after the INSERT, in a later step. `AnalysisInv`
  adds that a worker between the two holds a row that was not analysed, that no other
  worker is there with the same submission, and that row ids are unique. The primary
  key gives the last part, InsertOk the others. Conservation rests on lemmas about the
  two cardinalities it adds up, the workers that hold an item and its places in the list:
  a push adds one, a pop moves one, a release takes one. For LossHasCause `LossInv` adds
what each end of an item stands for (`EndsExplained`) and that the failed attempts of a
worker at a row the table would take are failures of the database; a goroutine without an
item has none behind it (`IdleInv`), so that those of two items do not add up. For the refinement `TrailInv`
  says that what is on its way or stored was pushed, and that a submission the SDK has not
  made yet has no request; LoseStep, StoreStep, ReceiveStep and PromiseStep show to which
  abstract step a group of actions maps, TrailStep that every step is one of them or a
  stutter.
* `WorkerPoolProofs`: **PoolTypeOK**, **PoolWithinLimits**, **PoolIsConsistent**,
  **PoolWaitGroupExact**, **PoolReturnedMeansStopped**. The inductive invariant relates the wait group to the
  goroutines and the monitor, and says that the target the monitor carries from
  evaluation to scaling can be clamped, so a stale one is harmless.
* `TieringProofs`: **TieringTypeOK**, **TieringRawDeletedAfterFolded**,
  **TieringHistoryCountsOnce**, **TieringRetentionHonoured**. `FoldInv` adds
  that a summarised hour that no cutoff split is over for every event that may still
  arrive, and that between INSERT and DELETE all that the DELETE will match is
  counted: both statements use the same cutoff. It needs the lateness of events to be
  smaller than the raw retention, which the property states as its premise.
  `TierInv` says that, until something fails, an event is in two tiers only between
  the INSERT and the DELETE that move it on; `RetainInv` that no event is late enough to
  slip below the cutoff of a run once its DELETE is done.
* `HealthMonitorProofs`: **MonitorTypeOK**, **MonitorPollersConsistent**,
  **MonitorLimitOvershoot**, **MonitorEventsTrackStatus**. For the third, `LimitInv` counts with the rows what pending
  requests may still add: one row per Create that has counted, and the rows that a pending
  Update would insert again. For the map of cancel functions the strengthening is that all goroutines are cancelled once the context of the process is
  done, including one that a last reload starts. For the events, `TrackInv` says
  that an undisturbed monitor is polled by one goroutine at a time, cancelled ones included,
  and that its last event is the status that a check under way has read, or the one in
  the row between checks.
* `WallboardTVProofs`: **WallboardTypeOK**, **WallboardRevokedGoesDark**,
  **WallboardOneRenewer**, **WallboardDisconnectEndsRenewal**. For the first of the
  three properties `TokenInv` adds what a token on its way is worth, and that a handler
  between its read and its writes has seen a row that was revoked, if at all, in this
  very tick. For the second, `RenewInv` says that every refresh token a screen stores or
  carries was drawn, and that no two screens carry the same one, whether current or not:
  the current hash is then with one screen at most. The third rests on `FormKnown`: without
  a code entered since Disconnect, or an activation under way at Disconnect, the form has
  no call in progress, and only its answer stores a refresh token.
* `AuditViewsProofs`: **ViewsTypeOK**, **ViewsShownAnswersSelection**,
  **ViewsWaitsOnlyWhileFetching** and the action property **ViewsNoTimeTravel**. The heart of the first property is the
  lemma KeyDeterminesRequest: for each of the queries, two selections with the
  same key send the same request but for what `OutsideKey` names, which is the end of a
  session in its timeline: the one hook whose `queryKey` forgets a parameter. `ViewsInv` says of every request and every cached answer that it is what any
  selection with its key asks for (`Answers`), that a key has one request under way, and
  that an answer on its way is no older than the cached one.
* `SettingsPagesProofs`: **SettingsTypeOK**, **SettingsAcknowledgedChangeShows**,
  **SettingsRefetchSeesChange**. `CachedSeesChange` extends the property to lists off screen,
  where an outdated list is marked invalid and therefore fetched when it comes back.
  `OneFlight`, one request per list, is what lets a list leave `missed` with an answer: no
  older one can follow it. Versions are bounded because the changes in a list and those
  still to be applied are no more than were sent (`CountInv`). Both properties exempt
  `missed` (section 2).
* `StudioProofs`: **StudioTypeOK**, **StudioWidgetShowsItsQuery**,
  **StudioSpinnerIsBackedByRun**, **StudioSavedUnderOwnReport**. `RunInv` says that a run
  of the effect with the latest number asks for what is on screen; `LineageInv` that id and document belong together
  in the editor, in every save on its way and in every answer still to come, outside
  `crossed`.

The constants are arbitrary within the named assumptions: finite sets where something is counted
(`Workers`, `Monitors`, ...), natural numbers for the bounds, a maximum of pages that is not zero, and a
saved report whose widgets are widgets. The bounds on steps stay in the guards, and the theorems hold for
every value of them.

Every invariant that a passing run checks is proved, and so are the action property NoTimeTravel
and the refinement; LimitOvershoot is proved without a run. Only model-checked: liveness (SendSettles, QueueDrains, ShutdownCompletes,
StoppedWorkerLeaves, ScalesToLoad, StatusFollowsService, PausedIsNotPolled,
PanelsCatchUp, SaveButtonReturns), because fairness and ENABLED are outside what TLAPS 1.4.5
proves, and the two violations, which are counterexamples.

## 5. Where the code and its documentation differ

Shown by a run: an event without a method is accepted and dropped
(IngestMethodless); the hours after the cutoff of a split day are lost
(TieringSplitDay).

Seen while modelling, without a run of their own:

* `internal/audit/model.go:29` refuses PATCH, which `cmd/api/writer/README.md:60` lists.
* `internal/audit/model.go:65`: validation allows wider values than the columns hold; such
  an event is accepted and given up by the worker (a "wide" event of IngestKinds).
* `cmd/api/worker/README.md:50` calls the maximum of workers a ceiling that is never
  exceeded; a stopped worker that is busy works on beside its successors.
* `internal/tiering/job.go:26`: the raw cutoff of a run that starts a moment after its
  hour splits an hour (the exception in RawDeletedAfterFolded); an event later than the
  raw retention is deleted uncounted (its premise).
* A daily roll-up that is interrupted between its two statements is counted twice by
  GetHistory (the exception in HistoryCountsOnce).
* `internal/healthcheck`: an Update that was read before a check repeats or skips an
  event, or restores a deleted monitor.
* `docs-site/docs/concepts/healthcheck.md:143` says "Maximum **10 monitors per project**.";
  `handler.go:60` counts and then inserts, so two requests that count before either inserts
  pass it (the theorem MonitorLimitOvershoot says by how much).
* `docs-site/docs/concepts/wallboard.md:21` says that the screen "stays connected"; a refresh
  answered with any error, that of a failing database too, clears the tokens
  (`http/wallboard.ts:55`), and every later poll throws while the dashboard stays on with
  its last data (the exception in PanelsCatchUp).
* `docs-site/docs/getting-started/dashboard.md:71` says "The export respects all active
  filters."; `handleExport` (`index.tsx:158`) sends neither path, status class nor a
  relative time range, and does send dates in the URL that a relative range overrides.
* `docs-site/docs/concepts/data-tiering.md:24` says raw events are retained for
  `TIERING_RAW_DAYS`; events stored without a type, as the SDKs send them, are not
  selected by the job and are never tiered (RetentionHonoured is about events of type `http`).
* `docs-site/docs/concepts/healthcheck.md:10` says a transition is recorded when a service
  goes down; a check cancelled by a redeployment is recorded as down too.
* `routes/app/_layout/settings/wallboard.tsx:270` says a screen is locked in for 30 days; a refresh refused
  with any status, or a second activation of the code, ends its session earlier.
* `http/wallboard.ts:43`: an activation answered after Disconnect stores its tokens and
  opens the dashboard again (the exception in DisconnectEndsRenewal).
* The retention page asks to select a project in a header that hides the selector there.

## 6. What is not modelled

* The anomaly detector and the notification sender: windows and retries over
  wall-clock time in the memory of the worker; what can go wrong there is in the hazards.
* Users, invites and login beyond the lists of the settings; EnsureProject, whose race
  the code resolves by reading again; the session of the dashboard (a token in
  localStorage removed on a 401).
* The export of the events page, the ad-hoc query page, web push subscriptions, the management page of the wallboard,
  printing and drawing.
* SQL of the Reader's queries, averages and percentiles of a summary row, masking and
  formatting of events, the wording of logs.
* Tools, documentation, migrations, configuration and stateless endpoints (no protocol).

Seen in the code and covered by no property, beside the hazards that say so in
`PROJECT.json`:

* worker: `lastScaleTime` is read without its mutex (the model lets the cooldown be over or
  not at any tick); a monitor's interval is read once, when its goroutine starts;
  notifications are sent from goroutines that shutdown does not wait for, and a webhook
  that answered late is called again; windows and cooldowns of the detector are lost on
  a restart; SetupOwner counts the users and then creates the owner.
* dashboard: the page number survives a change of project, and a URL may carry any; the
  cache is not cleared on logout; a lookup of a session that failed reads as not found; a
  fetch paused while offline is left out; a change whose acknowledgement is lost
  leaves its list as it was; a key just created is shown under whatever project is open;
  a late result of the query page overwrites a newer one.
* wallboard: a refresh that is refused late clears the tokens of a newer activation while
  the page goes on as authenticated, until it is reloaded.
* reports: an update of a deleted report is answered as a success (`ServeUpdate`).
