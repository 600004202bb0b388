# vcenter-event-assistant in TLA+

vcenter-event-assistant collects events, metrics and logs from VMware vCenters, evaluates alert
rules over them, mails notifications, and serves the result to users who log in. It is one asyncio
process (FastAPI and APScheduler), a database (SQLite or PostgreSQL) and a worker process per
collector plugin. Almost everything that is hard in it has one shape: a task reads rows in a
transaction, awaits something (SMTP, a worker, an LDAP server, a password hash, another transaction)
and then writes by what it read. The modules below state what has to hold across those gaps. TLC
checks it on small instances; TLAPS proves the most important of it for instances of any size.

Paths are relative to `src/src/vcenter_event_assistant/` unless they start with `src/` or `docs/`.

## The system

| Component | State it keeps | Operations | What is hard | What makes it correct |
|---|---|---|---|---|
| Notification outbox: `services/alerting/notification_outbox.py`, `notification/*` | tables `alert_history`, `alert_notification_outbox` | registration in the evaluator's transaction; job: select, claim, snapshot, recheck, send, record; purge; deletion of a row or a rule | three transactions around an SMTP dialogue; crash or restart with other settings between them; deletion meanwhile; two instants that set the next attempt; ids that SQLite hands out again | tables agree; a reported success was one; nothing waiting vanishes; deletion cancels; retries are spaced; duplicates only where a success was lost; everything settles |
| Alert evaluation: `services/alerting/alert_eval*.py`, `api/routes/alerts.py` | `alert_rules`, `alert_states`, event scores | evaluate each rule in its own transaction; manual resolve; create, patch, import, delete rules; rescoring | late events; column-wise writes over changed rows; a rule that raises; stale and returning samples | the state shown is the one last told; nothing told twice or never |
| Collector runtime: `plugins/runtime.py`, `remote.py`, `reload.py`, `registry.py`, `worker.py`, `services/ingest_runner.py` | registry generations, per-vCenter locks, limiter, worker channels; `ingestion_state`, `collector_run_states`, rows | interval job, manual ingest, worker requests with timeouts and kills, hot reload | answers without ids; a run that holds an old generation; drain against queues; partial failure | own data only; nothing skipped; cursors grow; reload ends; collection recovers |
| Event collection: `collectors/events.py`, the cursors of the plugin API, `services/ingestion.py`, retention | cursor of a vCenter, rows of events | a window that overlaps the last, its pages, checks, one transaction; purge | the vCenter's clock; late and truncated windows; a batch the database refuses | what a cursor left behind was stored |
| Scores: `services/event_scores.py`, `api/routes/event_score_rules.py` | `event_score_rules`, `events.notable_score` | scoring at insertion; create, patch, delete, import with rescoring | two transactions about one type | a stored score is the one the present rule gives |
| Login and sessions: `auth/service.py`, `sessions.py`, `users.py`, `cli.py`, `api/routes/auth*.py` | `users`, `auth_sessions` | login with lockout, resolve and touch a session, logout, purge, password, role, activation, deletion, unlock | password checked long before the session is inserted; counters and expiry under concurrency; two writers, one of them another process | a session is worth the present password and role; failures count; an administrator remains |
| Directory login: `auth/directory/*`, `api/routes/auth_directories.py` | `auth_directories`, directory users, their sessions | LDAP bind and search, upsert of the user; change, verify, delete a directory | the configuration changes during the exchange; the last way in is taken away | a usable session is one the present configuration would grant; a way in remains |
| Plugin installation: `services/plugin_installs.py`, `plugins/installer.py` | ledger `installed_plugins`, directories | install in the background, uninstall, discovery by a reload | restart during an install; two installs; staging directories in the search path | ledger, jobs and directories agree |
| Plugin configuration: `api/routes/plugin_setup.py`, `services/plugin_configuration.py`, `ssh_management.py` | drafts, tests, active configuration, SSH rows | edit, test, apply, reload | awaits between reading a draft and writing its test result; apply replaces a generation | only what was tested collects, and stays as it was |
| Remote log collector: `src/packages/remote-log-collector/` | cursor with one state per file | bounded passes over rotating logs | rotation, compression, truncation, deletion between and during reads | every record stored once, or its loss told |
| Startup: `main.py`, `db/*`, `auth/bootstrap.py` | schema, backups, first user, secrets | migrate, create the administrator, encrypt | several processes, a crash anywhere | the schema fits its version; a torn one has its backup; no secret is lost |
| Chat and timeline: `services/chat`, `api/routes/chat.py` | slots, conversations | permission, aggregation, budget, names, rounds of searches | bounded slots under failure; cutting and renaming | slots come back; what is sent fits; names return as they left |
| Digests and research: `services/digest`, `services/research` | digests, research rows | daily job, request, research cycle, purge | restarts, missed runs, a stale selection | a day is written once; nothing fresh is searched |
| Requests: `rate_limit.py`, `auth/csrf.py`, `api/request_body_limit.py`, `api/deps.py`, `api/auth_deps.py` | hits of the limiter | CSRF, limits, body, dependencies | sliding window, bodies without a length | limits hold; a route runs only behind every check |
| Frontend: `src/frontend/src/auth`, `src/frontend/src/api.ts` | the principal a tab shows | login, logout, check, reconcile | late and overtaken answers, other tabs | changes are made as the principal shown |
| Read APIs | none, or one row per edit | queries | none | – |

Interactions: the evaluator registers notifications in the outbox inside its own transaction; the
scheduler starts evaluator, delivery, purge, digests, research and one job per collector; collectors
fill the tables the evaluator reads, scored as they are inserted; administrators' requests change
rules, users, directories and plugins under all of them; a reload replaces the registry under running
collections; chat, timeline and digests read what the others store.

## Modules

| Module | Models | Theorems in |
|---|---|---|
| `RetryBackoff` | `retry_delay`: bit length, capped shift, saturation | `AlertDelivery_proofs` |
| `NotificationPromise` | what the outbox promises of each notification, without tables, retries or crashes | |
| `AlertDelivery` | the outbox, in full; implements `NotificationPromise` | `AlertDelivery_proofs` |
| `AlertEvaluation` | the evaluator, manual resolve and rule administration | `AlertEvaluation_proofs` |
| `CollectionPromise` | what collection promises of each vCenter, without workers, locks or reloads | |
| `CollectorRuntime` | runs, worker channels, reload; implements `CollectionPromise` | `Collection_proofs` |
| `EventCollection` | the event collector, its cursor and the retention | `Collection_proofs` |
| `ScoreRules` | scores at insertion and rescoring | `Collection_proofs` |
| `AuthSessions` | local users, logins, sessions, requests, changes | `AuthSessions_proofs` |
| `BrowserTabs` | one tab's authentication gate against the other tabs | `Requests_proofs` |
| `RequestLimits` | limiter, CSRF, body limits, dependencies | `Requests_proofs` |
| `PluginPackages` | installing and removing packages | `Services_proofs` |
| `PluginSetup` | configuring one plugin | `Services_proofs` |
| `RemoteLogCursor` | the rotation-aware log cursor | `RemoteLogCursor_proofs` |
| `DirectoryLogin` | LDAP logins against administration | `Services_proofs` |
| `ServiceStartup` | migration, first administrator, encryption | `Services_proofs` |
| `ChatRequests` | slots, budget, names, searches | `ChatRequests_proofs` |
| `PeriodViews` | metrics, events and timeline of a period | `Services_proofs`, types only |
| `DigestsAndResearch` | digests, research cache, retention | `Services_proofs` |
| `MCAlertDelivery`, `MCAlertEvaluation` | the values, symmetry sets and assumptions of the runs | |
| `MCCollection`, `MCRequests`, `MCServices` | several state machines in one run each | `Collection_proofs`, `Services_proofs` |

`AlertDelivery` takes a registration (`Enqueue`) at any time and for any rule, which covers every
order in which the evaluator registers; `AlertEvaluation` records what it registers in `told` and
leaves the mailing to the other. The last three modules put machines that share no state into one
state space: `scope` names the machine a behaviour is of, and the others stay at an initial value, so
that the state count is the sum and not the product. Where the machines do share rows (sessions and
users, rules and scores), the module that owns them takes the others' writes as actions of its own.

### AlertDelivery

`alert_history` and `alert_notification_outbox` are functions from id to row or `Null`. `pc`, `batch`,
`item` and `outcome` are the job: where `_deliver_one` is, what is left of the batch, its locals, and
the outcome of the send. One action is one transaction or the SMTP dialogue: `EnqueueSkipped`,
`EnqueueUnrenderable`, `EnqueuePending` (the three ends of `enqueue_notification`), `SelectDue`,
`ClaimNothing`, `ClaimExpired`, `ClaimAttempt` (first transaction), `FirstAttemptSnapshot`, `Recheck`,
`NotSent`, `SmtpAccepts`, `SmtpFails`, `RecordResult` (last transaction), `EndBatch`. Around them are
`DeleteHistory`, `DeleteRule`, `PurgeHistory`, `Cancel` (shutdown lets the current item finish),
`DatabaseError`, and `Crash`, after which the process runs with any of `Configs`. `ReuseIds` is TRUE
for SQLite's rowid (largest plus one) and FALSE for a sequence. `origin`, `accepted`, `lost`,
`snapshots` and `deleted` are history of the model: the code has no such state. Templates, headers
and TLS are represented by their outcomes.

### AlertEvaluation

`ReadRules` takes the list of enabled rules; the evaluation of each then reads (`ReadRule`) and commits
(`CommitRule`) in two steps, and so does a
manual resolve (`ResolveRead`, `ResolveCommit`), since the ORM writes the changed columns only and no
statement repeats the condition. Of all events of a type, the module keeps the latest of each score,
which is all `merge_latest_qualifying_by_event_type` can see; of samples the latest per host. Rules
are created, patched, imported (any field may change, also the type) and deleted; a change of
`score_delta` rescores stored events. `BadRules` raise in every evaluation, as a rule does whose
imported configuration has a value of the wrong type; their transaction is rolled back and the cycle
goes on. `told` is the sequence of notifications of each rule and context. `ToldInOrder` is
`StateIsLastTold` (the alert shows what was told last), `MetricAlternates` (no state twice, stale only
from firing), `CooldownRespected` and `SameEventToldOnce`.

### CollectorRuntime

One plugin, because plugins share only the limiter. A `run` is `_run_collector` for one vCenter:
lock, limiter, `_mark_started`, cursor, request, `_persist_batch`, or `_mark_failed`. A `worker` is a
generation's `CollectorWorker` together with the process behind it: who holds its lock, what is in
its input, what in its output. `request()` does not match responses to requests, so the model does
not either. `Reloader` is `reload_collector_registry`: start the candidate, activate, drain the locks
that are held, stop the previous generation. The plugin is external: it answers with the items after
the cursor it was given, or hangs, exits, or reports an error. `RunStateIsTrue` is `NothingSkipped`
(no item below a cursor is missing) and `StatusTracksRun` (the status is "running" exactly while a run
collects). `CollectsAsPromised` says that all of it together is a `CollectionPromise`: per vCenter, one
collection at a time that begins, and then commits or fails.

### EventCollection and ScoreRules

`EventCollection` follows one vCenter: events are emitted by its clock and readable later
(`EventEmitted`), a pull connects and fixes its window (`BeginPull`, `OpenWindow`), reads pages
(`ReadPage`), checks and stores the batch with the new cursor in one transaction (`CheckBatch`,
`StoreBatch`) or fails (`ConnectionFails`, `PullFails`), and `PurgeEvents` deletes old rows.
`NoEventMissed` promises from `promised` on, the time of the first cursor that is the vCenter's own.

`ScoreRules` has a batch that reads the rules (`ReadDeltas`) and inserts scored events (`InsertScored`,
`BatchFails`), and editors whose `CreateRule`, `PatchRule`, `DeleteRule` and `ImportRules` read,
flush (`FlushEdit`), load the map of deltas, for an import (`LoadDeltas`), read the stored events and
rescore them (`ReadStored`), and commit (`CommitEdit`, `EditFails`). Each statement sees what is
committed by then, and the commit writes only the rows whose score it read as another.
`ScoresFollowRules` excepts types in `disturbed`: those whose rule was changed while another transaction
about it was open, and those with events scored by another delta while an edit had read and not committed.

### AuthSessions

A password is its generation, so that "knows the old password" is a number. Logins, requests and
changes are processes whose steps are the code between awaits; a statement that states its condition
again in the database (`_record_failure`, `_touch`, `_delete_if_still_expired`) is one action.
`OneGuard` says whether `admin_change_guard` excludes all changers, `OneWriter` whether a transaction
that has written excludes other writers:

| Deployment | OneGuard | OneWriter |
|---|---|---|
| PostgreSQL | TRUE | FALSE |
| SQLite, one process | TRUE | TRUE |
| SQLite, server and command line | FALSE | TRUE |

### RequestLimits and BrowserTabs

`RequestLimits`: `Arrive` is the middleware up to the body (CSRF, limiter, declared length), `Receive`
a chunk of the body, `Depend` the dependencies in their order, `Finish` the end, `TickOn` the clock. The
limiter never looks at the order of its list of times, so the list is a set of numbered hits.
`RequestsBounded` is `WindowKept` (the sliding window), `NeverEarly` (a refusal is never due to refused
requests) and `OnlyChecked` (body and route behind every check).

`BrowserTabs`: `Serve*` are what the server does with a request, `Receive*` what the tab does with an
answer, `Start*` what it sends, `Load`, `Lost` and `SessionEnds` the surroundings. Answers arrive in
any order or not at all. `TabsTrue` is `ChangedAsShown`, `OnlyShownData`, `DifferencePursued` and
`FlagsTrue`.

### PluginPackages and PluginSetup

`PluginPackages`: an install checks the ledger (`CheckInstall`), is queued (`QueueInstall`), unpacks
into a staging directory (`Unpacked`), clears and replaces the final directory (`ClearFinal`, `Place`)
and records its outcome (`Record*`); `InstallFails` is the failure of any of these steps, the removal of the
old directory and the rename among them, and `RequestFails` that of the request before them. An uninstall
removes files and row in two steps (`RemoveFiles`, `RemoveRow`), either of which may fail
(`RemoveFilesStops`, `RemoveFails`); `RestartApplication` ends all of it and cleans up as the startup
does. `Discovered` is what a reload finds. `PackagesAccounted` is `InstalledIsWhole`,
`InstallingHasJob` and `FoundIsRecorded`; `cut` names the distributions of which a restart, or an error of
the database or the file system, has cut a change in the middle (a staging directory found at a startup,
for instance, is then known to no job), and `Apart` says that no two changes of one distribution overlap.

`PluginSetup`: each request that reads, waits and writes has a step for each (`EditStep`,
`ApplyStep`), `Restart` and `PackageReplaced` come between. The gate is released before the
transaction commits, as in the code. `ConfigurationInUse` is `EnabledWasTested`, `AppliedIsSaved` and
`ConnectionInUseKept`; `EditsAlone` says that the edit of a connection overlaps no other request.

### RemoteLogCursor

The host writes, rotates, deletes, truncates and compresses at any moment (`WriteRecord`, `Rotate`,
`DeleteOldest`, `Truncate`, `StartCompress`, `FinishCompress`: between the last two a finished .gz lies
beside its plain file). Each command of a pass is a step: the patterns are expanded (`BeginPass`), each
name is looked up (`StatNext`, newest first), each file that is not known by its metadata is measured and
its prefix read (`EnterUnread`, `MeasureArchive`, `ReadPrefix`), each is matched with a state, whose
checkpoint is read again (`MatchNext`), and each is read on and checked (`SkipFile`, `ReadFile`, `CheckFile`,
`PathMissing`). The pass commits or loses its batch (`CommitPass`, `BatchLost`). A batch carries any number
of the records read (`Carried`): how many bytes they have on the wire is left open. The checkpoints tried for
one file are one step, and so are the last reads of a file before its `stat`, which comes last and decides.

`EveryRecordAccounted` is `NothingPassedOver`, always, and `NoRecordTwice` and `LossIsTold` until a pass is
committed during whose listing or matching files moved (`blurred`): such a pass may store records again or
miss a loss, see Exceptions. Files that move while a pass reads, after its listing, break none of the
three. `Headed` says that a new or emptied file starts with a record at
once; without it two empty files cannot be told apart, and `LossIsTold` fails.

### DirectoryLogin and ServiceStartup

`DirectoryLogin`: `LoginStep` is a login with its exchange and its final transaction, `ChangeStep` a
change with its verification, `UseSession`, `CreateDirectory`, `DeleteDirectory`, `SetActive`,
`ChangeLocalAdmins`, `ChangeMembers` and `RestartWith` (stricter settings) the rest.
`ServiceStartup`: `Start`, `MigrationStep`, `AfterMigration` (first administrator, encryption,
serving), `Crash` at any of them, and `SaveSecret`, `CreateUser` and `Restore` by others. `AccountsHold`
is `AccountsAsConfigured` and `AdminSourceRemains` of the one and `ServingHasAdmin` of the other;
`StartupSafe` is `SchemaInStep`, `TornHasBackup` and `EnteredIsStored`.

### ChatRequests, PeriodViews and DigestsAndResearch

`ChatRequests`: a request is received, checked and given a slot (`ReceiveChat`, `BodyRead`, `ChatRefused`,
`TakeSlot`, `Busy`); its aggregation ends as a timeline, as what the model is asked or as a preview of
that (`TimelineBuilt`, `ChatPrepared`, `PreviewPrepared`, `AggregationFails`); then come the rounds of the model
(`ModelAnswers`, `ModelSearches`, `Search`, `NextRound`, `ChatEnds`), and `RoleChanges` between any two.
`ChatPromises` is `SlotsAccounted`, `SentWithinBudget`, `NamesComeBack` and `CallsAnswered`.

`PeriodViews`: a view reads series and buckets in two statements (`AskView`, `ReadSeries`,
`ReadBuckets`, `ViewServed`) while rows are stored (`StoreSample`, `StoreEvent`). The aggregation is
the pure part: `PeriodShownTrue` compares it with what was read (`SeriesComplete`, `EventsCounted`,
`TriggersTrue`, `AlertsVisible`).

`DigestsAndResearch`: `NextDay`, `DailyDigest`, `DigestMissed`, `PurgeOld`, `StopAndStart`,
`EventStored`, `DigestAskedFor`, `Summarised`, `ResearchAttached`, `DigestStored`, `SelectTargets`,
`Searched`, `Condensed`, `ResearchKept`. `DigestPromises` is `DaysDigestedOnce`,
`NoneSearchedWhileFresh` and `AttachedWasFound`.

## Runs

| Run | Instance | Shows |
|---|---|---|
| `delivery_races` | `MCAlertDelivery`: 2 notifications, 1 rule, all three configurations, time 0..3, one fault | `TypeOK`, `OutboxMatchesHistory`, `SucceededWasMailed`, `WaitingNeverLost`, `NoSendAfterDeletion`, `DeliversAsPromised` |
| `delivery_retries` | `MCAlertDelivery`: 1 notification, delays 1, 2, 3, 3, …, deadline 9, time 0..10, two faults | `SideEffectsExplained`, `RetrySpacing`, `EveryIntentSettles` |
| `delivery_rowid_result` | ids reused, no faults | violation of `SucceededWasMailed`, see Findings |
| `evaluation_states` | `MCAlertEvaluation`: 1 rule of either type, 1 event type, 1 host, levels 1 and 2, time 0..3, one edit, no operator | `TypeOK`, `ToldInOrder` |
| `evaluation_progress` | 2 rules, one raising; 1 operator, 2 edits, one fault, time 0..1 | `RecoveryFollowsFiring`, `QualifyingEventTold`, `MetricSettles` |
| `evaluation_swallowed_event` | 1 rule, time 0..5 | violation of `NewEventRenotified` |
| `collector_data` | `MCCollection`. Runs: 2 vCenters, interval job and manual ingest, 2 generations, one hang. Events: a clock one behind or ahead, delays 0 and 1, overlap 1, pages of 1, at most 2, time 0..5, 3 events. Scores: 2 types, 2 editors, 1 event, 2 open transactions, deltas −90 and 70 | `CollectionTypeOK`, `OnlyOwnData`, `RunStateIsTrue`, `NoEventMissed`, `ScoresFollowRules` |
| `collector_progress` | `CollectorRuntime`: 1 vCenter, both jobs, 2 generations, one fault of any kind | `ReloadEnds`, `EveryItemStored`, `CollectsAsPromised` |
| `auth_changes` | `MCRequests`. Sessions: 2 users, 2 logins, 2 changers, at most 2 under way, 2 passwords. Limits: 1 request, limits 1 and 2, window 2, 3 ticks, 3 hits | `TypeOK`, `OnlyPresentPassword`, `NoneRevived`, `FailuresLock`, `AdminRemains`, `LockedNeverEnters`, `RequestsBounded` |
| `auth_requests` | `MCRequests`. Sessions: 1 user, 1 login, 2 requests, 1 changer, 3 under way, time 1..4. Tabs: 2 requests in flight, 3 sessions | `UseNeverCutOff`, `TabsTrue` |
| `services` | `MCServices`, eight machines (below) | `ServicesTypeOK`, `PackagesAccounted`, `ConfigurationInUse`, `EveryRecordAccounted`, `AccountsHold`, `StartupSafe`, `ChatPromises`, `PeriodShownTrue`, `DigestPromises` |
| `period_alert_rows` | `MCServices`, views only, one more row | violation of `AlertRowsAsChosen` |

The instance of `services`: packages, 2 distributions, 2 jobs, 1 version, 1 restart; setup, 1 connection,
2 hosts, 2 requests, 2 drafts, revisions to 6, 2 package versions; remote logs, 4 records, 3 inodes, 3
files, 2 records a pass, all four kinds of interference, no pass after the first under whose listing files
moved (`MaxBlurred`; the theorem holds for any number); directory, 1 directory and account, 2 logins,
1 editor, 6 configurations, 2 saves; startup, 2 processes, 5 databases, 5 settings, 3 starts; chat, 2
users, 2 requests, 4 bodies; period, 2 late rows, 3 views; digests, 2 types, 2 days. The two runs of
`MCServices` do not check deadlock, because each of these machines really stops when its bounds
(restarts, saves, records, days, rows) are used up; the other runs do check it.

Why the bounds suffice. Every race is between at most two actors over one row, plus one fault; the
instances have two actors (two notifications in a batch, two jobs, two changers, two processes) and,
where rows can be mixed up, one more row than the race needs. The outbox's clock passes the claim, a
retry and the deadline; `delivery_retries` passes the doublings and saturation. The evaluator's clock
passes the interval and the window. A collector's items need only be one or none per vCenter, since a
cursor compares them and nothing counts them. Two generations are one reload; a third repeats it. The
events' clock passes overlap, retention and three windows; a page of one event makes two pages a
truncated window. The deltas take scores below 0 and above 100. A pass over logs reads half of what can
be written, so that a file is read in several passes. The bodies of the chat were chosen so that each
part of a request is the one that is cut. The rows of the views put a breach, a gap, a bucket border and
two vCenters with the same host into twelve minutes. `MaxBusy`, `MaxOpen` and similar bounds admit any two of
the processes at a time. Symmetry is used only in runs without liveness. The versions that
`FoundIsRecorded` compares were compared in a separate run with two versions, which is too large to be
kept beside the other machines. In further runs of the log cursor alone, without the premise of `blurred`, `NoRecordTwice`
fails with rotation and `LossIsTold` with rotation and deletion, as Exceptions describes.

`MCAlertDelivery` has the assumption `SaturationNeverShows`, evaluated by TLC in each run of that
module: `retry_delay` equals plain doubling with a cap for all settings up to 17 and nine attempts.
`BackoffExact` proves it of all settings and attempts.

Each property has a mutant in the module it is about (definitions ending in `_Mutant` or in the name of
the defect, commented as such), a plausible defect of the code under which the property fails.

### Fairness

* `AlertDelivery`: weak fairness of the delivery job as a whole and of the clock. APScheduler starts
  the job every interval, the job is a loop without a wait that could be for ever (SMTP has a
  timeout), and it has no competitor. No fairness of registration, deletion, faults or restarts.
* `AlertEvaluation`: weak fairness of the evaluation job, for the same reason.
* `CollectorRuntime`: weak fairness of the interval jobs and of a worker that does not hang; strong
  fairness of each run and of the reload, whose steps are at times disabled by a lock, the limiter or
  the worker channel. asyncio's locks and semaphores wake waiters in the order they came, so a waiter
  is not passed over for ever. Every wait has an end, because a timeout kills the worker.
* The other modules state no liveness and assume no fairness: each of their requests ends by itself,
  and what repeats is started by the schedulers above.

## What is proved

The theorems speak of any number of notifications, rules, hosts, users, processes, sessions and so on, and of
any settings that satisfy the named assumptions on the constants (what the code validates at its
start). The bounds of the runs (`MaxTime`, `MaxFaults`, `MaxId`, `MaxGen` and the like) are parameters of the
theorems, so nothing depends on their being small. Each of the invariants below was checked by TLC on
the run of its module before it was proved.

`AlertDelivery_proofs`, with retry settings that satisfy
`RetryAssumption` (`validate_alert_retry_intervals`):

* `BackoffBounded`, `BackoffExact`: every delay is positive and at most the maximum, and it is the initial
  one doubled for each attempt, or the maximum: the cap on the exponent never shows.
* `TypeOKHolds`: `Spec => []TypeOK`. The inductive invariant adds `JobShape`: which of `item` and
  `outcome` are set at each `pc`, and that the current item names an id and has at least one attempt.
* `TablesAgree`: `OutboxMatchesHistory`, with ids reused or not. `Consistent` is inductive with the type
  invariant. The crux is `FreshIsUnused`: an id given to a new row has neither a history row nor, by
  consistency, an outbox row left over.
* `NothingWaitingIsLost`: `WaitingNeverLost`, in both id modes, from `Consistent`.
* `RetriesAreSpaced`: `RetrySpacing`, in both id modes. `SpacingInv` says of every queued row that it is not
  due before the delay of its last attempt has passed since that attempt began, or its deadline; and
  of the attempt in delivery that it is the one its row counts. Two instants set the next attempt
  (the claim, and the result); the later is never earlier than the former.
* `ReportsAreTrue`: `~ReuseIds => (Spec => []SucceededWasMailed)`. The invariant is strengthened by
  `OwnsRow` (while the job works on an item, the row under its id is gone or still the item's own)
  and `OutcomeEarned` (an outcome "sent" means that the server accepted). `OwnsRow` is where
  `~ReuseIds` is needed, and `delivery_rowid_result` shows that it is needed.
* `NothingDeletedIsSent`, `EffectsExplained`, both for `~ReuseIds`: `NoSendAfterDeletion` and
  `SideEffectsExplained`, by `DeliveryInv`. It adds to the above that an intent has at most one row and
  that no deleted one has any (`RowsKnown`, `ItemKnown`), that a channel still says how the intent was
  registered (`MockKept`), that mails are matched by lost results as long as the intent may still be
  mailed (`MailsCounted`), and that a snapshot is of the first attempt (`SnapshotsCounted`).
* `ImplementsPromise`: `~ReuseIds => (Spec => DeliversAsPromised)`, the refinement. Under the mapping of
  `AlertDelivery` each registration is `Register`, an expiry or a recorded result is `Settle` or a stutter
  (the row is gone), the recheck is `Begin`, the end of the dialogue or a crash in it is `End`, deletions
  and the purge are `Remove`, and everything else stutters.

`AlertEvaluation_proofs`, for any rules, event types, hosts, levels, windows and failures:

* `EvaluationTypes`: `Spec => []TypeOK`. Inductive is `BaseInv`: what an evaluation or a resolve has read is
  there (`ReadsTrue`, `ResolvesTrue`), an alert exists exactly where something was told (`RowsTold`), no
  event is of the future (`RecordsPast`).
* `RecoveriesFollow`: `AtMostOneOperator => (Spec => []RecoveryFollowsFiring)`. `RecoveryInv` adds that what
  shows as firing, and what an operator has read, was not told as resolved last.
* `NotificationsInOrder`: `Operators = {} => (Spec => []ToldInOrder)`. `OrderInv` adds that only a deletion
  comes between the read and the commit of an evaluation (`StatesRead`), that the interval is counted
  from the last firing told (`FiringNotified`), and, while nothing was edited, that the latest event of
  a type only grows newer (`Unedited`). Both premises are needed, see Exceptions.

`Collection_proofs`, for any vCenters, jobs, generations, items, limits and faults. `CollectorInv`
is inductive: runs and reloads have registrations (`JobsTrue`), a lock is held by the run of its
vCenter that is past taking it (`LocksTrue`), what is in the pipes of a worker is about the run that
is asking it (`ChannelsTrue`: responses are not matched to requests, so this is what keeps data apart),
and a run that asks has read the present cursor (`CursorsTrue`). From it `CollectorTypes`, `OwnDataOnly`
(`OnlyOwnData`), `RunStateTrue` (`RunStateIsTrue`), `CursorsNeverRegress` (`CursorNeverRegresses`, proved
only) and the refinement `CollectionImplemented`: `Spec => CollectsAsPromised`. Under its mapping the vCenters
that are collected from are those of the runs that hold the limiter. Marking the start is `Begin` (the lock
says that nobody else collects from the vCenter, the limiter that there are fewer than the limit), a
commit is `Store`, the end of a failure is `Fail`, a restart is `Restart`, and all that workers, channels and reloads
do stutters. `Store` adds just what follows the cursor, so this is where `CursorsTrue` is needed.

It also has `NothingIsMissed`, `EventsSpec => []NoEventMissed`, for every skew of the clocks, delay,
overlap, page size and limit of pages. `EventsInv` has the crux in `NoHole`: what of the window was not
read is newer than all that was, or so late that the next window has it; with it are `Past`,
`KeysDiffer`, `WindowTrue`, `NothingRead` and `NextTrue`.
`MachinesSideBySide` says that a behaviour of the composed run is one of each of its three machines, so that what
is proved of them holds of it; `CollectionTypes`, `MCSpec => []CollectionTypeOK`, follows from it and the
three invariants (the shape of the events needs that only stored ones are removed).

`AuthSessions_proofs`, for any settings that satisfy `AuthAssumption`. `TypeInv` is inductive: the types
(`TypeOKHolds`), what a process under way has read (`LoginShape`, `RequestShape`, `ChangeShape`), and
`SessionShape`: ids are handed out in order, and the marker of a session is that of the password it was
opened or re-tagged with. On it rest:

* `PresentPasswordOnly`: `OnlyPresentPassword`, at once from `SessionShape`; the work is that every way
  to write a session keeps marker and password together.
* `FailuresAlwaysLock`: `FailuresLock`, by `Counts` (the stored count is the number of failures since
  the last success, lock or reset), which holds because the increment is the database's.
* `LockedStayOut`, `SeenOnlyForward`: `LockedNeverEnters` and `SeenNeverBack`, from what a step may do to the
  table (`Opens`: a login opens one session, under a new id, of a user not locked; `Ages`: anything else
  only removes sessions or moves their last use forward). `SeenNeverBack` is proved only.
* `UsableStays`: `UseNeverCutOff`. A deletion repeats the request's condition at a time that is not in the
  future, and a session expired then is expired now.
* `AnAdminRemains`: `OneGuard => (Spec => []AdminRemains)`. The invariant adds `Guarded`: one change at a
  time is between count and write, and there is a second administrator if it takes one away.
* `RevokedStaysOut`: `OneWriter => (Spec => []NoneRevived)`. The invariant adds that no change is between
  the deletion of sessions and its write (`Clean`).

`Requests_proofs`, for any number of slots, sessions and requests, and any limits:

* `TabsAlwaysTrue`: `TabsSpec => []TabsTrue`. `TabsInv` adds that an answer says what the server found
  (`AnswersTrue`), that a session just opened is known to no other request (`LoginsNew`), that one load
  counts (`LoadsTrue`) and one check of each sort is under way (`OneEach`), that a check which still counts in a tab
  that shows the browser's session is about that session (`FreshTrue`), and that a check about another one is
  not alone: what was seen during a reconciliation is pending (`ReconcilePursued`), and beside a
  confirmation there is a reconciliation (`ConfirmPursued`).
* `RequestsAlwaysBounded`: `LimitsSpec => []RequestsBounded`. `LimitsInv` says of each list of the limiter that it
  holds every hit that still counts and that no window of all hits ever let through exceeds the limit
  (`ListsTrue`), and of each request what it has passed (`PendingTrue`).

`ChatRequests_proofs`, for any chats, limits, bodies and names:

* `ChatKeepsPromises`: `ChatSpec => [](ChatTypeOK /\ ChatPromises)`. `ChatInv` says of the limiter that its
  counters are the numbers of requests that hold a slot (`SlotsTrue`, with cardinalities), and of each
  request that the calls left open are those still to be done and that what was prepared for the model
  keeps its promises (`ChatTrue`). For the latter, `FittedFacts` follows the branches of `FitPayload` (what was
  cut says so, and what is not cut fits), and `NamesFacts` the tokens of the anonymisation. The count
  of tokens, which is a fold, is never expanded: all that is used of it is `FitsBudget`, so the
  proof holds whatever counts as fitting.

`Collection_proofs` also has `ScoresAlwaysFollow`: `ScoresSpec => []ScoresFollowRules`, for any event types,
editors, rules and scores. By `ScoresInv` a batch and an edit know each rule as it is, or are marked as overtaken
for it (`BatchTrue`, `ReadTrue`), and a transaction rescores every type it writes with the rule it writes
(`LoadedTrue`); of the events stored by now, those it will not write have the score it would give
(`ScannedTrue`). The inserted and the rescored are then of one rule, outside what overtook another.

`Services_proofs`, for any distributions, versions, connections, requests, days, event types,
directories, processes, settings and faults:

* `PackagesAlwaysAccounted`: `Apart => (PackagesSpec => []PackagesAccounted)`. `PackagesInv` adds that a
  change has its distribution to itself (`OneAtATime`), what lies at the final place between the two steps of a
  replacement (`PlaceTaken`) or of a removal (`FilesGone`), whose the staging directories are
  (`StagedKnown`), and that row and directories differ only within a change or where a restart or an
  error has cut one (`RowsTrue`).
  Without `Apart` it is false, see Exceptions.
* `DigestsAlwaysPromised`: `DigestsSpec => []DigestPromises`. `DigestsInv` adds that what the trigger is
  due for, what its job writes and what was written are days in strict order (`ScheduleTrue`), that the
  targets of a cycle are different types without a fresh result (`CycleTrue`: keeping one does not make
  another fresh), and that what a digest attaches was found (`AttachedTrue`).
* `StartupAlwaysSafe` (`StartupSafe`) and `ServingAlwaysHasAdmin` (`ServingHasAdmin`, a part of
  `AccountsHold`): `StartupInv` says what a process may rely on at each place (`ProcessTrue`: only the holder of
  the lock migrates, what it is about to change was saved, past the migration the database is at head,
  behind the administrator's check there is one), that no process is past the migration while
  another changes the schema (`OneChanges`), and that a version tells the schema (`VersionTrue`), of the database and of
  every backup. `StartupAssumption` says the same of the databases a first start may find.
* `AccountsAlwaysHold`: `DirectorySpec /\ StartupSpec => []AccountsHold`, of the two machines side by side, which
  share no variable. In `DirectoryInv` a version names one configuration, so that the login that finds
  its version again under the lock has the present one (`LoginTrue`); a session is on its directory's
  terms (`SessionTrue`), the users of a directory are named by its attribute (`UsersNamed`), and an
  administrator is left (`AdminLeft`). `DirectoryAssumption` says only what shape a configuration has and
  that `Nobody` is none.
* `ConfigurationInUseIsTested`: `EditsAlone => (SetupSpec => ConfigurationInUse)`, two invariants and an action
  property. `SetupInv` says what each request that waits may rely on: whoever holds the gate starts and loads
  what was tested (`HolderTrue`), a draft about to be written carries only results of what is
  there (`DraftTrue`), a switch leaves the values alone (`SwitchTrue`), an edit changes only what is not
  in use, or nothing a worker sees (`ChangeTrue`), and at a free gate registry, job and saved setting agree (`JobAgrees`).
  Without `EditsAlone` it is false, see Exceptions.
* `ServicesSideBySide`: a behaviour of the composed run is one of each of its eight machines, which share no
  variable; what is proved of them holds of it.
* `ServicesTypes`: `Apart, EditsAlone, Headed` imply `MCSpec => []ServicesTypeOK`. Four parts follow from the invariants
  above, which is where the three premises come from. The others are strengthened for it: startup by the shape of what
  a start may find, directories by rows being configurations that were saved (`EntriesChosen`) and at most one login of a
  directory being past its check (`OneChecked`), digests by the days that are planned and written (`DaysTrue`). Of `PeriodViews` it is the shape of requests and rows only.

`RemoteLogCursor_proofs`, under `RemoteLogAssumption` (which only says what the constants are) and `Headed`:

* `RecordsAccounted`: `RemoteLogSpec => []EveryRecordAccounted`. A file is known by its first record, in three
  views that may differ: what the host holds, what the pass listed, and what a state of the cursor says.
  `RemoteLogInv` relates them in two parts. `HostTrue` (no file is empty, no two overlap or share an inode) and
  `Sound` hold whatever the host does: of each state, that its generation counts from its prefix and that the
  records before its offset are stored (`SoundState`); of the pass, that the active file is listed once and
  last, that a state is taken by one file at most, and that what was read is of one file, no older
  than the prefix that was listed (`SoundData`: a path only ever comes to hold newer records).
  `Agreed` holds while `blurred = 0`. `CursorTrue`: what a state says of its file is still so (`Seen`), and no two
  states share a file. `LossTrue`: what is gone and was not read had a state, so that the next pass sees
  it vanish. `Trusted`: the pass is of no consequence, or no file has moved and its listing has come so far
  (`Unmoved`), or it has listed, matched and made what is true of the host (`Read`: `ListingTrue`, `MatchTrue`,
  `MadeTrue`). The step from the one to the other is `MatchedTrue`: each listed file has the one state that fits it.
  TLC checked `RemoteLogInv` at the bounds of the run before the proof.
* Without `Headed` a file may be empty and has no first record to be known by; TLC then finds a loss that is
  not told of, see Exceptions.

Model-checked only: liveness and what rests on ENABLED, which are out of the prover's reach, as is
induction over recursive definitions (the sums and orders of `PeriodViews` are folds over the rows, so
`PeriodShownTrue` stays with TLC). The liveness properties are `EveryIntentSettles`, `QualifyingEventTold`, `MetricSettles`, `ReloadEnds`
and `EveryItemStored`.
## Findings

1. `delivery_rowid_result`: on SQLite the result of a deleted notification's send is recorded on the
   next notification when that got the same id; it is then reported as mailed and never sent
   (`notification_outbox.py:302`, `db/models.py:319`).
2. `evaluation_swallowed_event`: an event evaluated inside the renotification interval moves
   `fired_at` and is never told afterwards (`alert_eval_event_score.py:122`), although the window
   still holds it and the guide promises the renotification.
3. `period_alert_rows`: the number of top alerts chosen on the timeline screen is passed under a name the
   function does not have, so every bucket shows three (`services/chat/chat_context_payloads.py:162`,
   against `docs/userguide/score-rules.md:118`).

### Exceptions

What the properties of the passing runs except, or what fails under other constants than theirs.

Outbox and evaluator:

* With `ReuseIds = TRUE`, `NoSendAfterDeletion` fails: the recheck before SMTP finds the row of a later
  notification under the id and sends the deleted one.
* With an operator, `ToldInOrder` fails: a resolve that commits between the evaluation's read and write
  is partly overwritten and the event is told again at once. With two operators
  `RecoveryFollowsFiring` fails: both may tell the recovery.
* `SameEventToldOnce` is stated for unedited rules: a raised threshold can move `fired_at` back, after
  which the later event counts as new.

Collection:

* A worker that was killed is spawned again by the next request and collects without `start()`
  (`plugins/remote.py:117`, against `plugin-api`'s `collector.py:161`). A run that captured its
  registration before a reload asks the stopped generation, whose worker is then spawned again and
  belongs to nobody (`ingest_runner.py:48`). A plugin that fails to start leaves its worker
  (`registry.py:103`). These three are steps of `CollectorRuntime`; it has none for a request that is
  cancelled, which does not kill its worker (`plugins/remote.py:127`).
* The run state stays "running" after a restart until the next run (`runtime.py:185`); a collection in
  a thread that timed out runs on, and its result is dropped.
* `NoEventMissed` speaks of events from `promised` on. An empty first window sets the cursor from the
  application's clock, and events emitted before it on a slower vCenter's clock are lost; so are events
  that become readable later than the overlap. More events within the overlap than one pull reads
  stall the cursor. One event that cannot be stored refuses every batch that holds it: on PostgreSQL one
  with a key beyond 32 bits, and one with a naive time, which the built-in collector never gives
  (`collectors/events.py:112`) but a plugin may (`Flaws`). Keys a restored vCenter hands out again are dropped as duplicates.
* `ScoresFollowRules` excepts a type whose rule two transactions were about at once: an insertion beside
  an edit (`runtime.py:233`), an edit beside an edit that changes nothing, a deletion beside a
  creation. So is an edit that has read the stored events (`event_scores.py:35`, `:50`) when an insertion
  or another rescoring by another delta commits before it does: on PostgreSQL it neither sees those rows nor
  writes those whose score it read as right. The score stays stale until the next rescoring.

Sessions and requests:

* `UseNeverCutOff` excepts the request that read the session before a password change re-tagged it:
  it deletes the session the change wanted to keep (`sessions.py:130`).
* With `OneWriter = FALSE`, `NoneRevived` fails: the unlock command deletes sessions before it
  activates the user (`cli.py:98`), and a login between them opens one that becomes usable. With
  `OneGuard = FALSE`, `AdminRemains` fails: server and command line on SQLite can demote the last two
  administrators at once (`auth/users.py:88`).
* `DifferencePursued` excepts (`excused`) an answer of a reconciliation that another change overtook: the
  tab pursues it at the next response only. It speaks of the last answer: a late one that names an
  earlier session takes the place of a newer difference (`AuthGate.tsx:251`; the comment at :254 says that
  differences seen during a check are not dropped), and the newer is forgotten until the next answer. A late answer to a logout deletes the cookie of a session
  another tab has opened since.

Plugins, directories, startup:

* Staging directories lie in the directory that discovery searches
  (`docs/operations/collector-plugins.md:111`); a package whose name changed leaves the old directory
  without a row; an upgrade takes no effect while the older directory is there
  (`docs/userguide/plugins.md:245` against `plugins/worker.py:83`). An install the restart cut stays at
  "installing" and must be uninstalled first; a reused process id keeps its upload directories
  (`plugin_installs.py:67`). When the rename into the final directory fails (`installer.py:266`), the old
  directory is gone: the row asked for says "failed", but when the package names itself otherwise, that
  name's row goes on saying "installed". A directory or staging directory whose removal fails stays in part,
  and so does the row of an uninstall whose transaction fails. With `Apart = FALSE`, `PackagesAccounted` fails: an uninstall may run
  during an install.
* With `EditsAlone = FALSE`, `ConnectionInUseKept` fails: the gate is released before the transaction
  commits (`plugin_setup.py:56`, `deps.py:33`). Applying enables the version found on disk, which need
  not be the tested one (`plugin_setup.py:317`).
* The listing of a log is no snapshot. When a compression ends between the `stat` of `hostd.0` and that of
  `hostd.0.gz` (`transport.py:201-203`), or after both, both are listed: the state of the file
  goes to the plain file, the first with its prefix (`__init__.py:334-355`), and the .gz is read again from 0
  under a new generation, so that its records are stored twice. A file that a rotation moves to a name already
  passed is not listed: a gap is told although nothing is lost, and the file is read again at the next pass;
  or a loss is not told later. The README of the package (`README.md:96-98`) promises tracking of rename and
  compression without that exception. `EveryRecordAccounted` claims `NothingPassedOver` then, and no more.
* With `Headed = FALSE`, `LossIsTold` fails. A compressed archive that the first pass skipped is read
  later, as records before the baseline.
* A later success prunes the backup of a failure, which `docs/development.md:114` says is kept. A first
  creation that broke off may be taken for an older release.

Chat and views: a cut that is no longer needed stays flagged; the search loop may end with an empty
text; an unregistered qualified name that begins with another host's label comes back as that host; a
failed search replaces an earlier result; a digest reads its context in several statements. Series of a
period are grouped by host without its vCenter (`chat_period_metrics.py:126`), unlike the ranking and the
alerts. A sustained breach is not reported in a period without events, or of a host that is not
among the first.

Not findings, since the documents say so: an alert resolved by hand fires again while an event is in
the window (`docs/userguide/alerts.md:194`), and a stale metric alert fires again when data returns
(`docs/development/backend.md:93`).

## Not modelled

Message texts, templates, TLS, DN and filter strings, SQL dialects beyond the constants above, queries
without writes, and the answers of external services beyond the kinds the code tells apart (SMTP, LDAP,
vCenter, pip, language models, SSH). Metric collectors, which read present samples and keep no cursor;
the older `ingest_events_for_vcenter`; weekly and monthly digests, which differ from the daily in their
window; the zone in which cron fires; the tool loop of the Copilot client; the test endpoints and the
limit to local logins of directories; authentication switched off, in `BrowserTabs`; the screens of
the frontend; more than one client address and request in flight in `RequestLimits`, whose limits
are per process. `PROJECT.json` names every component with its status.

## Plan

Every component with state of its own has its module, and every module but `PeriodViews` has its safety
invariant proved. What is left is the values `PeriodViews` shows, which need induction over the rows.
