# A TLA+ model of PCDoctor Workbench

PCDoctor Workbench is an Electron tray application (`src/src/main`, `src/src/renderer`) on top of
a set of PowerShell scripts (`src/powershell`). The main process scans the machine, runs one-click
actions, keeps their history and undo in SQLite, ingests the log of a scheduled task, evaluates
rules that alert over Telegram, listens to Telegram and to Claude, and drives an elevated PowerShell
worker for the few operations that need administrator rights. The window shows all of that and
changes much of it. This directory models the parts whose correctness depends on the order of
events: who acts between two awaits, what a crash leaves behind, what a timeout races with, what a
page still shows when its answer arrives late.

Paths below are relative to `src/src/main` or `src/src/renderer` unless they say otherwise.

## 1. Inventory

| Part | State it keeps | Operations | Talks to | What makes it correct |
|---|---|---|---|---|
| Elevated worker, application side (`elevatedWorker.ts`, `elevatedWorkerProtocol.ts`) | active session, its capability, reference count, the shared launch promise | `ensureWorkerRunning`, `dispatchCommand`, rotation and retirement of sessions | the queue directory, the UAC launcher; called by `serviceMutate.ts` and `processMutate.ts` | each action at most once, answers are true, every call is answered, a secret lives exactly as long as it is needed |
| Elevated worker, worker side (`powershell/worker/Elevated-Worker.ps1`) | accepted nonces, idle deadline, heartbeat | scan, validate, execute, publish, delete, leave | the queue directory | same, and an elevated process never stays for ever |
| Autopilot log ingestor (`autopilotLogIngestor.ts`) | checkpoint file, in-flight pass | `ingestOnce`, start, stop | daily log files, `autopilot_activity` | no line lost, none inserted twice |
| Action runner and rollback (`actionRunner.ts`, `rollbackManager.ts`, `ipc.ts` revert handler) | `actions_log`, `rollbacks`, snapshot directories | `runAction`, `prepareRollback`, `revertRollback` | action scripts, `dataStore.ts` | the history says what happened; an undo undoes |
| Autopilot engine (`autopilotEngine.ts`) | rules, activity rows, last alert per rule | `tick`, `evaluateRule`, `dispatchDecision`, `dispatchAlert`, run now, snooze | Telegram, `dataStore.ts`, the report | no alert twice within its gap, none while snoozed |
| Status cache, notifier, digest (`pcdoctorBridge.ts`, `notifier.ts`, `main.ts`) | cached report, flight, quiet-hours buffer, seen findings | `getStatus`, refresh, `notify`, `flushBufferedNotifications` | report file, settings rows, Telegram | told once, nothing lost without a failure, no old report over a newer one |
| Telegram (`telegramBridge.ts`, `telegramApprovedAction.ts`, handler in `main.ts`) | update offset in memory | polling, presses | Telegram, action runner | a press is handled, and handled once |
| Claude bridge (`claudeBridgeWatcher.ts`, `ClaudeApprovalListener.tsx`) | last processed line, the open request | watcher callbacks, approval, timeout | request and response files | nothing runs that was not approved; a request is answered |
| Service and process mutations (`serviceMutate.ts`, `processMutate.ts`) | audit and rollback rows | the mutations, `undoServiceAction` | the elevated worker | what is marked reverted was restored |
| Startup (`main.ts`, `taskMigrationVerify.ts`, `powershell/*.ps1`) | two markers in the settings | copy of the bundle, migration of tasks, repair of ACLs | scheduler, UAC | markers are honest; in the end everything is deployed |
| Pages (`pages/*.tsx`, `hooks/*.ts`, `components/*`) | what is shown, busy marks, dialogs, timers | clicks, answers, refreshes, leaving and coming back | `ipc.ts` | shows what is stored, asks before it acts, never stays busy |
| Terminals (`ptyBridge.ts`, `ClaudeTerminal.tsx`) | session map | create, inject, kill, exit | child processes | no process out of reach, no text in another terminal |
| Tools (`toolLauncher.ts`, `Tools.tsx`, `useTools.ts`, the first-run splash) | installs under way | install, upgrade, launch | winget, child processes | one install of a page at a time; "Launched" runs |
| Wizard and settings (`wizard/*`, `Settings.tsx`, `nasConfig.ts`, `startupConfig.ts`) | settings, mirror on disk | steps, saves, imports | `setSetting`, files | what the user chose is what is stored |
| Script runner (`scriptRunner.ts`), data store (`dataStore.ts`) | timers; SQLite | runs; statements | everything | see the modules that use them |
| Forecasts, recommendations, reports, tray, installer | mostly none | pure rules, wrappers | | see section 8 |

Processes and what they share: the main process is one event loop, so a callback runs
uninterrupted until it awaits; the renderer is another, and what it asks for is answered by
messages that keep their order only when the handlers do not await; PowerShell processes, the
elevated worker and the user are concurrent with both. The queue directory, the log and bridge
files and SQLite are what they share, and what survives a crash. The hard behaviours, each with its
line, are the `hazards` of `PROJECT.json`.

## 2. Modules

Every definition that stands for code has its lines in the `map` of `PROJECT.json`.
Definitions whose comment begins with "Mutant" are not used by any specification: each is a
plausible bug that replaces the definition after it, and shows that a property notices.
`MC*.tla` are small instances.

| Module | What it is |
|---|---|
| `ElevatedDispatch.tla` | abstract: what `dispatchCommand` promises its callers, without sessions, files or time |
| `ElevatedWorker.tla` | the session, the queue and the worker as one system; implements `ElevatedDispatch` |
| `ServiceUndo.tla` | the callers of the worker: mutations, their rows, their undo; the worker is as `ElevatedDispatch` promises |
| `ActionLedger.tla` | the action runner, its history and its undo |
| `AutopilotLogIngestor.tla` | the ingestor, its files and its restarts |
| `Autopilot.tla` | the threshold rules, their alerts and rows |
| `StatusFeed.tla` | from the report of a scan to what the user is told |
| `TelegramPolling.tla`, `ClaudeWatcher.tla`, `RemoteRequests.tla` | requests from outside the window, and both together |
| `StartupMigration.tla` | the legs of a start |
| `SetupWizard.tla`, `ServicePages.tla`, `ProcessPage.tla`, `ActionFlow.tla`, `Terminals.tla`, `ToolInstalls.tla`, `ToolLaunch.tla`, `RulesPage.tla`, `AutoUpdate.tla`, `SettingsPage.tla`, `NasSettings.tla`, `StartupPicker.tla`, `UpdatesPage.tla`, `ReviewPage.tla` | the window, part by part |
| `Desktop.tla` | the start and the window side by side, with the properties a user relies on |
| `ElevatedWorkerProofs.tla`, `ServiceUndoProofs.tla`, `ActionLedgerProofs.tla`, `AutopilotLogIngestorProofs.tla`, `StatusFeedProofs.tla`, `RemoteRequestsProofs.tla`, `AutopilotProofs.tla` | the theorems about the module of that name, with their lemmas |
| `DesktopProofs.tla` | the theorems about `StartupMigration` and about `Desktop`, part by part |

### ElevatedWorker

*State.* A session (`WorkerSession` in the code) is an identity with the fields `retired`,
`queueReady`, `launchAttempted`, `inFlight` and the fact that its capability is `zeroed`; sets of
sessions stand for Boolean fields. `ensurePc`, `ensureSession` and `ensureAge` are the promise
`ensureInFlight`. Each call of `dispatchCommand` has a program counter, the session it signed
for, and what it reported. The queue directory is the heartbeat file, and for every command its
file, its result file and the age of its envelope. A worker has a program counter, the command
in hand, the nonces it accepted, and the time since its last activity. `executions` and `effect`
are history.

*Steps.* One action goes from one await of the main process to the next (`DispatchBegin`,
`EnsureReprobe`, `EnsurePoll`, `Resume`, `PollResult`, ...). `EventLoopFree` says that a
dispatch whose promise has resolved continues before any other callback. The worker's loop is
cut at every access to the queue and at every point where time matters: a command is taken
(`WorkerTake`), read into memory (`WorkerReads`), accepted or refused for its age and nonce
(`WorkerAccepts`, `WorkerRejects`), started (`WorkerStarts`), its result published and its file deleted
(`WorkerPublishes`, `WorkerDeletes`). The main process may time out, withdraw the file and answer
between any two of them.
Everything the code catches, retries or swallows is a fault kind in the constant `Faults`.

*Time* is kept as ages (of a heartbeat, an envelope, a launch, an idle worker) that grow together
and stop at the largest value the code compares them with; no clock bounds a behaviour. One unit
stands for the 30 seconds of `HEARTBEAT_STALE_MS` and of the envelope lifetime. That a heartbeat
is written more often than it goes stale is not assumed: a worker may be arbitrarily slow.

*Abstractions.* A capability cannot be guessed: a file authenticates exactly when it was written
for this session and this command. Field-by-field validation, JSON and the MAC are "accepted" or
"refused". The parameters of an action are its call. The trust proofs of the queue and of the
worker's code succeed or throw.

### ServiceUndo

A row of `actions_log` is the call of the same number, with its rollback row, what its script read
of the service before it acted, and which row it undoes. `Begin` is `runMutate` up to its await;
`Accept`, `Start` and `Finish` are the worker and the three scripts (which find nothing to do, or may not
do it); `Answered` comes with a success, a refusal or an unknown outcome, after which an accepted script may
still start. `Writes` are the synchronous writes after a success; they are no transaction, so the
application may die between them, or one may throw while it lives. One service, which may be running,
paused or stopped and may have others that depend on it: `Stop-Service -Force` stops those too and
nothing starts them again. Other programs change it as well. The worker is not composed in: the steps of a
call are those of `ElevatedDispatch`, with what the scripts do added, and nothing better is assumed of it.

### ActionLedger

*State.* A run is one call of `runAction`; it names its `actions_log` row, its `rollbacks` row and its
snapshot. The content of a file is the set of runs whose changes it carries, so that "undone"
and "undone twice" can be told apart. `script` is the PowerShell process of the run.

*Steps.* The synchronous code between two awaits is one action; the awaits are those of
`Create-RestorePoint.ps1`, of `statfs` and of the script. A script writes the files its action
declares: it reads a file into memory (`ScriptReads`) and replaces it later (`ScriptWrites`), by a merge with
what it had read or without. A timeout kills a plain script and only the wrapper of an
elevated one. The user presses Revert when the History page shows the button, maybe on an old
list. A revert copies back and marks two rows; a crash may fall between any of these, and either mark may
throw while the application lives (`MarkReverted`). What the system answers is free when its kind is in
`Faults`; failures of the audit log, those marks included, and crashes are counted against `MaxFaults`.

### AutopilotLogIngestor

*State.* The log file of each day is a sequence of lines; the checkpoint is a day and the number
of lines before it. (The byte offsets of the code only ever stop just past a newline.) `pass` is the
local state of each call of `ingestOnce`, `inFlight` is `_inFlight`. Rows are counted per line.

*Steps.* A pass is `BeginPass`, which reads the checkpoint (one that is there but cannot be read or parsed
makes it begin at the start of today, as if there were none), then for a rolled-over day `DrainPrior` and `SavePrior`, then
`DrainCurrent` and `Save`. The drain of a file is one step, because the inserts are synchronous; a
crash inside the insert loop is an outcome of `Crash`. The writer appends lines, whole or in two
parts; midnight may come between any two steps. The clock is assumed never to go back. The tray's
Quit waits for the pass (`Quit`), a crash does not. The history variables are read by properties only,
except that the number of faults is bounded.

### Autopilot

A tick takes its decisions from the rules and the report in one step (`Tick`) and dispatches them
one by one in `Loop`, which re-reads the minimum gap before each; what an alert says is remembered
(`heard`), for how long (`quiet` for snoozes, ages for rows). `SendResolves` ends a Telegram call with
or without success and leaves the rows of `RowsOfSend`; or the row cannot be written, which the tick
swallows, and then neither the row nor the emission is recorded. `RunNow`, `Press` (Snooze, Dismiss, Fix under an
alert) and `UiSnooze` come between any two of these. One unit of time is the minimum gap of six hours,
since no call lasts that long; `DedupWindow` and `SnoozeTime` of a day are shortened to two units.
The three rules of the instance are a rule with an action, the rule about repeated failures, which
reads the rows the others write, and a rule of the report that an edit may change. What a trend or a
count says is a free outcome.

### StatusFeed

`Scan` replaces the report; reads of it begin and end in any order (`BeginRefresh`, `FinishRefresh`), one
flight being shared. Loops over the findings mark and tell each new one, and overlap. `notify` sends
or buffers; the digest timer of the local hour and a request from the page flush the buffer under the
gate of the UTC date. Everything in `Faults` may fail once: the report, either direction of the
buffer file, the database, Telegram, or the application stops.

### RemoteRequests

`TelegramPolling`: updates wait on the server until a poll with a larger offset confirms them; a poll
is answered, handles its updates one after the other with awaits in between, and others start
meanwhile. `ClaudeWatcher`: a callback takes the lines past `lastProcessedLine` (one may be half-written),
drops those without an id or an action, asks in a window that holds one request, and stops listening at
the answer or at the timeout. The two
share nothing, so a behaviour uses one of them.

### StartupMigration

The four legs (`sync`, `migration`, `repair`, `heal`) run side by side; `Mismatches` is what
`Sync-ScriptsFromBundle.ps1` compares, `Verified` is `verifyTaskManifestMigration`, the markers are
`last_task_migration_version` and `last_acl_repair_version` with their rules. An elevated script that
was given up may still register rows (`late`). The application may stop at any time, be updated, and its
files and tasks be disturbed by others.

### The window

The page modules have one shape. What the page shows is a variable of its own beside what is
stored; a call is a message that is handled (where it reads or writes) and answered later; leaving a
page forgets what it shows but not what is on its way. Actions are named after the handlers of the
page. In particular:

- `SetupWizard` abstracts what a step shows to where it comes from (the component's initial value, the
  machine, the settings, the user). The effects that save are cleaned up with the closure of the last
  (or, where their dependencies miss something, the first) render. The network step awaits its writes
  one by one; of each key they arrive in the order of the saves all the same (see `SaveOnLeave`).
- `ServicePages` is the Services page and the Undo Center; `ServiceUndo` says what its calls do.
- `ProcessPage`: a process is a pid with a generation; the page knows the pid.
- `ActionFlow`: a flow is one call of `handleAction`; a card reads the "Don't ask again" setting of its
  alert in an effect, which runs after the card is painted with a new alert (`due` holds the cards in
  between). "Analyze Minidump" and the panels run an action without a card's flow (`RunFromPanel`).
- `Terminals`: a start is one run of the terminal's effect; StrictMode runs it twice.
- `ToolInstalls`: a job is one call of an install or upgrade, with what is left of its round.
- `ToolLaunch`: the events of a child and the timer against them.
- `RulesPage`, `UpdatesPage`, `ReviewPage`: lists and readings of a table, a file or Windows that
  overlap with what changes them. A review has one item in the model; items are apart in the table.
- `SettingsPage` and `NasSettings`: handlers without awaits, so calls work and are answered in order. The
  wizard lies over the mounted page and stores the same settings (`WizardStores`, `WizardSavesNas`); the page,
  which loads only when it is mounted, is not told.
- A call of `UpdatesPage` and `RulesPage` may be answered with a failure, which these pages drop.
- `StartupPicker`, `AutoUpdate`: a dialog over two stores, and a copy of the updater's status.

`Desktop` instantiates them. They share the main process, and a table or a setting here and there; where one
part changes what another shows, the module of the other has that change as an action (the wizard's
stores in `SettingsPage` and `NasSettings`, Telegram's snoozes in `RulesPage`). So a behaviour looks at one
`scene` and the others stay as they are: the states add up rather than multiply. Its properties are conjunctions of what the parts promise, grouped by what a
user would complain about; each conjunct is stated and commented in its own module.

## 3. Runs

| Run | Question | Instance | Result |
|---|---|---|---|
| `worker_queue` | can an action run twice, be accepted after its caller timed out, or be reported wrongly, when launches, reads, writes, deletes and workers fail; and does every worker leave? | 2 calls, 1 session, faults `commandRead`, `resultRead`, `delete`, `crash` | holds |
| `worker_sessions` | do sessions, prompts and capabilities stay consistent, and does the whole implement `ElevatedDispatch`, with untrusted queues, unreadable heartbeats, actions that do not start, dying workers and restarts? | 2 calls, 2 sessions | holds |
| `worker_settles` | is every dispatch answered although workers die and users never answer? | 2 calls, 2 sessions, faults `spawn`, `commandWrite`, `heartbeatWrite`, `crash` | holds |
| `ingest_rows` | are rows duplicated, lost or claimed too early, and does every line of a day get in while the application stays up? | 3 days, 2 lines, 2 timers, 2 faults of 7 kinds | holds |
| `ingest_downtime` | does the pass at startup catch up with the downtime? | 3 days, 2 lines, no fault | violated |
| `ledger_audit` | do the audit log and the rollback rows tell the truth, and does every run end in the log although its script hangs? | 2 runs, 1 file, every fault kind, 2 counted faults | holds |
| `autopilot` | do snoozes, the minimum gap and the deduplication hold together? | 3 rules, 1 fault: a send, a row or a crash | holds |
| `autopilot_low_disk` | do the rules for low disk space mean low disk space? | the same, disk 10% or 90% free | violated |
| `service_undo` | is what is marked as reverted restored, and what is listed undoable? | 3 rows, 1 of them asked for and 2 undos, 1 fault | holds |
| `status_feed` | is everything told, and told once, over restarts and failing files? | 2 findings, 1 event, 2 readers, 2 loops, a day of 3 hours, 1 fault | holds |
| `remote` | are presses and commands handled, and nothing else? | 3 presses, 2 polls; 3 commands, 2 callbacks; 1 fault each | holds |
| `desktop` | does the window show what is stored, keep what was chosen, ask before it acts, and come back; is the start honest and does it get there? | 15 scenes, see `Desktop.cfg` | holds |

*Why these bounds.* Two calls are enough for one to share the launch of the other, to queue behind
it, and to be hit by its failure; two sessions for a rotation with a worker left behind; a timing
constant of 1 or 2 for both orders of "expired" and "timed out". The envelope lives as long as the timeout
(a dry run, 30 s and 30 s): the tightest case of the repository, in which the last moment to accept a
command is also the moment its caller gives up. Three
days are the least with a day in the middle; two lines the least with a line before a failed insert.
Two runs on a file give an undo in the wrong order, and a script that holds what is being undone. Three rows
of services are an action with two undos of it, or its undo and the undo of the undo. A buffer of one notice is full at the second, three hours are a night, the hour
of the digest and an evening in which the UTC date changes. Two overlapping polls, callbacks, loads or
flows are the least that can cross; of three commands two carry one id and one is unknown. In the
window each scene has the two or three clicks, the overlapping call and the return to the page that its
properties speak of: for example two loads of a review while an action of another one runs, or (`MaxNasClicks`)
an edit, a save, a step of the wizard and a click after it.

*Deadlock* is checked for the worker, the rules, the services and the feed. It is not for the
ingestor, the ledger, the remote requests and the desktop: their days, runs, presses and clicks are
bounded, so they may end.

*What a run leaves out.* `RefusedNeverRan` is checked without `resultWrite`, and `DispatchPromise`
without `delete`; the theorems about them assume the same of `Faults` (the first one only that not both
kinds are there). With them they fail, and that is how the code is: when both the result and the delete of
a command fail, the second reading refuses it as a replay, and the caller hears of a refusal; and a
command file that neither process can delete may still be accepted after its caller was told that its result
was unreadable. `TimedOutIsNotAccepted` and `DispatchPromise` need the envelope to live no longer than the
timeout; every caller in the repository satisfies this (30 s against 30 s and 60 s). That an action does
not *start* after `E_CMD_TIMEOUT` is not so and is not claimed: what was accepted just before may start
just after, and `ElevatedDispatch` lets an answer of unknown outcome be followed by a start.

Other properties name what they except, each exception being a history variable that is set exactly where
the code loses track:

- `EveryRunSettles`: runs that a crash or a failure of the log cut off; nothing repairs a row left "running".
- `RevertIsOnce`: reverts that ended before both rows were marked (`unmarked`), by a crash or a failing write.
  Each leaves the button there and lets the snapshot be copied back once more.
- `UndoneStaysUndone`: files a running script had read when they were undone (`overtaken`), and files
  copied back later from the snapshot of another run that was taken while the change was there.
- `DuplicatesNeedALostPlace` allows a line once more for every pass that lost its place (`lostPlaces`): its
  checkpoint was not saved after an insert, or could not be read. `RolloverDrainsTheDay` excepts
  days whose checkpoint could not be read on a later day (`unread`), truncated files, failed inserts and
  reads, and lines met half-written.
- `NoAlertStorm`, `ToldOnceADay`: alerts the application died in or whose row could not be written. Such a
  send leaves nothing behind, and the next tick, a minute later, sends it again.
- `RevertedMeansRestored` says what an undo restores: the start type, or the status of the service itself.
  The dependents that a stop took along, and a pause, are not brought back. `ListedIsUndoable` and
  `UndoneOnceToOurKnowledge` except rows whose writes were cut short (`torn`).
- `OneShareOfADrive` is said of what the editor stores, not of mappings the wizard stored (`wizardRows`).
  `CleanIsStored` and `ShownIsStored` except what the wizard stored since the page last saved or loaded
  it (`outdated`, `overwritten`), besides writes that failed half-way and edits that cross an answer.
- `PageIsUpToDate`, `BoxesShowTheTable` and `ReviewIsTrue`: what a page misses by design or by a known
  overlap, and what a failed answer leaves as it was (`astray`, `listLost`, `reviewAstray`).
- `RunsWithConsent`: a click between the paint of a new alert on a card and the effect that follows it (`due`)
  finds the "Don't ask again" of the alert before.

## 4. Fairness

All fairness is of what the event loops, timers and time-limited calls do; none is assumed of the user,
of the writer of a log, of midnight, or of any failure.

- `worker_settles`: the event loop of the main process takes its callbacks and time passes.
  `worker_queue` (for `EveryWorkerLeaves`): a started worker keeps running, the action process it
  waits for ends, and time passes.
- `ingest_rows`: the interval of five minutes fires while the application is up, awaits of a pass complete.
- `ledger_audit`: awaits complete, by their timer if nothing else; nothing of the script.
- `status_feed`: the application is started again, the hours pass, the digest timer fires, a send ends.
- `remote`: polls go on while the application is up and are answered or fail; handlers end;
  watcher callbacks run, approvals end by their timeout.
- `desktop`: numbered duties of the scene. Weak fairness: every call is answered (each has a timeout
  in `ipc.ts`, in the script runner or in winget's wrapper), intervals and timers fire. Strong fairness of
  `DeadlinePasses`: the test message with buttons polls until a deadline, and a poll may be under way
  at any moment, so it is only again and again that one is answered after it. `EventuallyDeployed` is
  conditional instead: if the user keeps starting the application and again and again leaves it running
  until its legs have ended.

## 5. What is proved

Every theorem is about the specification of its module with its constants left open: any number of
calls, runs, lines, findings, presses, terminals or settings, any bound on faults and any set of their
kinds, unless the table says otherwise. The assumptions are the ones the modules name (`ASSUME`): that
bounds are natural numbers, that sets which stand for "none" are apart from what they are taken for
(`PassAssumption`, `NoCopyAssumption`, `NoticeAssumption`, `CommandAssumption`), and what a configuration of
the code looks like (`ActionAssumption`, `TaskAssumption`, `AskedAssumption`, `HourAssumption`,
`KeyAssumption`, `ToolAssumption`, `RuleAssumption`, `TimeAssumption`, `FaultAssumption`). TLC evaluates all of them in the runs. Each inductive
invariant was checked by TLC on the instance of its run before it was proved.

| Module | Theorem | States |
|---|---|---|
| `ElevatedWorkerProofs` | `Invariance` | `[](LifecycleInv /\ ExecutionInv)` |
| | `TypeCorrect`, `CapabilityLives`, `SingleSession`, `NeverRunsTwice`, `Truthful`, `SessionChecksHold`, `PromptsAreAwaited` | `TypeOK`, `CapabilityLifetime`, `OneSessionInUse`, `AtMostOnce`, `ReportsAreTrue`, `NoSessionFault`, `PromptIsAwaited` |
| | `TimeoutIsFinal` | `TimedOutIsNotAccepted`, if `EnvelopeLifetime <= CmdTimeout` |
| | `RefusedDidNotRun` | `RefusedNeverRan`, if not both `resultWrite` and `delete` may fail |
| | `PromiseIsKept` | `DispatchPromise` (it implements `ElevatedDispatch`), if `delete` does not fail and `EnvelopeLifetime <= CmdTimeout` |
| `ServiceUndoProofs` | `UndoInvariance`, `UndoTypes` | `[]UndoInv`, `TypeOK` |
| | `RevertedIsRestored`, `ListIsUndoable`, `UndoneOnce` | `RevertedMeansRestored`, `ListedIsUndoable`, `UndoneOnceToOurKnowledge` |
| `ActionLedgerProofs` | `LedgerInvariance`, `LedgerTypes` | `[]LedgerInv`, `TypeOK` |
| | `AuditIsTrue`, `SnapshotsPredate`, `RevertsOnce`, `UndoneStays` | `AuditTruth`, `SnapshotPredatesRun`, `RevertIsOnce`, `UndoneStaysUndone` |
| `AutopilotLogIngestorProofs` | `IngestInvariance`, `IngestTypes` | `[]IngestInv`, `TypeOK` |
| | `FewDuplicates`, `CheckpointsAreHonest`, `RolloverDrains` | `DuplicatesNeedALostPlace`, `CheckpointIsHonest`, `RolloverDrainsTheDay` |
| `StatusFeedProofs` | `FeedInvariance`, `FeedTypes` | `[]FeedInv`, `TypeOK` |
| | `ToldAtMostOnce`, `NothingIsLost`, `CacheIsMonotone` | `ToldOnce`, `OnlyFailuresLose`, `CacheNeverGoesBack` |
| `RemoteRequestsProofs` | `RemoteInvariance`, `RemoteTypes`, `NothingBehind` | `[](TgInv /\ CwInv)`, `TypeOK`, `NothingBehindTheBack` |
| `AutopilotProofs` | `AutopilotInvariance` | `[]AutopilotInv` |
| | `SnoozeIsKept`, `AlertsAreAGapApart`, `AlertsAreToldOnceADay` | `QuietAfterSnooze`, `NoAlertStorm`, `ToldOnceADay` |
| `DesktopProofs` | `MigrationInvariance`, `StartupTypes`, `MarkersAreHonest` | `[]MigrationInv`, `StTypeOK`, `MarkerIsHonest`, of a start alone |
| | `PartsInvariance` | `[]PartsInv`, the invariants of eleven parts beside each other |
| | `WindowKeepsMarkers`, `ProgramsStayInHand`, `ChoicesStay`, `NothingHappensUnasked` | `MarkerIsHonest`, `ProgramsAreInHand`, `ChoicesAreKept`, `NothingWithoutConsent` |
| | `TruthInvariance`, `PagesAreTrue` | `[]TruthInv`, the invariants of six parts about what they show; `PagesTellTheTruth` |

### The arguments

None of the properties is inductive alone; what each invariant adds is the reason the code is right.

*ElevatedWorker.* `AtMostOnce` needs to know that an action that has started left its nonce with the
worker of its session (`NonceInv`), and that a command is only ever looked at by that worker
(`CommandInv`). `ReportsAreTrue` needs the same of what a worker is about to publish and of what a result
file says (`ResultInv`). `CapabilityLifetime` needs `inFlight` to be the number of dispatches that hold the
session (`HoldInv`), which is a fact about cardinalities; the lemmas `HoldersFinite` and `HolderCounts` and
those after them do that arithmetic once. `NoSessionFault` needs `EnsureInv`: the promise resolves only to a
session that is active and proven, and the microtask that follows finds it unchanged. The invariant is
split in two: `LifecycleInv` (sessions, promise, reference counts) is preserved by itself;
`ExecutionInv` (files, nonces, results) is preserved given `LifecycleInv`. Two more are preserved given
both: `RefusalInv` says that a dispatch that hears of a refusal has an envelope that had expired before it
ran, because a command that ran and is still in the queue already has its result, or a worker that is
about to write it or gone; `WithdrawalInv` says that a command file that outlives its answer belongs to a
worker that has left or is about to delete it, and that of the answered commands a worker checks only such
as timed out, which have expired (`TimeoutInv`): so nothing is accepted after the answer. The
refinement then goes action by action; most are stutters.

*ServiceUndo.* A row is there from the moment its dispatch is asked for, and a success only if the script
ran (`RowIsOpen`); an undo asks for the reverse of a row that succeeded (`RowUndoes`); a success has all its
writes unless they were cut short, by a crash or a failing log (`RowIsWritten`). The type invariant is not inductive: that
a start type is restored to one there is needs what the scripts read (`RowIsRead`).

*ActionLedger.* `CallInv` ties the row to the place in the code (a row says success only when the call is
over), `NotYetWritten` says that no file and no snapshot holds the change of a run whose script has not
begun, nor any script's memory; `RevertInv` counts the copies against the marks that were made and the
reverts that made none. `UndoneInv` is the argument for what was undone: whoever holds the change, a
file or the memory of a running script (`ReadingInv`), is one of the two known ways back.

*AutopilotLogIngestor.* A line has one place in the files (`LinesInv`). A pass works with a checkpoint it
read earlier: `PassInv` and `CursorInv` say that one pass at a time holds the lock, what it knows of the
checkpoint at each await, and that the checkpoint names a day that was visited. `RowsInv` is the
argument against duplicates: what is ahead of the checkpoint on disk, or of the one about to be written, was
inserted once for each lost place at most (`Covers`). A pass that could not read the checkpoint starts behind
it (`Misread`), and has counted its place as lost before it inserts anything. `HonestInv` says that whatever is behind a cursor has its
row, on disk and in the pass; `RolloverInv` that a day the checkpoint has left, or a pass is about to leave, is
settled.

*StatusFeed.* A notice is in one place (`InOnePlace`): told, on its way, or in the buffer. The buffer is a
sequence with a capacity; the lemmas on what `Appended` and the head of the buffer contain are stated once.
`ReadsAreFresh` says that the single flight reads a report no older than the cache.

*RemoteRequests.* Of the presses: an update that was taken up and may not be handed out again lies below
the offset in memory and below the offset of the request under way (`OffsetsArePast`). Of the commands: a
line is counted before it is queued and queued once (`QueuedOnce`), one callback waits for it
(`AwaitedOnce`), so its answer is what was decided (`AnswerIsTrue`).

*Autopilot.* A tick decides first and dispatches rule by rule, so a decision may be stale when its turn
comes; what is still right about it is in the rows. `SnoozeInv`: a rule that was snoozed since the tick
decided has a row of less than six hours, which makes the dispatch skip it. `StormInv`: the rule of a
recent alert whose row was written has such a row too or is the one whose send is awaited, and a tick comes to each rule once (this
needs the identifiers of the rules to be a key: `RuleAssumption`). `HeardInv`: what `recordAlertEmit` keeps
is what Telegram confirmed and could be recorded last, with its age. Each property then follows from what lets an alert begin.

*StartupMigration.* The marker is never ahead of the bundle, and what was verified stays so until it is
marked, because the bundle changes only while no leg runs.

*Desktop.* `Apart` is the lemma that makes the parts independent: a step of the window is a step of one part
and leaves the variables of each other part alone. So each part's invariant is proved for the part:

- `TerminalsInv`: in a build for users each session has the process of its own mount, so a late exit deletes
  its own entry. `InstallsInv`: the mark of an install stays until its round is over.
- `WizardInv` and `SettingInv` are about queues of writes and answers. Of each key the last write on its way
  says the last word of its step, and of each setting the last answer says what is stored (`LastWordIsOnItsWay`,
  `CopyFollows`), but for settings the wizard has overwritten since; the lemmas say what taking the head off such a queue and appending to it does to its last
  element of a key. `OnlyTouchedAreSaved` is why a second run of the wizard leaves the NAS and the rules alone.
- `NasInv`: an answer that neither an edit nor a store of the wizard has crossed is alone and brings what is
  stored. What the wizard stores is mirrored by the same call, so `MirrorIsStored` needs no exception.
- `ProcessInv`, `ActionInv`, `RulesInv`, `PickerInv`, `ReviewInv` are about consent: what is on its way was
  agreed to when it was sent, whatever the page shows by now. `ActionInv` is the one with a race in it:
  a read of the "Don't ask again" setting that is still wanted asks for the alert that is there, or the
  card's effect is due, so a card whose effect has run never skips for one alert what was waived for another.

`NothingWithoutConsent` is an action property: for each part a step lemma shows that a step from the part's
invariant agrees with it (`ProcessConsent`, `CardsAgree`, `OrderSwitches`, `PickerAgrees`, `GivenOnly`), and
`PartsInvariance` supplies the invariant.

`PagesTellTheTruth` needs more, and a second invariant, `TruthInv`, beside `PartsInv`:

- `ToolInv`: a launch has answered once exactly if it has told something, so that the child's events, the
  timer and the shell cannot tell two things. `UpdateInv`: a "ready" on its way to the page was downloaded.
- `UndoInv`: a toast that says "Reverted" says it of the action whose Undo was pressed. That rows leave the
  Undo Center only so is a fact about a step, so `UndoStep` proves both at once (`UndoIsTrue`).
- `BoxesFollow`: a call that changed the table is still to ask for the list, or the list that comes last is the
  table's. `ReviewFollows`: whatever a load has read for the page is stored still, or the page knows that it
  missed something. Both use the consent invariants: an answer settles no call but its own.
- `UpdatesInv` has the three tiles of Windows Updates, each with its own reason. Of the list, whatever was
  read for the page was read after the last install, or the page knows that it missed one. Of the Nvidia
  tile, the last answer on its way that says something says what is kept. Of the Dell tile, the page is yet
  to ask (a reading that an install began, or the settings on their way), or the same. `LastWordIs` states
  what "the last answer that says something" is; `LastWord`, `SameWords` and `WordsTaken` say what sending an
  answer and taking the first one do to it; `NothingComesEarly` is why a page opened anew starts from nothing.

## 6. What is only model-checked

- Liveness and everything under fairness: `EveryWorkerLeaves`, `EveryDispatchSettles`, `LinesGetIn`,
  `EveryRunSettles`, `DigestsComeOut`, `RequestsAreAnswered`, `PagesComeBack`, `EventuallyDeployed`. Fairness
  and `ENABLED` are out of the prover's reach.

Every other property of a passing run is stated by a theorem of section 5. `RefusedNeverRan` and
`DispatchPromise` are theorems under the assumptions on `Faults` and on the lifetime of envelopes that
section 3 explains; without them they are false, of the model and of the code.

## 7. Findings and observations

Two runs of the project end in a violation: each states what a comment of the repository says, and
TLC shows what the code does instead.

- **Downtime** (`ingest_downtime`, `DowntimeIsCaughtUp`). `autopilotLogIngestor.ts:30` says that the drain
  after startup picks up "anything while app was shut down". A pass reads the file of the checkpoint's
  day and today's; after a pause of more than a day the files between are never read. Two smaller
  losses at the rollover are excluded by name in `RolloverDrainsTheDay`: a failed insert or read, and a
  half-written line, on the last pass over the old day (the comments at lines 24 and 250 promise a
  carry-over and a retry). Another is the catch of `readCheckpoint` (139-154): an unreadable checkpoint of
  an earlier day drops the rest of that day, and one of today inserts today's lines again.
- **Low disk** (`autopilot_low_disk`, `LowDiskRulesMeanLowDisk`). The gauge "C: Drive Used" holds 100 minus the free
  percentage (`pcdoctorBridge.ts:585`); `autopilotEngine.ts:197-203` and `212-219` read it as the free
  percentage, so the rules described as "below 15 % free" fire on an empty disk and never on a full
  one. The tests use gauges made up for the rule (`tests/main/autopilotEngine.test.ts:74-79`).

The rest are observations made while modelling. The model has the code's behaviour, the properties
are stated so that they hold of it, and no run is spent on these.

*Autopilot.* A failed send inserts an activity row, which the six-hour gap takes for a firing; the
comment at 463 says "retries on the next tick". A row that cannot be written is swallowed
(`autopilotEngine.ts:531`), and the alert is sent again every minute until one can. Only an `auto_run` row ends a series of failures. A
snooze from the window inserts no row. An automatic `runAction` is always denied by the policy, and
`Run-AutopilotScheduled.ps1` refuses as well.

*Ledger.* Actions of tier B with empty `snapshot_paths` (`actions.ts:265`, `562`) get a Revert button although
`AlertDetailModal.tsx:60` says otherwise. When `markActionReverted` throws (`ipc.ts:429`), the rollback is spent and
the history still offers it; when `markRollbackReverted` throws, the files are back and can be put back again. A
script that read the hosts file before an undo writes the undone change back
(`Update-HostsFromStevenBlack.ps1:106`, `165`).

*Start.* A sidecar that is unreadable after the marker of a version was written is not repaired in
that version. An elevated repair that leaves something broken is reported as a success. The
defensive elevated sync of `main.ts:345-355` cannot be reached.

*Worker.* An envelope accepted just before its expiry starts its action after the caller was told
`E_CMD_TIMEOUT`: the age is checked at `Elevated-Worker.ps1:880-881`, the process starts at 1022.

*Feed.* The gate of the digest is the UTC date; the flush empties the buffer and reports it as sent
with Telegram off; only twenty entries are printed; `lastFlushHour` lives in memory. The seen mark
precedes the notification. After a parse error the old cache answers, although
`pcdoctorBridge.ts:366-370` says parse errors surface.

*Remote requests.* `lastUpdateId` lives in memory, and overlapping polls handle queued updates again. A
half-written line counts as processed and its request is lost. A second approval dialog replaces
the first; duplicate ids share one approval.

*Service mutations.* The undo of a stop starts the service and none of the dependents that `-Force` stopped
(`Stop-Service.ps1:107`, `132`), and a paused service comes back running or stopped. A stop that found nothing
to do is a success too, and its undo starts the service, although the comment at `serviceMutate.ts:270` says
that such rows are not logged. The three writes after a success (169-180) are no transaction.

*Services.* The late preview of a cancelled dialog goes into the open one, or its error closes it;
Confirm is enabled before the preview. `busyKey` and the UndoCenter's `busyId` are single slots. A
replaced toast keeps the previous one's state, and its timer dismisses a later toast.

*Processes.* A suspended process is forgotten when the page is left, against the comment at
`Processes.tsx:67-68`. The affinity mask `1 << i` wraps at 32 processors. A kill by pid may meet a reused pid.

*Action flow.* The result window shows whatever `window.__lastActionResult` holds
(`Dashboard.tsx:322-338`). The "Suggested now" strip runs without asking. Two clicks on Fix Now start two
flows, and the end of an earlier one closes the later one's detail. A click in the moment between the paint of a
new alert and the effect of its card uses the setting of the old one.

*Terminals.* A context can be typed after its terminal was closed (the comment at `ptyBridge.ts:146-149`
excludes it); `onExit` deletes whoever holds the id; a terminal closed while it starts leaves a process.

*Tool installs.* The splash allows two installs at once, against its word "Sequential"
(`FirstRunToolsSplash.tsx:217`). Install All and Upgrade All do not exclude each other. The upgrade
handlers have no `finally`. A partial download counts as installed.

*Wizard.* A second run overwrites Telegram, thresholds, remote desktop and integrations with initial
values (the drives were fixed in v2.5.44). The save effects run on every change. The last step writes
`wizard_completed_at` when it is shown. Run again from Settings it lies over the mounted page, which shows its
old values as saved afterwards; two rows of its network step may name one drive.

*Settings.* `saveSetting` ignores the answer (`Settings.tsx:183-186`). The comment at 283 says the renderer
never stores the token; the state holds it after a save. A late poll of a finished test ends the
pending one. An import of rules drops `enabled` (`dataStore.ts:820-828`).

*Drives.* An edit made during a save is marked clean. "Changes write immediately to nas.json" is shown
although the mirror may have failed silently; the two settings are not written together; the main
process does not look for duplicates; a revert that crosses a save shows old values as clean.

*Startup picker.* Settings that arrive late overwrite the stars the user set; a save before they arrive
drops the entries not listed.

*Updates.* A failed install may be announced as completed, or with an earlier result
(`Updates.tsx:144-150`). Overlapping loads may show the older list. Leaving the page enables Install
again while the first one runs. A failed first read hides the page with its Refresh. A failed answer leaves a
tile as it is (`Updates.tsx:77` calls it non-fatal), and on the Autopilot page (`Autopilot.tsx:62`) a box that was
just toggled.

*Weekly review.* An action that failed is marked "applied" (`WeeklyReview.tsx:57-63`). After a late load of
the old date, Next to the date already picked does nothing. "Mark Reviewed" deletes the one flag of all
reviews, a newer unseen one included (`ipc.ts:579-587`).

## 8. Not modelled, and why

- *Arithmetic on measurements*: forecasts, recommendations, trends, temperatures. Pure floating point,
  no state that two steps could disagree about.
- *The gates of the automation policy*: a pure function of its inputs, tested by table; the models take its
  one consequence, that an automatic `runAction` is denied.
- *Wrappers*: tray, reports, performance log, text of the e-mail digest, the preload bridge, pages that
  only show what they read. No control to speak of.
- *Scripts*: scanners, actions, installer, access lists and task registration run outside the program;
  the models take what `src/main` observes of them (an exit, an answer, a timeout, files). The worker
  script is the exception: it is one half of a protocol and is modelled.
- *Validation of an envelope field by field and its MAC*: one outcome, `valid` or not.
- *Schema migrations*: sequential code inside one database transaction.
- *Parts of modelled pages*: "Run scan now", "Clean my PC" and the recycle bin panel of the dashboard; the
  lists of scheduled tasks and blocked addresses; archiving a review to Obsidian (`ipc.ts:550-577`); the
  readiness panel of the updates page; starting Claude in a window of its own.
- *Type invariants in runs*: only `ElevatedWorker`'s is an invariant of a run. Those of the other modules with
  theorems are proved for every value of their constants; that of `Autopilot` is stated, and no run lists it.
