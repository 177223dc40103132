------------------------------- MODULE Desktop -------------------------------
(***************************************************************************)
(* What the user sees: the start of the application, its setup wizard, and    *)
(* the pages of the window, each with what it uses of the main process.  A     *)
(* behaviour looks at one of them.  What one part does to the state of another   *)
(* is among the steps of that other part's module: launches and presses in       *)
(* Telegram on the Autopilot page, and on Settings and its NAS section, which     *)
(* stay mounted below the wizard, the wizard's writes of the same settings.      *)
(*                                                                          *)
(* The parts keep their own modules; this one says that they are used side    *)
(* by side, and what the user may rely on.                                  *)
(***************************************************************************)
EXTENDS StartupMigration

CONSTANTS
  Services, LoadBearing, MaxCalls,                           \* ServicePages
  Pids, Critical, Requests, MaxStarts, MaxActions, MaxErrors, \* ProcessPage
  Fixes, Informational, OpenSecurity, Cards,                 \* ActionFlow
  MaxFlows, MaxChanges, MaxReads,
  MaxTerminals,                                              \* Terminals
  Tools, Required, Winget, MaxJobs,                          \* ToolInstalls
  Launches,                                                  \* ToolLaunch
  Keys, MaxEdits, MaxWrites, MaxRuns,                        \* SetupWizard
  RuleIds, Defaults, Obsolete, MaxOrders, MaxOutside,        \* RulesPage
  MaxChecks, MaxDownloads,                                   \* AutoUpdate
  MaxPresses, MaxSaveFaults, MaxPolls,                       \* SettingsPage
  Drives, MaxRows, MaxNasClicks, MaxNasFaults,               \* NasSettings
  Items, Protected, MaxTouches, MaxScans,                    \* StartupPicker
  MaxLoads, MaxInstalls, MaxNvidia, MaxVisits,               \* UpdatesPage
  MaxReviews, MaxReviewClicks                                \* ReviewPage

ASSUME ServiceAssumption == LoadBearing \subseteq Services
ASSUME ActionAssumption == Informational \subseteq Fixes /\ OpenSecurity \notin Fixes
ASSUME RuleAssumption == Defaults \cap Obsolete = {} /\ Defaults \cup Obsolete = RuleIds
ASSUME ToolAssumption == Required \subseteq Tools /\ Winget \subseteq Tools
ASSUME BoundAssumption == {MaxTerminals, MaxChanges, MaxRows} \subseteq Nat
ASSUME ReviewAssumption == MaxReviews \in Nat \ {0}

VARIABLES
  scene,  \* what this behaviour looks at
  page, loading, dialog, dryRuns, busy, calls, toast, closing, rows, undos, undone,
  alive, asked, processes, suspendedPids, confirming, affinityFor, busyPid, actions,
  done, errors,
  findings, changes, cards, reads, due, skipped, running, flows, resultModal,
  confirmFor, detail,
  strict, mounted, begun, starts, sessions, procs, exits, timers, injected, leftEarly,
  quit,
  place, present, statuses, installing, marked, bulkInstalling, upgrading,
  bulkUpgrading, warned, jobs, outside,
  found, child, queued, timer, shell, told, answers,
  stored, before, step, shown, ready, loaded, clicked, context, writes, touched,
  lastWord, edits, runs,
  ruleOn, asleep, rulesShown, busyRule, orders, lists, listLost, outsiders,
  updater, checking, downloads, downloaded, offered, installed, updateShown, asking,
  news, checks, loads,
  kept, copy, sends, connecting, panelBusy, tgTestPending, tests, clock, lastGood,
  presses, saveFaults, lost, overwritten,
  host, rowsOf, nasDirty, nasAnswers, nasStored, mirror, amiss, crossed, wizardRows,
  outdated, nasClicks, nasFaults,
  autostart, listedItems, picker, picks, stars, allowed, config, savingStars, ticked,
  starred, configCame, touches, scans,
  visit, installsDone, listShown, listLoading, listFailed, readings, wuConfirm,
  wuRunning, installRuns, nvCache, nvShown, nvChecks, dellLog, dellShown, letters,
  astray, nvFaults, installsBegun, nvBegun,
  lastReview, pendingFlag, itemStates, reviewVisit, pickedDate, reviewShown,
  listedReviews, reviewLoading, reviewLoads, stateOrders, reviewRuns, given,
  reviewAstray, reviewClicks

servicesVars == <<page, loading, dialog, dryRuns, busy, calls, toast, closing, rows, undos, undone>>
processVars == <<alive, asked, processes, suspendedPids, confirming, affinityFor, busyPid, actions,
                 done, errors>>
actionVars == <<findings, changes, cards, reads, due, skipped, running, flows, resultModal,
                confirmFor, detail>>
terminalVars == <<strict, mounted, begun, starts, sessions, procs, exits, timers, injected, leftEarly,
                  quit>>
installVars == <<place, present, statuses, installing, marked, bulkInstalling, upgrading,
                 bulkUpgrading, warned, jobs, outside>>
toolVars == <<found, child, queued, timer, shell, told, answers>>
wizardVars == <<stored, before, step, shown, ready, loaded, clicked, context, writes, touched,
                lastWord, edits, runs>>
rulesVars == <<ruleOn, asleep, rulesShown, busyRule, orders, lists, listLost, outsiders>>
updateVars == <<updater, checking, downloads, downloaded, offered, installed, updateShown,
                asking, news, checks, loads>>
settingVars == <<kept, copy, sends, connecting, panelBusy, tgTestPending, tests, clock,
                 lastGood, presses, saveFaults, lost, overwritten>>
nasVars == <<host, rowsOf, nasDirty, nasAnswers, nasStored, mirror, amiss, crossed,
             wizardRows, outdated, nasClicks, nasFaults>>
pickerVars == <<autostart, listedItems, picker, picks, stars, allowed,
                config, savingStars, ticked, starred, configCame, touches, scans>>
updatesVars == <<visit, installsDone, listShown, listLoading, listFailed, readings, wuConfirm,
                 wuRunning, installRuns, nvCache, nvShown, nvChecks, dellLog, dellShown, letters,
                 astray, nvFaults, installsBegun, nvBegun>>
reviewVars == <<lastReview, pendingFlag, itemStates, reviewVisit, pickedDate, reviewShown,
                listedReviews, reviewLoading, reviewLoads, stateOrders, reviewRuns, given,
                reviewAstray, reviewClicks>>

Undo == INSTANCE ServicePages
Process == INSTANCE ProcessPage
Action == INSTANCE ActionFlow
Terminal == INSTANCE Terminals
Install == INSTANCE ToolInstalls
Tool == INSTANCE ToolLaunch
Wizard == INSTANCE SetupWizard
Rules == INSTANCE RulesPage
Update == INSTANCE AutoUpdate
Setting == INSTANCE SettingsPage
Nas == INSTANCE NasSettings
Picker == INSTANCE StartupPicker
Updates == INSTANCE UpdatesPage
Review == INSTANCE ReviewPage

ASSUME KeyAssumption == Keys \subseteq Wizard!AllKeys

Scenes == {"startup", "wizard", "services", "processes", "actions", "terminals",
           "installs", "tools", "rules", "updater", "settings", "nas", "picker", "updates",
           "review"}

\* Where a part may begin in several ways, it begins in one of them if nobody looks; and the
\* first alerts are those of actions whose result is shown.
Init ==
  /\ scene \in Scenes
  /\ StInit /\ Wizard!Init /\ Undo!Init /\ Process!Init /\ Action!Init
  /\ Terminal!Init /\ Install!Init /\ Tool!Init /\ Rules!Init /\ Update!Init
  /\ Setting!Init /\ Nas!Init /\ Picker!Init /\ Updates!Init /\ Review!Init
  /\ scene = "startup" \/ \A s \in Scripts : deployed[s] = 1
  /\ scene = "wizard" \/ step = 0
  /\ \A i \in Cards : findings[i] \in Informational
  /\ scene = "terminals" \/ ~strict
  /\ scene = "installs" \/ (present = {} /\ place = "splash")
  /\ scene = "tools" \/ \A l \in Launches : found[l] = "not"
  /\ scene = "settings" \/ copy["tg_on"] = 0
  /\ scene = "picker" \/ (listedItems = {} /\ allowed = {})

\* The parts that nobody looks at stay as they are; so a setting that two parts write is
\* followed in each of them by itself, the other part's writes being steps of it.
Frame ==
  /\ UNCHANGED scene
  /\ IF scene = "startup" THEN TRUE ELSE UNCHANGED stVars
  /\ IF scene = "wizard" THEN TRUE ELSE UNCHANGED wizardVars
  /\ IF scene = "services" THEN TRUE ELSE UNCHANGED servicesVars
  /\ IF scene = "processes" THEN TRUE ELSE UNCHANGED processVars
  /\ IF scene = "actions" THEN TRUE ELSE UNCHANGED actionVars
  /\ IF scene = "terminals" THEN TRUE ELSE UNCHANGED terminalVars
  /\ IF scene = "installs" THEN TRUE ELSE UNCHANGED installVars
  /\ IF scene = "tools" THEN TRUE ELSE UNCHANGED toolVars
  /\ IF scene = "rules" THEN TRUE ELSE UNCHANGED rulesVars
  /\ IF scene = "updater" THEN TRUE ELSE UNCHANGED updateVars
  /\ IF scene = "settings" THEN TRUE ELSE UNCHANGED settingVars
  /\ IF scene = "nas" THEN TRUE ELSE UNCHANGED nasVars
  /\ IF scene = "picker" THEN TRUE ELSE UNCHANGED pickerVars
  /\ IF scene = "updates" THEN TRUE ELSE UNCHANGED updatesVars
  /\ IF scene = "review" THEN TRUE ELSE UNCHANGED reviewVars

OfStartup == scene = "startup" /\ StNext /\ Frame
OfWizard == scene = "wizard" /\ Wizard!Next /\ Frame
OfServices == scene = "services" /\ Undo!Next /\ Frame
OfProcesses == scene = "processes" /\ Process!Next /\ Frame
OfActions == scene = "actions" /\ Action!Next /\ Frame
OfTerminals == scene = "terminals" /\ Terminal!Next /\ Frame
OfInstalls == scene = "installs" /\ Install!Next /\ Frame
OfTools == scene = "tools" /\ Tool!Next /\ Frame
OfRules == scene = "rules" /\ Rules!Next /\ Frame
OfUpdater == scene = "updater" /\ Update!Next /\ Frame
OfSettings == scene = "settings" /\ Setting!Next /\ Frame
OfNas == scene = "nas" /\ Nas!Next /\ Frame
OfPicker == scene = "picker" /\ Picker!Next /\ Frame
OfUpdates == scene = "updates" /\ Updates!Next /\ Frame
OfReview == scene = "review" /\ Review!Next /\ Frame

Next ==
  \/ OfStartup \/ OfWizard \/ OfServices \/ OfProcesses \/ OfActions \/ OfTerminals
  \/ OfInstalls \/ OfTools \/ OfRules \/ OfUpdater \/ OfSettings \/ OfNas \/ OfPicker
  \/ OfUpdates \/ OfReview

vars == <<scene, stVars, wizardVars, servicesVars, processVars, actionVars,
          terminalVars, installVars, toolVars, rulesVars, updateVars, settingVars,
          nasVars, pickerVars, updatesVars, reviewVars>>

Spec == Init /\ [][Next]_vars

(***************************************************************************)
(* Fairness.  A behaviour has one scene, so the duties of different scenes can *)
(* share a number.  Calls of one scene share a number too where there are only *)
(* so many of them: if some call is answered as long as one is open, all are. *)
(***************************************************************************)
\* Rows of an elevated script nobody waits for are registered in the end.
StartupDuty(n) == n = 1 /\ LateRow

\* Every call of the Services page and the Undo Center is answered (by its timeout if by
\* nothing else), and the timers of the toast fire.
ServicesDuty(n) ==
  \/ n = 1 /\ Undo!Listed
  \/ \E ok \in BOOLEAN :
       \/ n = 2 /\ \E c \in Undo!Calls : Undo!CallAnswers(c, ok)
       \/ n = 2 /\ \E u \in undos : Undo!ToastUndoAnswers(u, ok) \/ Undo!CenterUndoAnswers(u, ok)
  \/ n = 3 /\ (Undo!ToastExpires \/ Undo!ToastCloses)

\* The timer asks for the list of processes again and again, and every request is answered.
ProcessDuty(n) ==
  \/ n = 1 /\ Process!Refresh
  \/ \E r \in Requests : n = 1 + r /\ (Process!ListIsMade(r) \/ Process!ListArrives(r))

\* Every call of a flow is answered.
ActionDuty(n) == n = 1 /\ \E f \in Action!Flows : Action!FlowStep(f)

\* winget and Upgrade-Tool.ps1 come to an end, and so do the looks for a tool.
InstallDuty(n) ==
  \E j \in Install!Jobs :
    \/ n = 1 /\ \E ok \in BOOLEAN : Install!Installed(j, ok) \/ Install!Upgraded(j, ok)
    \/ n = 2 /\ Install!Looks(j) /\ jobs' # jobs

\* The handlers of the Autopilot page answer, and so do those of Settings, whose test with
\* buttons goes on asking; the ticks of the updater's section go on; the list of Windows
\* updates is read within its timeout, and a review is read.
RulesDuty(n) ==
  \/ n = 1 /\ \E ok \in BOOLEAN : Rules!ListArrives(ok)
  \/ n = 2 /\ \E o \in Rules!Orders : Rules!Answered(o) \/ \E ok \in BOOLEAN : Rules!Handled(o, ok)
UpdaterDuty(n) ==
  \/ n = 1 /\ Update!UpdateTick
  \/ n = 2 /\ Update!UpdateArrives
SettingsDuty(n) ==
  \/ n = 1 /\ Setting!SaveAnswered
  \/ \E ok \in BOOLEAN : \/ n = 1 /\ Setting!HandleSave(ok)
                         \/ n = 2 /\ Setting!TelegramTested(ok)
                         \/ n = 2 /\ \E t \in Setting!Presses : Setting!TestSent(t, ok)
  \/ n = 3 /\ \E t \in Setting!Presses : Setting!Poll(t)
UpdatesDuty(n) ==
  n = 1 /\ \E l \in DOMAIN readings :
             Updates!ListIsRead(l) \/ \E ok \in BOOLEAN : Updates!ListAnswers(l, ok)
ReviewDuty(n) == n = 1 /\ \E l \in reviewLoads : Review!LoadStep(l)

Duty(n) ==
  /\ UNCHANGED scene
  /\ \/ scene = "startup" /\ StartupDuty(n)
     \/ scene = "services" /\ ServicesDuty(n)
     \/ scene = "processes" /\ ProcessDuty(n)
     \/ scene = "actions" /\ ActionDuty(n)
     \/ scene = "installs" /\ InstallDuty(n)
     \/ scene = "rules" /\ RulesDuty(n)
     \/ scene = "updater" /\ UpdaterDuty(n)
     \/ scene = "settings" /\ SettingsDuty(n)
     \/ scene = "updates" /\ UpdatesDuty(n)
     \/ scene = "review" /\ ReviewDuty(n)

\* A poll of a test with buttons is answered after the deadline at some time, if polls go on.
DeadlinePasses ==
  /\ UNCHANGED scene
  /\ scene = "settings" /\ \E t \in Setting!Presses : Setting!PollAnswered(t, TRUE)

\* The state of the part that the behaviour looks at.
Seen == CASE scene = "startup" -> stVars
          [] scene = "services" -> servicesVars
          [] scene = "processes" -> processVars
          [] scene = "actions" -> actionVars
          [] scene = "installs" -> installVars
          [] scene = "rules" -> rulesVars
          [] scene = "updater" -> updateVars
          [] scene = "settings" -> settingVars
          [] scene = "updates" -> updatesVars
          [] scene = "review" -> reviewVars
          [] OTHER -> <<>>

FairSpec ==
  Spec /\ (\A n \in 1..3 : WF_Seen(Duty(n))) /\ SF_Seen(DeadlinePasses)

(***************************************************************************)
(* Properties.                                                             *)
(***************************************************************************)
\* Nothing runs, is switched or is dropped that the user has not agreed to: a system process
\* is not killed or suspended without its box ticked, a card runs an action without showing
\* what it does only if the user has ticked "Don't ask again" for that very action, a rule is
\* switched on or off by its box alone, and startup entries are neither disabled nor taken
\* from the allowlist behind the user's back, and an item of a review gets a state that the
\* user gave to that very item.
NothingWithoutConsent ==
  /\ Process!CriticalIsConfirmed /\ Action!RunsWithConsent
  /\ Rules!OnlyTheUserSwitches /\ Picker!ProtectedStays /\ Picker!AllowlistIsKept
  /\ Review!StatesGoHome

\* What the pages say is true: "Reverted" was reverted, "Launched" runs, "verified" was
\* tapped, "Install" has an installer, and the rows and tiles are what is stored.
PagesTellTheTruth ==
  /\ Undo!RevertedIsTrue
  /\ [](Tool!LaunchedIsRunning /\ Setting!VerifiedIsTapped /\ Update!InstallsWhatIsThere)
  /\ [](Rules!BoxesShowTheTable /\ Updates!PageIsUpToDate /\ Review!ReviewIsTrue)

\* The programs that the window starts stay in its hands: a context is typed into the
\* terminal it was written for, no terminal's process is lost but one whose terminal was
\* closed while it was being started, and the installs of the Tools page run one after the
\* other.
ProgramsAreInHand ==
  Terminal!ContextGoesHome /\ Terminal!Reachable /\ Install!OneInstallOfThePage

\* What the user has chosen is what is stored.  A run of the wizard stores what its steps
\* showed when they were left, and changes neither the choice of a NAS nor the rules unless
\* the user does; Settings shows what it has saved, but for what the wizard has stored over
\* the mounted page since; and the scanner's copy of the NAS is the one that is stored,
\* without two shares for one drive unless the wizard was given them.
ChoicesAreKept ==
  /\ Wizard!ChoicesAreKept /\ Wizard!LastWordIsStored
  /\ Setting!ShownIsStored
  /\ Nas!OneShareOfADrive /\ Nas!MirrorIsStored /\ Nas!CleanIsStored

NothingIsBusy ==
  /\ scene = "services" => busy = {}
  /\ scene = "actions" => running = "none"
  /\ scene = "installs" => installing = {} /\ ~bulkInstalling
  /\ scene = "rules" => busyRule = {}
  /\ scene = "settings" => connecting = "no" /\ ~panelBusy
NothingLoads ==
  /\ scene = "services" => ~loading
  /\ scene = "installs" => upgrading = {} /\ ~bulkUpgrading
  /\ scene = "updates" => ~listLoading
  /\ scene = "review" => ~reviewLoading
NothingIsOpen ==
  /\ scene = "services" => toast = Undo!None
  /\ scene = "settings" => ~tgTestPending

\* The pages come back whatever their calls answer: no row, button or list stays busy, the
\* toast and the test with buttons end, once no process starts or ends any more the rows
\* are the processes there are, and once the updater rests the page shows its status, in
\* whatever order lists and answers came.
PagesComeBack ==
  /\ []<>NothingIsBusy
  /\ []<>NothingLoads
  /\ []<>NothingIsOpen
  /\ <>[](scene = "processes" => Process!Settled)
  /\ <>[](scene = "updater" => Update!CopyIsCurrent)
=============================================================================
