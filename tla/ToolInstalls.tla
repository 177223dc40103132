---------------------------- MODULE ToolInstalls ----------------------------
(***************************************************************************)
(* Installing and upgrading the external tools: the splash of the first      *)
(* start (FirstRunToolsSplash.tsx), and the Tools page (Tools.tsx with the    *)
(* hook useTools.ts).                                                       *)
(*                                                                          *)
(* A job is one call of onInstall, onInstallAll, onInstallAllRequired,        *)
(* onUpgrade or onUpgradeAll.  It goes on when its page is left; what the     *)
(* page showed of it is forgotten.                                          *)
(***************************************************************************)
EXTENDS Integers, FiniteSets

CONSTANTS
  Tools,      \* the external tools
  Required,   \* those the dashboard needs, offered by the splash
  Winget,     \* those winget installs; the others are downloaded to their path
  MaxJobs,    \* bound on the jobs
  MaxChanges  \* bound on what the user installs or removes outside

Jobs == 1..MaxJobs

VARIABLES
  place,          \* what is mounted: the splash, the Tools page, or neither
  present,        \* the tools that are found on this machine
  statuses,       \* the tools the mounted component takes for installed
  installing,     \* installStates of the splash, installing of the hook
  marked,         \* manuallyMarked of the splash
  bulkInstalling,
  upgrading,
  bulkUpgrading,
  warned,         \* showSkipWarning of the splash
  jobs,
  outside         \* history: tools installed or removed outside

marks == <<installing, marked, bulkInstalling, upgrading, bulkUpgrading, warned>>
vars == <<place, present, statuses, marks, jobs, outside>>

NoJob == [by |-> "none", from |-> "none", tool |-> "none", rest |-> {}, phase |-> "new", here |-> FALSE]
Over == [NoJob EXCEPT !.phase = "over"]

\* A mount forgets what another one knew; nothing is taken for installed until the list is
\* there, which the page waits for.
Mounted(p) ==
  /\ place' = p
  /\ statuses' = present
  /\ installing' = {} /\ marked' = {} /\ bulkInstalling' = FALSE
  /\ upgrading' = {} /\ bulkUpgrading' = FALSE /\ warned' = FALSE

Init ==
  /\ present \in SUBSET Tools /\ statuses = present
  /\ place \in {"away", "splash"}
  /\ installing = {} /\ marked = {} /\ bulkInstalling = FALSE
  /\ upgrading = {} /\ bulkUpgrading = FALSE /\ warned = FALSE
  /\ jobs = [j \in Jobs |-> NoJob]
  /\ outside = 0

\* The user installs or removes a tool.
Outside(t) ==
  /\ outside < MaxChanges /\ outside' = outside + 1
  /\ present' = IF t \in present THEN present \ {t} ELSE present \cup {t}
  /\ UNCHANGED <<place, statuses, marks, jobs>>

(***************************************************************************)
(* Jobs begin.                                                             *)
(***************************************************************************)
Begin(by, t, rest) ==
  \E j \in Jobs :
    /\ jobs[j] = NoJob /\ \A i \in Jobs : i < j => jobs[i] # NoJob
    /\ jobs' = [jobs EXCEPT ![j] = [by |-> by, from |-> place, tool |-> t,
                                    rest |-> rest, phase |-> "installer", here |-> TRUE]]

\* The first of the targets, the others being still to come.
BeginAll(targets) ==
  /\ targets # {} /\ bulkInstalling' = TRUE
  /\ \E t \in targets : /\ Begin("all", t, targets \ {t})
                        /\ installing' = installing \cup {t}

\* The splash: a row is disabled by its own install only.
SplashInstall(t) ==
  /\ place = "splash"
  /\ t \in (Required \cap Winget) \ statuses /\ t \notin installing
  /\ Begin("row", t, {}) /\ installing' = installing \cup {t}
  /\ UNCHANGED <<place, present, statuses, marked, bulkInstalling, upgrading,
                 bulkUpgrading, warned, outside>>

SplashInstallAll ==
  /\ place = "splash" /\ ~bulkInstalling
  /\ BeginAll(((Required \cap Winget) \ statuses) \ marked)
  /\ UNCHANGED <<place, present, statuses, marked, upgrading, bulkUpgrading, warned, outside>>

\* What disables every tile of the Tools page.
Working == installing # {} \/ bulkInstalling \/ upgrading # {} \/ bulkUpgrading

TileInstall(t) ==
  /\ place = "tools" /\ ~Working
  /\ t \in Winget \ statuses
  /\ Begin("row", t, {}) /\ installing' = installing \cup {t}
  /\ UNCHANGED <<place, present, statuses, marked, bulkInstalling, upgrading,
                 bulkUpgrading, warned, outside>>

\* Upgrades do not disable it.
InstallAllMissing ==
  /\ place = "tools" /\ ~bulkInstalling /\ installing = {}
  /\ BeginAll(Tools \ statuses)
  /\ UNCHANGED <<place, present, statuses, marked, upgrading, bulkUpgrading, warned, outside>>

Upgrade(t) ==
  /\ place = "tools" /\ ~Working
  /\ t \in Winget \cap statuses
  /\ Begin("upgrade", t, {}) /\ upgrading' = upgrading \cup {t}
  /\ UNCHANGED <<place, present, statuses, installing, marked, bulkInstalling,
                 bulkUpgrading, warned, outside>>

\* Installs do not disable it.
UpgradeAll ==
  /\ place = "tools" /\ ~bulkUpgrading /\ upgrading = {}
  /\ Begin("upgrade all", "none", {}) /\ bulkUpgrading' = TRUE
  /\ UNCHANGED <<place, present, statuses, installing, marked, bulkInstalling,
                 upgrading, warned, outside>>

(***************************************************************************)
(* Jobs go on.                                                             *)
(***************************************************************************)
\* What the page of a job shows is changed by a job of its own mount only.
Unmark(j) == installing' = IF jobs[j].here THEN installing \ {jobs[j].tool} ELSE installing

\* The install of a tool is over, whatever it answered: the round goes on with the next
\* one, or ends.
Goes(j) ==
  LET next == jobs[j].rest IN
  IF next # {}
  THEN /\ \E t \in next :
            /\ jobs' = [jobs EXCEPT ![j].tool = t, ![j].rest = next \ {t}, ![j].phase = "installer"]
            /\ installing' = IF jobs[j].here THEN (installing \ {jobs[j].tool}) \cup {t} ELSE installing
       /\ UNCHANGED bulkInstalling
  ELSE /\ jobs' = [jobs EXCEPT ![j] = Over]
       /\ Unmark(j)
       /\ bulkInstalling' = IF jobs[j].here /\ jobs[j].by = "all" THEN FALSE ELSE bulkInstalling

\* installTool is answered: winget has ended, or the download.  The splash asks for the
\* list once and the mark goes; the hook keeps the mark and looks until the tool is found.
Installed(j, ok) ==
  /\ jobs[j].phase = "installer" /\ jobs[j].by \in {"row", "all"}
  /\ present' \in IF ok THEN {present, present \cup {jobs[j].tool}} ELSE {present}
  /\ IF ok
     THEN /\ jobs' = [jobs EXCEPT ![j].phase = "looks"]
          /\ IF jobs[j].from = "splash" THEN Unmark(j) ELSE UNCHANGED installing
          /\ UNCHANGED bulkInstalling
     ELSE Goes(j)
  /\ UNCHANGED <<place, statuses, marked, upgrading, bulkUpgrading, warned, outside>>

\* The list is there.  In the splash, and after forty times, the install is over anyway.
Looks(j) ==
  /\ jobs[j].phase = "looks"
  /\ statuses' = IF jobs[j].here THEN present ELSE statuses
  /\ \/ Goes(j)
     \/ /\ jobs[j].from # "splash" /\ jobs[j].tool \notin present
        /\ UNCHANGED <<jobs, installing, bulkInstalling>>
  /\ UNCHANGED <<place, present, marked, upgrading, bulkUpgrading, warned,
                 outside>>

\* Upgrade-Tool.ps1 is answered; after a success the list is asked for again.
Upgraded(j, ok) ==
  /\ jobs[j].phase = "installer" /\ jobs[j].by \in {"upgrade", "upgrade all"}
  /\ jobs' = [jobs EXCEPT ![j] = Over]
  /\ upgrading' = IF jobs[j].here THEN upgrading \ {jobs[j].tool} ELSE upgrading
  /\ bulkUpgrading' = IF jobs[j].here /\ jobs[j].by = "upgrade all" THEN FALSE ELSE bulkUpgrading
  /\ statuses' = IF jobs[j].here /\ ok THEN present ELSE statuses
  /\ UNCHANGED <<place, present, installing, marked, bulkInstalling, warned,
                 outside>>

JobStep(j) ==
  \/ Looks(j) \/ \E ok \in BOOLEAN : Installed(j, ok) \/ Upgraded(j, ok)

(***************************************************************************)
(* The pages.                                                              *)
(***************************************************************************)
Refresh ==
  /\ place # "away" /\ (place = "splash" => ~bulkInstalling)
  /\ statuses' = present
  /\ UNCHANGED <<place, present, marks, jobs, outside>>

ToggleMarked(t) ==
  /\ place = "splash" /\ t \in Required \ statuses
  /\ marked' = IF t \in marked THEN marked \ {t} ELSE marked \cup {t}
  /\ UNCHANGED <<place, present, statuses, installing, bulkInstalling, upgrading,
                 bulkUpgrading, warned, jobs, outside>>

AllRequiredSatisfied == Required \subseteq statuses \cup marked

Forgotten == jobs' = [j \in Jobs |-> [jobs[j] EXCEPT !.here = FALSE]]

\* Continue, or Skip and its warning: the overlay goes at once.  The setting written behind
\* it says only whether the next start begins with the splash.
Finish ==
  /\ place = "splash" /\ (AllRequiredSatisfied \/ warned)
  /\ Mounted("away") /\ Forgotten
  /\ UNCHANGED <<present, outside>>

\* Skip shows the warning; Cancel takes it away.
Skip ==
  /\ place = "splash" /\ (~warned => ~AllRequiredSatisfied)
  /\ warned' = ~warned
  /\ UNCHANGED <<place, present, statuses, installing, marked, bulkInstalling, upgrading,
                 bulkUpgrading, jobs, outside>>

\* The sidebar, or the button of the Settings page that shows the splash again.
Navigate ==
  /\ place # "splash"
  /\ \/ place = "tools" /\ Mounted("away")
     \/ place = "away" /\ (Mounted("tools") \/ Mounted("splash"))
  /\ Forgotten
  /\ UNCHANGED <<present, outside>>

Next ==
  \/ \E t \in Tools : \/ Outside(t) \/ SplashInstall(t) \/ TileInstall(t) \/ Upgrade(t)
                      \/ ToggleMarked(t)
  \/ SplashInstallAll \/ InstallAllMissing \/ UpgradeAll
  \/ \E j \in Jobs : JobStep(j)
  \/ Refresh \/ Finish \/ Skip \/ Navigate

Spec == Init /\ [][Next]_vars

(***************************************************************************)
(* Properties.                                                             *)
(***************************************************************************)
Running(p) ==
  {j \in Jobs : place = p /\ jobs[j].here /\ jobs[j].by \in {"row", "all"}
                /\ jobs[j].phase = "installer"}

\* "winget doesn't handle concurrent installs well": what is begun on one visit of the
\* Tools page runs one after the other, between the tools of a round as well.
OneInstallOfThePage == Cardinality(Running("tools")) <= 1

(***************************************************************************)
(* Inductive invariant.                                                    *)
(***************************************************************************)
Installs == {"row", "all"}

JobFields ==
  [by : Installs \cup {"none", "upgrade", "upgrade all"},
   from : {"none", "away", "splash", "tools"}, tool : Tools \cup {"none"},
   rest : SUBSET Tools, phase : {"new", "installer", "looks", "over"}, here : BOOLEAN]

JobType ==
  {job \in JobFields : /\ job.by \in Installs => job.tool \in Tools
                       /\ job.phase = "looks" => job.by \in Installs}

TypeOK ==
  /\ place \in {"away", "splash", "tools"}
  /\ present \subseteq Tools /\ statuses \subseteq Tools
  /\ installing \subseteq Tools \cup {"none"} /\ upgrading \subseteq Tools \cup {"none"}
  /\ marked \subseteq Required
  /\ bulkInstalling \in BOOLEAN /\ bulkUpgrading \in BOOLEAN /\ warned \in BOOLEAN
  /\ jobs \in [Jobs -> JobType]
  /\ outside \in 0..MaxChanges

\* An install or a round of installs whose mount is still there.
Active(j) == jobs[j].here /\ jobs[j].by \in Installs

\* On the Tools page an install disables the next one by its mark, which stays until it is
\* over: the mark of the splash, which goes earlier, belongs to another place.
OneIsActive ==
  /\ \A j \in Jobs : jobs[j].here => jobs[j].from = place
  /\ place = "tools" =>
       \A j \in Jobs : Active(j) =>
         jobs[j].tool \in installing /\ \A i \in Jobs : Active(i) => i = j

InstallsInv == TypeOK /\ OneIsActive
=============================================================================
