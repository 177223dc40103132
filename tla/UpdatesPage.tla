----------------------------- MODULE UpdatesPage -----------------------------
(***************************************************************************)
(* The page Windows Updates (Updates.tsx): the list of pending updates, whose   *)
(* reading takes up to two minutes, installs, and the tiles of the Nvidia and    *)
(* Dell drivers.  The tiles outlive the page: Nvidia's in the setting           *)
(* nvidia_check_cache, Dell's in the last successful run of actions_log.         *)
(*                                                                          *)
(* The user may leave the page and come back while anything is on its way; an   *)
(* answer for a page that is gone shows nowhere.  Versions are counted: what    *)
(* the list says is the number of installs that had ended when it was read.     *)
(***************************************************************************)
EXTENDS Integers, Sequences

CONSTANTS
  MaxLoads,    \* bound on readings of the list
  MaxInstalls, \* bound on installs
  MaxNvidia,   \* bound on checks of the Nvidia driver
  MaxVisits    \* bound on visits of the page

VARIABLES
  visit,       \* which mount of the page is shown
  installsDone, \* installs that have ended
  listShown,   \* data: installs that had ended when it was read, or -1
  listLoading, \* loading
  listFailed,  \* error: it hides the page, buttons and all
  readings,    \* calls of getWindowsUpdateDetail
  wuConfirm,   \* the dialog of the install that waits for the user
  wuRunning,   \* running of the page's useAction
  installRuns, \* runs on their way
  nvCache,     \* nvidia_check_cache
  nvShown,     \* nvInfo
  nvChecks,    \* checks on their way
  dellLog,     \* the last successful Dell run of actions_log
  dellShown,   \* dellLastResult
  letters,     \* short answers on their way to a page, in their order
  astray,      \* history: parts that an answer has missed since they were last read
  nvFaults, installsBegun, nvBegun

updatesVars == <<visit, installsDone, listShown, listLoading, listFailed, readings, wuConfirm,
                 wuRunning, installRuns, nvCache, nvShown, nvChecks, dellLog, dellShown, letters,
                 astray, nvFaults, installsBegun, nvBegun>>

WuActions == {"dell", "windows"}
Reading(to, then) == [to |-> to, then |-> then, seen |-> -1]

\* The page is mounted: it asks for the list, and for the settings.
Init ==
  /\ visit = 1 /\ installsDone = 0
  /\ listShown = -1 /\ listLoading = TRUE /\ listFailed = FALSE
  /\ readings = <<Reading(1, FALSE)>>
  /\ wuConfirm = "none" /\ wuRunning = "none" /\ installRuns = {}
  /\ nvCache = 0 /\ nvShown = 0 /\ nvChecks = {}
  /\ dellLog = 0 /\ dellShown = 0
  /\ letters = <<[is |-> "settings", to |-> 1, nv |-> 0]>>
  /\ astray = {} /\ nvFaults = 0 /\ installsBegun = 0 /\ nvBegun = 0

WuUsable == ~listLoading /\ ~listFailed /\ wuConfirm = "none"

(***************************************************************************)
(* The list.                                                               *)
(***************************************************************************)
UnderWay == {l \in DOMAIN readings : readings[l].to = visit}

Load(to, then) ==
  /\ Len(readings) < MaxLoads
  /\ readings' = Append(readings, Reading(to, then))

\* load: two readings of one page that are under way at once may be answered in any order.
ListAstray == IF UnderWay = {} THEN astray \ {"list"} ELSE astray \cup {"list"}

Over == [to |-> 0, then |-> FALSE, seen |-> -1]

RefreshList ==
  /\ WuUsable /\ listLoading' = TRUE
  /\ Load(visit, FALSE) /\ astray' = ListAstray
  /\ UNCHANGED <<visit, installsDone, listShown, listFailed, wuConfirm, wuRunning, installRuns,
                 nvCache, nvShown, nvChecks, dellLog, dellShown, letters, nvFaults,
                 installsBegun, nvBegun>>

\* Get-WindowsUpdateDetail.ps1 looks at the machine.
ListIsRead(l) ==
  /\ readings[l].to # 0 /\ readings[l].seen = -1
  /\ readings' = [readings EXCEPT ![l].seen = installsDone]
  /\ UNCHANGED <<visit, installsDone, listShown, listLoading, listFailed, wuConfirm, wuRunning,
                 installRuns, nvCache, nvShown, nvChecks, dellLog, dellShown, letters, astray,
                 nvFaults, installsBegun, nvBegun>>

\* filterRendererSafeSettings lets the cache through.
SafeNv == nvCache

\* loadDriverStaleness begins: the settings are read at once.
SettingsLetter(to) == [is |-> "settings", to |-> to, nv |-> SafeNv]

\* getLastActionResult reads the last successful run.
DellLetter(to) == [is |-> "dell", to |-> to, dell |-> dellLog]

\* What checkNvidia shows of its check.
NvidiaLetter(c) == [is |-> "nvidia", to |-> c.of, nv |-> c.version]

\* The cache, if there is one, will be shown.
Refreshed(parts) == IF nvCache = 0 THEN parts ELSE parts \ {"nv"}

\* The list arrives, or its error; the flow of an install goes on with the tiles.
ListAnswers(l, ok) ==
  /\ readings[l].seen >= 0
  /\ LET r == readings[l] IN
     /\ IF r.to = visit
        THEN /\ listShown' = IF ok THEN r.seen ELSE listShown
             /\ listFailed' = ~ok /\ listLoading' = FALSE
        ELSE UNCHANGED <<listShown, listFailed, listLoading>>
     /\ letters' = IF r.then THEN Append(letters, SettingsLetter(r.to)) ELSE letters
     /\ astray' = IF r.then /\ r.to = visit THEN Refreshed(astray) ELSE astray
  /\ readings' = [readings EXCEPT ![l] = Over]
  /\ UNCHANGED <<visit, installsDone, wuConfirm, wuRunning, installRuns, nvCache, nvShown,
                 nvChecks, dellLog, dellShown, nvFaults, installsBegun, nvBegun>>

(***************************************************************************)
(* Installs.                                                               *)
(***************************************************************************)
ClickInstall(a) ==
  /\ WuUsable /\ wuRunning = "none" /\ installsBegun < MaxInstalls
  /\ wuConfirm' = a
  /\ UNCHANGED <<visit, installsDone, listShown, listLoading, listFailed, readings, wuRunning,
                 installRuns, nvCache, nvShown, nvChecks, dellLog, dellShown, letters, astray,
                 nvFaults, installsBegun, nvBegun>>

\* The answer of the dialog.
ConfirmInstall(yes) ==
  /\ wuConfirm # "none" /\ wuConfirm' = "none"
  /\ IF yes
     THEN /\ installsBegun' = installsBegun + 1
          /\ installRuns' = installRuns \cup {[run |-> installsBegun', action |-> wuConfirm,
                                               of |-> visit]}
          /\ wuRunning' = wuConfirm
     ELSE UNCHANGED <<installsBegun, installRuns, wuRunning>>
  /\ UNCHANGED <<visit, installsDone, listShown, listLoading, listFailed, readings, nvCache,
                 nvShown, nvChecks, dellLog, dellShown, letters, astray, nvFaults, nvBegun>>

\* The run ends, done or failed; what it changed is in the machine and in actions_log.  The
\* flow goes on with load, on the page or on the one it was.
InstallEnds(r, ok) ==
  /\ r \in installRuns /\ installRuns' = installRuns \ {r}
  /\ installsDone' = installsDone + 1
  /\ dellLog' = IF ok /\ r.action = "dell" THEN r.run ELSE dellLog
  /\ wuRunning' = IF r.of = visit THEN "none" ELSE wuRunning
  /\ listLoading' = (listLoading \/ r.of = visit)
  /\ Load(r.of, TRUE)
  /\ astray' = IF r.of = visit THEN ListAstray ELSE astray \cup {"list", "dell"}
  /\ UNCHANGED <<visit, listShown, listFailed, wuConfirm, nvCache, nvShown, nvChecks, dellShown,
                 letters, nvFaults, installsBegun, nvBegun>>

(***************************************************************************)
(* The tiles.                                                              *)
(***************************************************************************)
\* checkNvidia: nothing keeps the user from a second check.
CheckNvidia ==
  /\ WuUsable /\ nvBegun < MaxNvidia /\ nvBegun' = nvBegun + 1
  /\ nvChecks' = nvChecks \cup {[version |-> nvBegun', of |-> visit]}
  /\ UNCHANGED <<visit, installsDone, listShown, listLoading, listFailed, readings, wuConfirm,
                 wuRunning, installRuns, nvCache, nvShown, dellLog, dellShown, letters, astray,
                 nvFaults, installsBegun>>

\* The handler writes the cache, which may fail in silence, and answers; or it has an error.
NvidiaEnds(c, outcome) ==
  /\ c \in nvChecks /\ nvChecks' = nvChecks \ {c}
  /\ outcome \in {"cached", "uncached", "error"}
  /\ nvFaults' = IF outcome = "uncached" THEN nvFaults + 1 ELSE nvFaults
  /\ outcome = "uncached" => nvFaults < 1
  /\ nvCache' = IF outcome = "cached" THEN c.version ELSE nvCache
  /\ letters' = IF outcome = "error" THEN letters
                ELSE Append(letters, NvidiaLetter(c))
  /\ astray' = CASE outcome = "error" -> astray
                 [] outcome = "cached" /\ c.of = visit -> astray \ {"nv"}
                 [] OTHER -> astray \cup {"nv"}
  /\ UNCHANGED <<visit, installsDone, listShown, listLoading, listFailed, readings, wuConfirm,
                 wuRunning, installRuns, nvShown, dellLog, dellShown, installsBegun, nvBegun>>

\* What an answer has to say of a tile: nothing, if nothing was ever kept.
SaysNv(m) == m.is \in {"settings", "nvidia"} /\ m.nv # 0
SaysDell(m) == m.is = "dell" /\ m.dell # 0

\* The tiles that stay as they are because an answer for them is a failure.
Unsaid(m) == (IF SaysNv(m) THEN {"nv"} ELSE {}) \cup (IF SaysDell(m) THEN {"dell"} ELSE {})

\* A short answer arrives, or its failure, which is dropped in silence (that of a check is
\* NvidiaEnds').  That of the settings shows the cache, if there is one, and either way the
\* page asks for the Dell run next, which is read at once.
LetterArrives(ok) ==
  /\ letters # <<>>
  /\ LET m == Head(letters)
         here == m.to = visit
         asked == IF m.is = "settings" THEN astray \ {"dell"} ELSE astray
     IN /\ m.is = "nvidia" => ok
        /\ nvShown' = IF here /\ ok /\ SaysNv(m) THEN m.nv ELSE nvShown
        /\ dellShown' = IF here /\ ok /\ SaysDell(m) THEN m.dell ELSE dellShown
        /\ letters' = IF m.is = "settings"
                      THEN Append(Tail(letters), DellLetter(m.to))
                      ELSE Tail(letters)
        /\ astray' = IF ~here THEN astray ELSE IF ok THEN asked ELSE asked \cup Unsaid(m)
  /\ UNCHANGED <<visit, installsDone, listShown, listLoading, listFailed, readings, wuConfirm,
                 wuRunning, installRuns, nvCache, nvChecks, dellLog, nvFaults, installsBegun,
                 nvBegun>>

\* The user leaves the page and comes back: everything it kept is gone, the runs go on.
ComeBack ==
  /\ visit < MaxVisits /\ wuConfirm = "none" /\ visit' = visit + 1
  /\ Load(visit', FALSE) /\ astray' = Refreshed(astray \ {"list"})
  /\ listShown' = -1 /\ listLoading' = TRUE /\ listFailed' = FALSE /\ wuRunning' = "none"
  /\ nvShown' = 0 /\ dellShown' = 0
  /\ letters' = Append(letters, SettingsLetter(visit'))
  /\ UNCHANGED <<installsDone, wuConfirm, installRuns, nvCache, nvChecks, dellLog, nvFaults,
                 installsBegun, nvBegun>>

Next ==
  \/ RefreshList \/ CheckNvidia \/ ComeBack
  \/ \E ok \in BOOLEAN : LetterArrives(ok)
  \/ \E a \in WuActions : ClickInstall(a)
  \/ \E yes \in BOOLEAN : ConfirmInstall(yes)
  \/ \E l \in DOMAIN readings : ListIsRead(l) \/ \E ok \in BOOLEAN : ListAnswers(l, ok)
  \/ \E r \in installRuns, ok \in BOOLEAN : InstallEnds(r, ok)
  \/ \E c \in nvChecks, outcome \in {"cached", "uncached", "error"} : NvidiaEnds(c, outcome)

Spec == Init /\ [][Next]_updatesVars

(***************************************************************************)
(* Properties.                                                             *)
(***************************************************************************)
Settled == UnderWay = {} /\ letters = <<>> /\ \A r \in installRuns : r.of # visit

\* Once its calls are answered the page shows what there is: the updates that are left
\* after the last install, the Nvidia check that is kept, and the last Dell run that
\* succeeded.  What it can miss is known: the end of an install or check that was begun
\* before the user left, a check that could not be kept, a list of which two readings
\* overlapped, and a tile whose answer was a failure, until the page asks for it again.
PageIsUpToDate ==
  Settled =>
    /\ "list" \in astray \/ listFailed \/ listShown = installsDone
    /\ "nv" \in astray \/ nvShown = nvCache
    /\ "dell" \in astray \/ dellShown = dellLog

(***************************************************************************)
(* Inductive invariant.                                                    *)
(***************************************************************************)
Parts == {"list", "nv", "dell"}
LetterType ==
  [is : {"settings", "nvidia"}, to : Nat, nv : Nat] \cup [is : {"dell"}, to : Nat, dell : Nat]

TypeOK ==
  /\ visit \in Nat \ {0} /\ installsDone \in Nat /\ listShown \in Nat \cup {-1}
  /\ listLoading \in BOOLEAN /\ listFailed \in BOOLEAN
  /\ readings \in Seq([to : Nat, then : BOOLEAN, seen : Nat \cup {-1}])
  /\ wuConfirm \in WuActions \cup {"none"} /\ wuRunning \in WuActions \cup {"none"}
  /\ installRuns \subseteq [run : Nat \ {0}, action : WuActions, of : Nat]
  /\ nvChecks \subseteq [version : Nat \ {0}, of : Nat]
  /\ nvCache \in Nat /\ nvShown \in Nat /\ dellLog \in Nat /\ dellShown \in Nat
  /\ letters \in Seq(LetterType) /\ astray \subseteq Parts
  /\ nvFaults \in Nat /\ installsBegun \in Nat /\ nvBegun \in Nat

\* Nothing is on its way to a page that the user did not open yet.
NothingComesEarly ==
  /\ \A l \in DOMAIN readings : readings[l].to <= visit
  /\ \A i \in DOMAIN letters : letters[i].to <= visit
  /\ \A r \in installRuns : r.of <= visit
  /\ \A c \in nvChecks : c.of <= visit

\* The list: what was read for the page, or is shown if nothing is, is what there is.
ListFollows ==
  "list" \notin astray =>
    /\ \A l \in UnderWay : readings[l].seen \in {-1, installsDone}
    /\ UnderWay = {} => listFailed \/ listShown = installsDone

\* Nvidia: the last answer that says something says what is kept.
NvLetters ==
  {i \in DOMAIN letters : /\ letters[i].to = visit /\ letters[i].is \in {"settings", "nvidia"}
                          /\ letters[i].nv # 0}
NvFollows ==
  "nv" \notin astray =>
    /\ NvLetters = {} => nvShown = nvCache
    /\ \A i \in NvLetters : (\A j \in NvLetters : j <= i) => letters[i].nv = nvCache

\* Dell: the page will ask for the last run, or the last answer that says something is it.
DellWillBeAsked ==
  \/ \E l \in UnderWay : readings[l].then
  \/ \E i \in DOMAIN letters : letters[i].to = visit /\ letters[i].is = "settings"
DellLetters ==
  {i \in DOMAIN letters : letters[i].to = visit /\ letters[i].is = "dell" /\ letters[i].dell # 0}
DellFollows ==
  /\ "dell" \in astray \/ DellWillBeAsked \/
       /\ DellLetters = {} => dellShown = dellLog
       /\ \A i \in DellLetters : (\A j \in DellLetters : j <= i) => letters[i].dell = dellLog
  /\ dellLog = 0 => dellShown = 0 /\ \A i \in DOMAIN letters : letters[i].is = "dell" => letters[i].dell = 0

UpdatesInv == TypeOK /\ NothingComesEarly /\ ListFollows /\ NvFollows /\ DellFollows
=============================================================================
