----------------------------- MODULE AutoUpdate -----------------------------
(***************************************************************************)
(* Updates of the application itself: autoUpdater.ts, the four handlers of    *)
(* ipc.ts, and the section "Auto-Update" of Settings.tsx, which keeps a copy   *)
(* of the updater's status: it asks every 15 seconds, and a check or a        *)
(* download of its own brings the status that is current when it ends.        *)
(*                                                                          *)
(* electron-updater is external: a check and a download end in any of the      *)
(* events the code listens to.                                              *)
(***************************************************************************)
EXTENDS Integers, Sequences, FiniteSets

CONSTANTS
  MaxChecks,    \* bound on checks, the timer's and the user's
  MaxDownloads  \* bound on downloads

VARIABLES
  updater,     \* currentStatus of the main process
  checking,    \* checks under way: who asked, the timer or the page
  downloads,   \* the page's download calls that are under way
  downloaded,  \* an installer is on the disk
  offered,     \* the dialog "Install and Restart" is open
  installed,   \* quitAndInstall was called
  updateShown, \* updateStatus of the page
  asking,      \* inFlight: the tick waits for its answer
  news,        \* answers on their way to the page
  checks,      \* checks so far
  loads        \* downloads so far

updateVars == <<updater, checking, downloads, downloaded, offered, installed, updateShown,
                asking, news, checks, loads>>

Statuses == {"idle", "checking", "available", "downloading", "ready", "error",
             "not_available"}

Init ==
  /\ updater = "idle" /\ checking = {} /\ downloads = {} /\ downloaded = FALSE
  /\ offered = FALSE /\ installed = FALSE
  /\ updateShown = "idle" /\ asking = FALSE /\ news = <<>>
  /\ checks = 0 /\ loads = 0

(***************************************************************************)
(* The main process.                                                       *)
(***************************************************************************)
\* checkForUpdates, 30 s after the start and every six hours, or by "Check Now"; the
\* event checking-for-update comes first.
BeginCheck(by) ==
  /\ checks < MaxChecks /\ checks' = checks + 1
  /\ checking' = checking \cup {[check |-> checks', by |-> by]}
  /\ updater' = "checking"
  /\ UNCHANGED <<downloads, downloaded, offered, installed, updateShown, asking, news, loads>>

\* The benign errors (no feed configured) leave the status idle, others are shown.
CheckEnds == {"available", "not_available", "error", "idle"}

\* A check ends; the handler of the page's check answers with the status of that moment.
EndCheck(c, s) ==
  /\ c \in checking /\ checking' = checking \ {c}
  /\ s \in CheckEnds /\ updater' = s
  /\ news' = IF c.by = "page" THEN Append(news, [tick |-> FALSE, status |-> s]) ELSE news
  /\ UNCHANGED <<downloads, downloaded, offered, installed, updateShown, asking, checks, loads>>

\* download-progress.
Progresses ==
  /\ downloads # {} /\ updater # "downloading"
  /\ updater' = "downloading"
  /\ UNCHANGED <<checking, downloads, downloaded, offered, installed, updateShown, asking,
                 news, checks, loads>>

\* update-downloaded opens the dialog; a failed download leaves an error or, if no feed is
\* configured, idle.
EndDownload(d, s) ==
  /\ d \in downloads /\ downloads' = downloads \ {d}
  /\ s \in {"ready", "error", "idle"} /\ updater' = s
  /\ downloaded' = (downloaded \/ s = "ready") /\ offered' = (offered \/ s = "ready")
  /\ news' = Append(news, [tick |-> FALSE, status |-> s])
  /\ UNCHANGED <<checking, installed, updateShown, asking, checks, loads>>

\* "Install and Restart" or "Later" in the dialog.
DialogAnswers(now) ==
  /\ offered /\ offered' = FALSE
  /\ installed' = (installed \/ now)
  /\ UNCHANGED <<updater, checking, downloads, downloaded, updateShown, asking, news, checks,
                 loads>>

(***************************************************************************)
(* The page.                                                               *)
(***************************************************************************)
\* Every 15 s, unless an answer is on its way.  The handler is synchronous.
UpdateTick ==
  /\ ~asking /\ asking' = TRUE
  /\ news' = Append(news, [tick |-> TRUE, status |-> updater])
  /\ UNCHANGED <<updater, checking, downloads, downloaded, offered, installed, updateShown,
                 checks, loads>>

\* The finally block of the tick resets the flag.
Asking(n) == asking /\ ~n.tick

UpdateArrives ==
  /\ news # <<>> /\ news' = Tail(news)
  /\ updateShown' = Head(news).status
  /\ asking' = Asking(Head(news))
  /\ UNCHANGED <<updater, checking, downloads, downloaded, offered, installed, checks, loads>>

\* "Download Update", shown while the page's copy says "available".
DownloadUpdate ==
  /\ updateShown = "available" /\ loads < MaxDownloads
  /\ loads' = loads + 1 /\ downloads' = downloads \cup {loads'}
  /\ UNCHANGED <<updater, checking, downloaded, offered, installed, updateShown, asking, news,
                 checks>>

\* "Install and Restart" of the page, shown while its copy says "ready".
InstallShown == updateShown = "ready"

InstallUpdate ==
  /\ InstallShown /\ ~installed /\ installed' = TRUE
  /\ UNCHANGED <<updater, checking, downloads, downloaded, offered, updateShown, asking, news,
                 checks, loads>>

Next ==
  \/ \E by \in {"timer", "page"} : BeginCheck(by)
  \/ \E c \in checking, s \in CheckEnds : EndCheck(c, s)
  \/ \E d \in downloads, s \in {"ready", "error", "idle"} : EndDownload(d, s)
  \/ \E now \in BOOLEAN : DialogAnswers(now)
  \/ Progresses \/ UpdateTick \/ UpdateArrives \/ DownloadUpdate \/ InstallUpdate

Spec == Init /\ [][Next]_updateVars

(***************************************************************************)
(* Properties.                                                             *)
(***************************************************************************)
\* The application quits to install only if an installer was downloaded, although the page
\* offers it by a copy of the status that may be old.
InstallsWhatIsThere == installed => downloaded

\* The page's copy is the updater's status (and stays so: the ticks see to it).
CopyIsCurrent == updateShown = updater

(***************************************************************************)
(* Inductive invariant.                                                    *)
(***************************************************************************)
TypeOK ==
  /\ updater \in Statuses /\ updateShown \in Statuses
  /\ news \in Seq([tick : BOOLEAN, status : Statuses])
  /\ downloaded \in BOOLEAN /\ offered \in BOOLEAN /\ installed \in BOOLEAN

\* Who says "ready", be it an answer on its way, does so since there is an installer.
ReadyIsDownloaded ==
  \/ updater = "ready" \/ updateShown = "ready" \/ offered
  \/ \E i \in DOMAIN news : news[i].status = "ready"
  => downloaded

UpdateInv == TypeOK /\ ReadyIsDownloaded /\ InstallsWhatIsThere
=============================================================================
