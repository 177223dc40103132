---------------------------- MODULE ProcessPage ----------------------------
(***************************************************************************)
(* The Processes page of the renderer: Processes.tsx,                       *)
(* ProcessConfirmDialog.tsx and AffinityModal.tsx, with the handlers of      *)
(* ipc.ts they call.  The list is asked for every 5 s and may take 30 s to   *)
(* come, so requests overlap and are answered in any order; processes start  *)
(* and end meanwhile, and a pid is used again.                               *)
(*                                                                          *)
(* A process is a pid with a generation, 0 for none: the page knows the pid  *)
(* only.                                                                    *)
(***************************************************************************)
EXTENDS Integers, FiniteSets

CONSTANTS
  Pids,       \* process ids
  Critical,   \* the system processes, as pairs of a pid and a generation
  Requests,   \* requests for the list that may be under way at once
  MaxStarts,  \* bound on the generations of a pid
  MaxActions, \* bound on the mutations
  MaxErrors   \* bound on lists that could not be made

VARIABLES
  alive,      \* the generation that runs under each pid
  asked,      \* each request: not asked, asked, or the list that was made for it
  processes,  \* the rows: the generation each pid had in the list, 0 for no row
  suspendedPids,
  confirming, \* pending: the row and the action of the dialog, or nothing
  affinityFor,\* the row of the affinity modal, or nothing
  busyPid,    \* the one busy row, or nothing
  actions,    \* the mutations under way
  done,       \* history: mutations begun
  errors      \* history: lists that could not be made

vars == <<alive, asked, processes, suspendedPids, confirming, affinityFor,
          busyPid, actions, done, errors>>

Nothing == [is |-> "none"]

Init ==
  /\ alive = [p \in Pids |-> 1]
  /\ asked = [r \in Requests |-> Nothing]
  /\ processes = [p \in Pids |-> 0]
  /\ suspendedPids = {}
  /\ confirming = Nothing
  /\ affinityFor = 0
  /\ busyPid = {}
  /\ actions = {}
  /\ done = 0
  /\ errors = 0

page == <<processes, suspendedPids, confirming, affinityFor, busyPid>>

(***************************************************************************)
(* The machine.                                                            *)
(***************************************************************************)
ProcessStarts(p) ==
  /\ alive[p] <= 0 /\ -alive[p] < MaxStarts
  /\ alive' = [alive EXCEPT ![p] = 1 - alive[p]]
  /\ UNCHANGED <<asked, page, actions, done, errors>>

\* The generation of a process that has ended is kept as its negative.
ProcessEnds(p) ==
  /\ alive[p] > 0
  /\ alive' = [alive EXCEPT ![p] = -alive[p]]
  /\ UNCHANGED <<asked, page, actions, done, errors>>

Listed == [p \in Pids |-> IF alive[p] > 0 THEN alive[p] ELSE 0]

(***************************************************************************)
(* The list.                                                               *)
(***************************************************************************)
\* refresh: by the effect of the mount, the timer, or the button.  Only the button looks
\* whether a request is under way.
Refresh ==
  /\ \E r \in Requests :
       /\ asked[r] = Nothing
       /\ asked' = [asked EXCEPT ![r] = [is |-> "asked"]]
  /\ UNCHANGED <<alive, processes, suspendedPids, confirming, affinityFor, busyPid,
                 actions, done, errors>>

\* Get-AllProcesses.ps1 looks at the machine, or fails or takes more than 30 s.
ListIsMade(r) ==
  /\ asked[r].is = "asked"
  /\ \/ asked' = [asked EXCEPT ![r] = [is |-> "list", rows |-> Listed]] /\ UNCHANGED errors
     \/ /\ errors < MaxErrors /\ errors' = errors + 1
        /\ asked' = [asked EXCEPT ![r] = [is |-> "error"]]
  /\ UNCHANGED <<alive, page, actions, done>>

\* The marks of pids that are not in the list are dropped.
StillListed(pids, rows) == {p \in pids : rows[p] # 0}

\* The answer takes the place of the rows, whatever they are and whenever it was made;
\* an error leaves them.
ListArrives(r) ==
  /\ asked[r].is \in {"list", "error"}
  /\ asked' = [asked EXCEPT ![r] = Nothing]
  /\ IF asked[r].is = "list"
     THEN /\ processes' = asked[r].rows
          /\ suspendedPids' = StillListed(suspendedPids, asked[r].rows)
     ELSE UNCHANGED <<processes, suspendedPids>>
  /\ UNCHANGED <<alive, confirming, affinityFor, busyPid, actions, done, errors>>

(***************************************************************************)
(* The mutations.                                                          *)
(***************************************************************************)
Row(p) == processes[p] # 0 /\ p \notin busyPid

\* A click on a row needs the page uncovered.
Uncovered == confirming = Nothing /\ affinityFor = 0

\* The row of the click, not its process, is what the dialog keeps.
OpenConfirm(p, kind) ==
  /\ Row(p) /\ Uncovered
  /\ kind = "suspend" => p \notin suspendedPids
  /\ confirming' = [is |-> kind, pid |-> p, gen |-> processes[p], understood |-> FALSE]
  /\ UNCHANGED <<alive, asked, processes, suspendedPids, affinityFor, busyPid,
                 actions, done, errors>>

Understand ==
  /\ confirming # Nothing /\ ~confirming.understood
  /\ <<confirming.pid, confirming.gen>> \in Critical
  /\ confirming' = [confirming EXCEPT !.understood = TRUE]
  /\ UNCHANGED <<alive, asked, processes, suspendedPids, affinityFor, busyPid,
                 actions, done, errors>>

Cancel ==
  /\ confirming # Nothing /\ confirming' = Nothing
  /\ UNCHANGED <<alive, asked, processes, suspendedPids, affinityFor, busyPid,
                 actions, done, errors>>

\* canConfirm of the dialog.
CanConfirm(d) == <<d.pid, d.gen>> \in Critical => d.understood

\* A mutation is on its way to the worker, for a pid; history: which process the dialog
\* of a kill or a suspension was about.
Begin(kind, p, gen, understood) ==
  /\ done < MaxActions /\ done' = done + 1
  /\ actions' = actions \cup
       {[id |-> done + 1, is |-> kind, pid |-> p, gen |-> gen, ok |-> "asked",
         understood |-> understood, here |-> TRUE]}

Confirm ==
  /\ confirming # Nothing /\ CanConfirm(confirming)
  /\ Begin(confirming.is, confirming.pid, confirming.gen, confirming.understood)
  /\ busyPid' = {confirming.pid}
  /\ confirming' = Nothing
  /\ UNCHANGED <<alive, asked, processes, suspendedPids, affinityFor, errors>>

\* The priority of a system process is disabled; its other buttons are not.
ChangePriority(p) ==
  /\ Row(p) /\ Uncovered /\ <<p, processes[p]>> \notin Critical
  /\ Begin("priority", p, 0, FALSE)
  /\ busyPid' = {p}
  /\ UNCHANGED <<alive, asked, processes, suspendedPids, confirming, affinityFor,
                 errors>>

Resume(p) ==
  /\ Row(p) /\ Uncovered /\ p \in suspendedPids
  /\ Begin("resume", p, 0, FALSE)
  /\ busyPid' = {p}
  /\ UNCHANGED <<alive, asked, processes, suspendedPids, confirming, affinityFor,
                 errors>>

OpenAffinity(p) ==
  /\ Row(p) /\ Uncovered
  /\ affinityFor' = p
  /\ UNCHANGED <<alive, asked, processes, suspendedPids, confirming, busyPid,
                 actions, done, errors>>

\* Apply, which a modal disables only while its own call is under way.
Apply ==
  /\ affinityFor # 0 /\ \A a \in actions : ~(a.is = "affinity" /\ a.here)
  /\ Begin("affinity", affinityFor, 0, FALSE)
  /\ UNCHANGED <<alive, asked, page, errors>>

CloseAffinity ==
  /\ affinityFor # 0 /\ affinityFor' = 0
  /\ actions' = {[a EXCEPT !.here = a.here /\ a.is # "affinity"] : a \in actions}
  /\ UNCHANGED <<alive, asked, processes, suspendedPids, confirming, busyPid, done,
                 errors>>

\* The script looks the pid up and does it to whatever process has it now; it fails when
\* there is none, or for another reason.
Performed(a) ==
  /\ a \in actions /\ a.ok = "asked"
  /\ \E ok \in BOOLEAN :
       /\ ok => alive[a.pid] > 0
       /\ actions' = (actions \ {a}) \cup {[a EXCEPT !.ok = IF ok THEN "ok" ELSE "error"]}
       /\ alive' = IF ok /\ a.is = "kill" THEN [alive EXCEPT ![a.pid] = -alive[a.pid]] ELSE alive
  /\ UNCHANGED <<asked, page, done, errors>>

\* The call is answered: a killed process loses its row, the mark of a suspended one is
\* set or taken, an applied mask closes the modal (whichever is open), and the busy slot
\* is cleared, whoever is in it.
Answered(a) ==
  /\ a \in actions /\ a.ok # "asked"
  /\ actions' = actions \ {a}
  /\ processes' = IF a.ok = "ok" /\ a.is = "kill" THEN [processes EXCEPT ![a.pid] = 0] ELSE processes
  /\ suspendedPids' =
       IF a.ok = "ok" /\ a.is = "suspend" THEN suspendedPids \cup {a.pid}
       ELSE IF a.ok = "ok" /\ a.is \in {"resume", "kill"} THEN suspendedPids \ {a.pid}
       ELSE suspendedPids
  /\ IF a.is = "affinity"
     THEN affinityFor' = (IF a.ok = "ok" THEN 0 ELSE affinityFor) /\ UNCHANGED busyPid
     ELSE busyPid' = {} /\ UNCHANGED affinityFor
  /\ UNCHANGED <<alive, asked, confirming, done, errors>>

Next ==
  \/ Refresh \/ \E r \in Requests : ListIsMade(r) \/ ListArrives(r)
  \/ \E p \in Pids : \/ ProcessStarts(p) \/ ProcessEnds(p)
                     \/ ChangePriority(p) \/ Resume(p) \/ OpenAffinity(p)
                     \/ OpenConfirm(p, "kill") \/ OpenConfirm(p, "suspend")
  \/ Understand \/ Cancel \/ Confirm \/ Apply \/ CloseAffinity
  \/ \E a \in actions : Performed(a) \/ Answered(a)

Spec == Init /\ [][Next]_vars

(***************************************************************************)
(* Properties.                                                             *)
(***************************************************************************)
\* A system process is killed or suspended only if its box was ticked, or if the pid is no
\* longer that of the process the user saw: the page names processes by their pid.
CriticalIsConfirmed ==
  [][\A a \in actions :
       /\ a.is \in {"kill", "suspend"} /\ a.ok = "asked"
       /\ [a EXCEPT !.ok = "ok"] \in actions'
       /\ <<a.pid, alive[a.pid]>> \in Critical
       => a.understood \/ alive[a.pid] # a.gen]_vars

\* The rows are the processes there are, and no mark is left on a pid that is not used.
Settled == processes = Listed /\ suspendedPids \subseteq {p \in Pids : alive[p] > 0}

(***************************************************************************)
(* Inductive invariant.                                                    *)
(***************************************************************************)
RowsType == [Pids -> Int]
AskedType == [is : {"none", "asked", "error"}] \cup [is : {"list"}, rows : RowsType]
DialogType ==
  {Nothing} \cup [is : {"kill", "suspend"}, pid : Pids, gen : Int, understood : BOOLEAN]
ActionType ==
  [id : Nat, is : {"kill", "suspend", "priority", "resume", "affinity"}, pid : Pids, gen : Int,
   ok : {"asked", "ok", "error"}, understood : BOOLEAN, here : BOOLEAN]

TypeOK ==
  /\ alive \in RowsType /\ processes \in RowsType
  /\ asked \in [Requests -> AskedType]
  /\ suspendedPids \subseteq Pids /\ busyPid \subseteq Pids
  /\ confirming \in DialogType /\ affinityFor \in Pids \cup {0}
  /\ actions \subseteq ActionType
  /\ done \in Nat /\ errors \in Nat

\* What is on its way to a system process that the user saw has its box ticked.
OnlyConfirmedOnTheirWay == \A a \in actions : a.is \in {"kill", "suspend"} => CanConfirm(a)

ProcessInv == TypeOK /\ OnlyConfirmedOnTheirWay
=============================================================================
