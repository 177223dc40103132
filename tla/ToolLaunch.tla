----------------------------- MODULE ToolLaunch -----------------------------
(***************************************************************************)
(* Launching an external tool: launchTool of toolLauncher.ts.  A child that   *)
(* was spawned tells of itself by events, and a timer runs against them; the  *)
(* first of them decides what the toast of the Tools page says.              *)
(***************************************************************************)
EXTENDS Integers

CONSTANTS
  Launches  \* bound: the launches, which may overlap

VARIABLES
  found,    \* how each tool is found: not, as an app, by winget only, or by its path
  child,    \* what became of the child of each launch
  queued,   \* its events that have not been handled yet
  timer,    \* its timer runs
  shell,    \* what shell.openPath was asked, and answered
  told,     \* what the launch answered
  answers   \* history: how often it answered

vars == <<found, child, queued, timer, shell, told, answers>>

Init ==
  /\ found \in [Launches -> {"not", "app", "winget", "path"}]
  /\ child = [l \in Launches |-> "none"]
  /\ queued = [l \in Launches |-> {}]
  /\ timer = [l \in Launches |-> FALSE]
  /\ shell = [l \in Launches |-> "none"]
  /\ told = [l \in Launches |-> "nothing"]
  /\ answers = [l \in Launches |-> 0]

Open(l) == told[l] = "nothing"
Settled(l) == shell[l] # "none" \/ ~Open(l)

Tell(l, what) ==
  /\ told' = [told EXCEPT ![l] = what]
  /\ answers' = [answers EXCEPT ![l] = @ + 1]

\* What is found is looked up again.  A Store app is opened by Explorer; one that winget
\* alone knows of is not guessed at; one with a path is spawned, and the timer set.
LaunchTool(l) ==
  /\ Open(l) /\ child[l] = "none"
  /\ CASE found[l] = "path" -> /\ child' = [child EXCEPT ![l] = "new"]
                               /\ timer' = [timer EXCEPT ![l] = TRUE]
                               /\ UNCHANGED <<told, answers>>
       [] found[l] = "app" -> /\ child' = [child EXCEPT ![l] = "by explorer"]
                              /\ Tell(l, "launched")
                              /\ UNCHANGED timer
       [] OTHER -> Tell(l, "error") /\ UNCHANGED <<child, timer>>
  /\ UNCHANGED <<found, queued, shell>>

\* The child gets a pid and tells so; it is killed before it has one, having told so; or
\* it cannot be started.
ChildMoves(l) ==
  /\ child[l] = "new"
  /\ \/ /\ child' = [child EXCEPT ![l] = "has pid"]
        /\ queued' = [queued EXCEPT ![l] = {"spawn"}]
     \/ /\ child' = [child EXCEPT ![l] = "no pid"]
        /\ queued' = [queued EXCEPT ![l] = {"spawn"}]
     \/ \E code \in {"EACCES", "other"} :
          /\ child' = [child EXCEPT ![l] = code]
          /\ queued' = [queued EXCEPT ![l] = {"error"}]
  /\ UNCHANGED <<found, timer, shell, told, answers>>

\* settle: the first event or the timer; the others do nothing.
MaySettle(l) == ~Settled(l)

\* The result is known.  Where access was refused (and the tool is opened without
\* arguments, or not), the shell is asked; else it is told.
Settle(l, ok) ==
  IF ~ok /\ child[l] = "EACCES"
  THEN \/ shell' = [shell EXCEPT ![l] = "asked"] /\ UNCHANGED <<told, answers>>
       \/ Tell(l, "error") /\ UNCHANGED shell
  ELSE Tell(l, IF ok THEN "launched" ELSE "error") /\ UNCHANGED shell

Event(l, e) ==
  /\ e \in queued[l] /\ queued' = [queued EXCEPT ![l] = {}]
  /\ IF MaySettle(l) THEN Settle(l, e = "spawn" /\ child[l] = "has pid")
                     ELSE UNCHANGED <<shell, told, answers>>
  /\ UNCHANGED <<found, child, timer>>

\* Mutant: no error for half a second is taken for a start (before v2.4.37).
NoErrorYet(l) == child[l] \notin {"EACCES", "other"}

StartedForTimer(l) == child[l] = "has pid"

\* 500 ms without an event.  If there is no pid yet it is an error, and none of those for
\* which the shell is asked.
TimerFires(l) ==
  /\ timer[l] /\ timer' = [timer EXCEPT ![l] = FALSE]
  /\ IF MaySettle(l) THEN Tell(l, IF StartedForTimer(l) THEN "launched" ELSE "error")
                     ELSE UNCHANGED <<told, answers>>
  /\ UNCHANGED <<found, child, queued, shell>>

\* shell.openPath opens it, or says why not.
ShellAnswers(l) ==
  /\ shell[l] = "asked"
  /\ \E ok \in BOOLEAN :
       /\ shell' = [shell EXCEPT ![l] = IF ok THEN "opened" ELSE "refused"]
       /\ Tell(l, IF ok THEN "launched" ELSE "error")
  /\ UNCHANGED <<found, child, queued, timer>>

Next ==
  \E l \in Launches :
    \/ LaunchTool(l) \/ ChildMoves(l) \/ TimerFires(l) \/ ShellAnswers(l)
    \/ \E e \in {"spawn", "error"} : Event(l, e)

Spec == Init /\ [][Next]_vars

(***************************************************************************)
(* Properties.                                                             *)
(***************************************************************************)
\* "Every outcome is caught exactly once", and "Launched" is said of a tool whose process
\* has a pid or that something else has opened, whichever of its events and its timer
\* comes first.  (It may be that a start later than the timer is called an error.)
LaunchedIsRunning ==
  \A l \in Launches :
    /\ answers[l] <= 1
    /\ told[l] = "launched" => child[l] \in {"has pid", "by explorer"} \/ shell[l] = "opened"

(***************************************************************************)
(* Inductive invariant.                                                    *)
(***************************************************************************)
TypeOK ==
  /\ child \in [Launches -> {"none", "new", "has pid", "no pid", "EACCES", "other", "by explorer"}]
  /\ queued \in [Launches -> SUBSET {"spawn", "error"}]
  /\ timer \in [Launches -> BOOLEAN]
  /\ shell \in [Launches -> {"none", "asked", "opened", "refused"}]
  /\ told \in [Launches -> {"nothing", "launched", "error"}]
  /\ answers \in [Launches -> Nat]

\* Who was not told yet has no answer, and who was told has one; the shell is asked about a
\* child that was refused, and for a launch that nobody was told of.
AnswersAreCounted ==
  \A l \in Launches :
    /\ answers[l] = IF Open(l) THEN 0 ELSE 1
    /\ shell[l] # "none" => child[l] = "EACCES"
    /\ shell[l] = "asked" => Open(l)

ToolInv == TypeOK /\ AnswersAreCounted /\ LaunchedIsRunning
=============================================================================
