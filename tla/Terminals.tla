------------------------------ MODULE Terminals ------------------------------
(***************************************************************************)
(* The embedded terminals of Claude: the Claude page (Claude.tsx,             *)
(* ClaudeTerminal.tsx) and the sessions of the main process (ptyBridge.ts).  *)
(*                                                                          *)
(* A start is one run of the terminal's effect: it asks for a process under  *)
(* the session id of the mount and kills that id when it is cleaned up.  In   *)
(* development React runs the effect of a mount twice.                       *)
(***************************************************************************)
EXTENDS Integers

CONSTANT MaxTerminals  \* bound on the starts

Starts == 1..MaxTerminals

VARIABLES
  strict,    \* StrictMode: a development build
  mounted,   \* the start whose terminal is on the page, or 0
  begun,     \* history: starts so far
  starts,    \* how far the spawn of each start has come
  sessions,  \* session id -> the start whose process has it, 0 for none
  procs,     \* starts whose process runs
  exits,     \* starts whose process has ended, the event being under way
  timers,    \* starts whose injection is due
  injected,  \* history: the context of a start, and the process it was typed into
  leftEarly, \* history: starts whose terminal went before the process was there
  quit       \* the application has quit

vars == <<strict, mounted, begun, starts, sessions, procs, exits, timers, injected,
          leftEarly, quit>>

Init ==
  /\ strict \in BOOLEAN
  /\ mounted = 0
  /\ begun = 0
  /\ starts = [e \in Starts |-> "new"]
  /\ sessions = [id \in Starts |-> 0]
  /\ procs = {} /\ exits = {} /\ timers = {} /\ injected = {} /\ leftEarly = {}
  /\ quit = FALSE

\* useState of the session id: one per mount, so in development the second start of a
\* mount has the id of the first.
IdOf(e) == IF strict THEN e - ((e + 1) % 2) ELSE e

(***************************************************************************)
(* The page.                                                               *)
(***************************************************************************)
\* The terminal is mounted: by the button, or by a context that is pending.  In
\* development the first effect is cleaned up at once: its kill finds no session.
Mount ==
  /\ ~quit /\ mounted = 0
  /\ LET last == IF strict THEN begun + 2 ELSE begun + 1 IN
       /\ last <= MaxTerminals
       /\ begun' = last /\ mounted' = last
       /\ starts' = [e \in Starts |-> IF e \in (begun + 1)..last THEN "asked" ELSE starts[e]]
       /\ leftEarly' = leftEarly \cup (begun + 1)..(last - 1)
  /\ UNCHANGED <<strict, sessions, procs, exits, timers, injected, quit>>

\* api:claudePty:kill
Killed(id) ==
  /\ procs' = procs \ {sessions[id]}
  /\ exits' = exits \cup ({sessions[id]} \cap procs)
  /\ sessions' = [sessions EXCEPT ![id] = 0]

\* The page is left or switched to the external window: the effect is cleaned up, however
\* far its spawn has come.
Unmount ==
  /\ ~quit /\ mounted # 0
  /\ Killed(IdOf(mounted))
  /\ leftEarly' = IF starts[mounted] \in {"asked", "building"}
                  THEN leftEarly \cup {mounted} ELSE leftEarly
  /\ mounted' = 0
  /\ UNCHANGED <<strict, begun, starts, timers, injected, quit>>

(***************************************************************************)
(* The main process.                                                       *)
(***************************************************************************)
\* api:claudePty:spawn up to its first await.  The page calls it after an await of its own.
Checks(e) ==
  /\ ~quit /\ starts[e] = "asked"
  /\ starts' = [starts EXCEPT ![e] = IF sessions[IdOf(e)] # 0 THEN "failed" ELSE "building"]
  /\ UNCHANGED <<strict, mounted, begun, sessions, procs, exits, timers, injected, leftEarly, quit>>

\* The module is loaded, the context and the batch file are written, the process starts
\* and is registered, whatever is registered under the id by now.
Spawns(e) ==
  /\ ~quit /\ starts[e] = "building"
  /\ \/ /\ starts' = [starts EXCEPT ![e] = "up"]
        /\ procs' = procs \cup {e}
        /\ sessions' = [sessions EXCEPT ![IdOf(e)] = e]
        /\ timers' = timers \cup {e}
     \/ /\ starts' = [starts EXCEPT ![e] = "failed"]
        /\ UNCHANGED <<procs, sessions, timers>>
  /\ UNCHANGED <<strict, mounted, begun, exits, injected, leftEarly, quit>>

\* Mutant: the entry under the id is looked at, not whose it is (before v2.4.10).
WhoeverHasTheId(e) == {sessions[IdOf(e)]} \ {0}

\* The process the context is typed into: the one it was written for, if it still has
\* its id.
Target(e) == {sessions[IdOf(e)]} \cap {e}

Injects(e) ==
  /\ ~quit /\ e \in timers /\ timers' = timers \ {e}
  /\ injected' = injected \cup {[context |-> e, into |-> p] : p \in Target(e)}
  /\ UNCHANGED <<strict, mounted, begun, starts, sessions, procs, exits, leftEarly, quit>>

\* The shell is left by its user, or dies.
ProcessEnds(e) ==
  /\ e \in procs /\ procs' = procs \ {e}
  /\ exits' = exits \cup {e}
  /\ UNCHANGED <<strict, mounted, begun, starts, sessions, timers, injected, leftEarly, quit>>

\* onExit: the event goes to whatever terminal listens to the id, which closes, and the
\* entry under the id is deleted, whosever it is.
Exited(e) ==
  /\ ~quit /\ e \in exits /\ exits' = exits \ {e}
  /\ sessions' = [sessions EXCEPT ![IdOf(e)] = 0]
  /\ IF mounted # 0 /\ IdOf(mounted) = IdOf(e)
     THEN /\ leftEarly' = IF starts[mounted] \in {"asked", "building"}
                          THEN leftEarly \cup {mounted} ELSE leftEarly
          /\ mounted' = 0
     ELSE UNCHANGED <<mounted, leftEarly>>
  /\ UNCHANGED <<strict, begun, starts, procs, timers, injected, quit>>

\* killAllPtySessions, before the application quits.
Quit ==
  /\ ~quit /\ quit' = TRUE
  /\ procs' = {e \in procs : sessions[IdOf(e)] # e}
  /\ sessions' = [id \in Starts |-> 0]
  /\ mounted' = 0
  /\ UNCHANGED <<strict, begun, starts, exits, timers, injected, leftEarly>>

Next ==
  \/ Mount \/ Unmount \/ Quit
  \/ \E e \in Starts : Checks(e) \/ Spawns(e) \/ Injects(e) \/ ProcessEnds(e) \/ Exited(e)

Spec == Init /\ [][Next]_vars

(***************************************************************************)
(* Properties.                                                             *)
(***************************************************************************)
\* No context is typed, and so submitted, into a process it was not written for.
ContextGoesHome == \A i \in injected : i.into = i.context

\* In a build for users, a process that nobody can reach any more (it runs on after the
\* application quits) is one whose terminal was closed while it was being started; the
\* keys of a terminal that is open reach its process.
Reachable ==
  ~strict => \A e \in procs : sessions[IdOf(e)] = e \/ e \in leftEarly

(***************************************************************************)
(* Inductive invariant.                                                    *)
(***************************************************************************)
TypeOK ==
  /\ strict \in BOOLEAN /\ quit \in BOOLEAN
  /\ begun \in 0..MaxTerminals /\ mounted \in 0..begun
  /\ starts \in [Starts -> {"new", "asked", "building", "up", "failed"}]
  /\ sessions \in [Starts -> {0} \cup Starts]
  /\ procs \subseteq Starts /\ exits \subseteq Starts /\ timers \subseteq Starts
  /\ leftEarly \subseteq Starts
  /\ injected \subseteq [context : Starts, into : Starts]

\* In a build for users a session has the process of its own mount, and a start whose process
\* has been there is not started again; so an end that is told late deletes its own entry.
OwnSession ==
  ~strict =>
    /\ \A id \in Starts : sessions[id] \in {0, id}
    /\ \A e \in Starts : begun < e => starts[e] = "new"
    /\ \A e \in procs \cup exits : starts[e] = "up"
    /\ procs \cap exits = {}

TerminalsInv == TypeOK /\ ContextGoesHome /\ OwnSession /\ Reachable
=============================================================================
