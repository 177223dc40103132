----------------------------- MODULE ServiceUndo -----------------------------
(***************************************************************************)
(* Service and process mutations: src/src/main/serviceMutate.ts and         *)
(* processMutate.ts, the rows of dataStore.ts they write, the scripts       *)
(* Stop-Service, Start-Service and Set-ServiceStartup that the elevated     *)
(* worker runs for them, and the Undo of the toast and of the Undo Center.  *)
(*                                                                          *)
(* The worker is what ElevatedDispatch says of it, and no better: a call    *)
(* may end in "unknown" with its effect open, and its script may then still *)
(* start.  A row of actions_log is the call of the same number.             *)
(***************************************************************************)
EXTENDS Integers, FiniteSets

CONSTANTS
  MaxRows,     \* bound on the rows of actions_log
  StartTypes,  \* startup types of a service, "Disabled" among them
  MaxAsked,    \* bound on the rows that are not undos
  Asked,       \* the mutations the user asks for
  Faults,      \* what may go wrong
  MaxFaults    \* bound on failures

ASSUME RowAssumption == MaxRows \in Nat \ {0} /\ MaxAsked \in Nat
ASSUME StartTypeAssumption == "Disabled" \in StartTypes
ASSUME AskedAssumption ==
  Asked \subseteq [action : {"stop", "start", "process"}, target : {"none"}]
                    \cup [action : {"startup"}, target : StartTypes]
ASSUME FaultAssumption == Faults \subseteq {"unknown", "crash", "log", "actionStart"} /\ MaxFaults \in Nat

Rows == 1..MaxRows

VARIABLES
  rows,      \* actions_log, and the rollback that belongs to each row
  service,   \* the service, as Windows has it, and whether a service that depends on it runs
  seen,      \* what the script of each call read before it acted, as far as it is used
  request,   \* what the caller of each dispatch knows
  run,       \* what the action of each dispatch has done
  faults,    \* history: failures so far
  torn       \* history: rows whose writes were cut short, by a crash or a failing log

vars == <<rows, service, seen, request, run, faults, torn>>

Statuses == {"Running", "Stopped", "Paused"}
Services == [status : Statuses, startType : StartTypes, dependents : BOOLEAN]
Unread == [status |-> "none", startType |-> "none", dependents |-> FALSE]
Readings == [status : Statuses \cup {"none"}, startType : StartTypes \cup {"none"},
             dependents : BOOLEAN]

NoRow == [action |-> "none", target |-> "none", undoes |-> 0, status |-> "none",
          before |-> Unread, rollback |-> "none", linked |-> FALSE,
          reverted |-> FALSE, rollbackReverted |-> FALSE]

RowType ==
  [action : {"none", "stop", "start", "startup", "process"},
   target : StartTypes \cup {"none"}, undoes : 0..MaxRows,
   status : {"none", "running", "success", "error"}, before : Readings,
   rollback : {"none", "live", "expired"}, linked : BOOLEAN,
   reverted : BOOLEAN, rollbackReverted : BOOLEAN]

TypeOK ==
  /\ rows \in [Rows -> RowType]
  /\ service \in Services /\ (service.dependents => service.status # "Stopped")
  /\ seen \in [Rows -> Readings]
  /\ request \in [Rows -> {"none", "asked", "success", "actionError", "rejected", "unknown", "lost"}]
  /\ run \in [Rows -> {"none", "accepted", "running", "ok", "failed"}]
  /\ faults \in 0..MaxFaults
  /\ torn \subseteq Rows

Init ==
  /\ rows = [c \in Rows |-> NoRow]
  /\ service \in Services /\ (service.dependents => service.status # "Stopped")
  /\ seen = [c \in Rows |-> Unread]
  /\ request = [c \in Rows |-> "none"]
  /\ run = [c \in Rows |-> "none"]
  /\ faults = 0
  /\ torn = {}

Fault(kind) == kind \in Faults /\ faults < MaxFaults /\ faults' = faults + 1

(***************************************************************************)
(* Callers.                                                                *)
(***************************************************************************)
\* runMutate up to its await: the row is opened before the dispatch.
Begin(m, undone) ==
  \E c \in Rows :
    /\ rows[c] = NoRow /\ \A b \in Rows : b < c => rows[b] # NoRow
    /\ rows' = [rows EXCEPT ![c] = [NoRow EXCEPT !.action = m.action, !.target = m.target,
                                                 !.undoes = undone, !.status = "running"]]
    /\ request' = [request EXCEPT ![c] = "asked"]
    /\ UNCHANGED <<service, seen, run, faults, torn>>

\* stopService, startService, setServiceStartup and the five of processMutate.
Mutate(m) ==
  /\ Cardinality({c \in Rows : rows[c] # NoRow /\ rows[c].undoes = 0}) < MaxAsked
  /\ Begin(m, 0)

\* Mutant: a startup type is put back to what it was set to.
ReverseToTarget(row) ==
  CASE row.action = "stop"  -> [action |-> "start", target |-> "none"]
    [] row.action = "start" -> [action |-> "stop", target |-> "none"]
    [] OTHER -> [action |-> "startup", target |-> row.target]

\* The reverse of each service action (undoServiceAction).
Reverse(row) ==
  CASE row.action = "stop"    -> [action |-> "start", target |-> "none"]
    [] row.action = "start"   -> [action |-> "stop", target |-> "none"]
    [] row.action = "startup" -> [action |-> "startup", target |-> row.before.startType]

\* Mutant: the marks of an earlier undo are not looked at.
UndoableAgain(row) == row.status = "success" /\ row.linked /\ row.rollback = "live"

\* The checks of undoServiceAction.
Undoable(row) ==
  /\ row.status = "success" /\ ~row.reverted
  /\ row.linked /\ row.rollback = "live" /\ ~row.rollbackReverted

\* The checks, the reverse mutation and its row are one turn of the event loop.
Undo(i) == Undoable(rows[i]) /\ Begin(Reverse(rows[i]), i)

\* What listUndoableServiceActions shows in the Undo Center.
Listed(row) ==
  /\ row.status = "success" /\ ~row.reverted
  /\ row.rollback = "live" /\ ~row.rollbackReverted

\* Mutant: the rollback is not linked to its row.
WritesUnlinked(c, done) ==
  [i \in Rows |->
     CASE i = c -> [rows[c] EXCEPT !.status = "success", !.before = seen[c],
                                   !.rollback = IF @ = "none" THEN "live" ELSE @]
       [] OTHER -> rows[i]]

\* The first writes of a successful mutation, in their order: the row, its rollback,
\* the link between them, and for an undo the two marks of what it undid.
Writes(c, done) ==
  LET service_ == rows[c].action # "process" IN
  [i \in Rows |->
     CASE i = c ->
            [rows[c] EXCEPT
               !.status   = IF done >= 1 THEN "success" ELSE @,
               !.before   = IF done >= 1 THEN seen[c] ELSE @,
               !.rollback = IF service_ /\ done >= 2 THEN "live" ELSE @,
               !.linked   = @ \/ (service_ /\ done >= 3)]
       [] i = rows[c].undoes ->
            [rows[i] EXCEPT !.reverted = @ \/ done >= 4,
                            !.rollbackReverted = @ \/ done >= 5]
       [] OTHER -> rows[i]]
AllWrites == 5

Answered(c, answer) ==
  /\ request[c] = "asked"
  /\ answer = "success" => run[c] = "ok"
  /\ answer = "actionError" => run[c] = "failed"
  /\ answer = "rejected" => run[c] = "none"

\* The worker's result says the action succeeded.  The writes are no transaction: when one
\* throws, the caller is told the error and the later ones are not made.
Succeeds(c) ==
  /\ Answered(c, "success")
  /\ request' = [request EXCEPT ![c] = "success"]
  /\ \/ rows' = Writes(c, AllWrites) /\ UNCHANGED <<faults, torn>>
     \/ /\ Fault("log")
        /\ \E done \in 0..(AllWrites - 1) : rows' = Writes(c, done)
        /\ torn' = torn \cup {c}
  /\ UNCHANGED <<service, seen, run>>

\* Any other end of the dispatch closes the row as an error, if that can be written.
Fails(c, answer) ==
  /\ Answered(c, answer)
  /\ request' = [request EXCEPT ![c] = answer]
  /\ \/ /\ IF answer = "unknown" THEN Fault("unknown") ELSE UNCHANGED faults
        /\ rows' = [rows EXCEPT ![c].status = "error"]
     \/ /\ answer # "unknown" /\ Fault("log")
        /\ UNCHANGED rows
  /\ UNCHANGED <<service, seen, run, torn>>

\* The application dies, maybe between two writes, and starts again: what it awaited is
\* lost, and no start looks at the rows it left "running".
Crash ==
  /\ Fault("crash")
  /\ request' = [c \in Rows |-> IF request[c] = "asked" THEN "lost" ELSE request[c]]
  /\ \/ UNCHANGED <<rows, torn>>
     \/ \E c \in Rows, done \in 1..(AllWrites - 1) :
          /\ Answered(c, "success")
          /\ rows' = Writes(c, done)
          /\ torn' = torn \cup {c}
  /\ UNCHANGED <<service, seen, run>>

(***************************************************************************)
(* The worker and the scripts it runs.                                     *)
(***************************************************************************)
\* The worker accepts the command; not one whose caller has already been answered.
Accept(c) ==
  /\ run[c] = "none" /\ request[c] \in {"asked", "lost"}
  /\ run' = [run EXCEPT ![c] = "accepted"]
  /\ UNCHANGED <<rows, service, seen, request, faults, torn>>

\* What the script reads of the service before it acts: Set-ServiceStartup the startup type,
\* Start- and Stop-Service the status, and the latter the running dependents.
Reads(c) ==
  CASE rows[c].action = "stop"    -> [service EXCEPT !.startType = "none"]
    [] rows[c].action = "start"   -> [Unread EXCEPT !.status = service.status]
    [] rows[c].action = "startup" -> [Unread EXCEPT !.startType = service.startType]
    [] OTHER                      -> Unread

\* It starts the script, though the caller may have given up on it since.
Start(c) ==
  /\ run[c] = "accepted"
  /\ run' = [run EXCEPT ![c] = "running"]
  /\ seen' = [seen EXCEPT ![c] = Reads(c)]
  /\ UNCHANGED <<rows, service, request, faults, torn>>

CannotStart(c) ==
  /\ run[c] = "accepted" /\ Fault("actionStart")
  /\ run' = [run EXCEPT ![c] = "failed"]
  /\ UNCHANGED <<rows, service, seen, request, torn>>

\* What a script that ran to its end makes of the service: stopping is forced, so it takes
\* the services that depend on this one along.
Effect(row, was) ==
  CASE row.action = "stop"    -> [was EXCEPT !.status = "Stopped", !.dependents = FALSE]
    [] row.action = "start"   -> [was EXCEPT !.status = "Running"]
    [] row.action = "startup" -> [was EXCEPT !.startType = row.target]
    [] OTHER                  -> was

\* The script decides from what it read whether there is anything to do, whether it may
\* be done (a disabled service is not started), and what is done.  A stop that fails may
\* have stopped the dependents.
Finish(c) ==
  LET was == seen[c]
      row == rows[c]
      noop == \/ row.action = "stop" /\ was.status = "Stopped"
              \/ row.action = "start" /\ was.status = "Running"
              \/ row.action = "startup" /\ was.startType = row.target
              \/ row.action = "process"
      may == noop \/ row.action # "start" \/ service.startType # "Disabled"
  IN /\ run[c] = "running"
     /\ \/ /\ may /\ run' = [run EXCEPT ![c] = "ok"]
           /\ service' = IF noop THEN service ELSE Effect(row, service)
        \/ /\ ~noop /\ run' = [run EXCEPT ![c] = "failed"]
           /\ \/ UNCHANGED service
              \/ row.action = "stop" /\ service' = [service EXCEPT !.dependents = FALSE]
     /\ UNCHANGED <<rows, seen, request, faults, torn>>

(***************************************************************************)
(* The environment.                                                        *)
(***************************************************************************)
\* Windows, an installer or services.msc changes the service or what depends on it; a
\* service does not run without the one it depends on.
ChangesElsewhere ==
  /\ \/ \E status \in Statuses :
          service' = [service EXCEPT !.status = status,
                                     !.dependents = @ /\ status # "Stopped"]
     \/ \E startType \in StartTypes : service' = [service EXCEPT !.startType = startType]
     \/ service.status = "Running" /\ service' = [service EXCEPT !.dependents = ~@]
     \/ service' = [service EXCEPT !.dependents = FALSE]
  /\ UNCHANGED <<rows, seen, request, run, faults, torn>>

\* Seven days pass (expires_at), or pruneExpiredRollbacks deletes the rollback.
Expire(i) ==
  /\ rows[i].rollback = "live"
  /\ rows' = [rows EXCEPT ![i].rollback = "expired"]
  /\ UNCHANGED <<service, seen, request, run, faults, torn>>

Next ==
  \/ \E m \in Asked : Mutate(m)
  \/ \E c \in Rows : Undo(c) \/ Succeeds(c) \/ Expire(c)
  \/ \E c \in Rows : Accept(c) \/ Start(c) \/ CannotStart(c) \/ Finish(c)
  \/ \E c \in Rows, answer \in {"actionError", "rejected", "unknown"} : Fails(c, answer)
  \/ ChangesElsewhere \/ Crash

Spec == Init /\ [][Next]_vars

(***************************************************************************)
(* Properties.                                                             *)
(***************************************************************************)
ChangedSomething(i) ==
  \/ rows[i].action = "stop" /\ rows[i].before.status # "Stopped"
  \/ rows[i].action = "start" /\ rows[i].before.status # "Running"
  \/ rows[i].action = "startup" /\ rows[i].before.startType # rows[i].target

\* A service that was paused is only started or stopped, never paused again.
CameFromPause(i) == rows[i].action # "startup" /\ rows[i].before.status = "Paused"

\* What its undo is to bring back: the startup type, or the status of the service itself.
\* The services a stop took along are named in its result and stay stopped.
ToRestore(i) ==
  IF rows[i].action = "startup" THEN rows[i].before
  ELSE [rows[i].before EXCEPT !.dependents = FALSE]

\* A row marked as reverted has an undo whose script ran to its end.  If the undone script
\* changed a service that was not paused, then the two scripts, one after the other, leave
\* the service as the first one read it, but for the dependents that a stop takes along.
RevertedMeansRestored ==
  \A i \in Rows : rows[i].reverted =>
    \E u \in Rows :
      /\ rows[u].undoes = i /\ rows[u].status = "success" /\ run[u] = "ok"
      /\ ChangedSomething(i) /\ ~CameFromPause(i) =>
           Effect(rows[u], Effect(rows[i], rows[i].before)) = ToRestore(i)

\* Two undos of a row both succeed only if the second was asked for before the first was
\* answered, or the writes of the first were cut short by a crash or a failing log.
UndoneOnceToOurKnowledge ==
  [][\A u, v \in Rows :
       (/\ rows[u] = NoRow /\ rows'[u] # NoRow /\ rows'[u].undoes # 0
        /\ rows[v].undoes = rows'[u].undoes /\ rows[v].status = "success")
         => v \in torn]_vars

\* What the Undo Center lists can be undone, and what succeeded can be undone until its
\* rollback expires or it has been undone, but for rows whose writes were cut short.
ListedIsUndoable ==
  \A i \in Rows :
    /\ Listed(rows[i]) /\ ~Undoable(rows[i]) => i \in torn
    /\ (rows[i].status = "success" /\ rows[i].action # "process" /\ rows[i].rollback = "none")
         => i \in torn

(***************************************************************************)
(* Inductive invariant.                                                    *)
(***************************************************************************)
ServiceActions == {"stop", "start", "startup"}

\* A row is there from the moment its dispatch is asked for, open until that is answered,
\* and a success only if the script ran to its end.
RowIsOpen(c) ==
  /\ request[c] = "none" <=> rows[c] = NoRow
  /\ request[c] = "none" => run[c] = "none"
  /\ request[c] = "asked" => rows[c].status = "running"
  /\ request[c] # "none" => rows[c].action \in ServiceActions \cup {"process"}
  /\ rows[c].status = "success" => run[c] = "ok"

\* What a script has read of the service, as its action needs it.
IsReading(action, reading) ==
  /\ action \in {"stop", "start"} => reading.status \in Statuses /\ reading.startType = "none"
  /\ action = "start" => ~reading.dependents
  /\ action = "startup" =>
       reading.startType \in StartTypes /\ reading.status = "none" /\ ~reading.dependents

\* The script reads the service before it acts, a success keeps what it read, and a startup
\* type is set to one that there is.
RowIsRead(c) ==
  /\ rows[c].action = "startup" => rows[c].target \in StartTypes
  /\ run[c] \in {"running", "ok"} => IsReading(rows[c].action, seen[c])
  /\ rows[c].status = "success" => IsReading(rows[c].action, rows[c].before)

\* An undo asks for the reverse of a service action that succeeded.
RowUndoes(c) ==
  LET i == rows[c].undoes IN
  i # 0 =>
    /\ rows[i].status = "success" /\ rows[i].action \in ServiceActions
    /\ rows[c].action = Reverse(rows[i]).action /\ rows[c].target = Reverse(rows[i]).target

\* Unless the writes were cut short, a success has all that is written for it: its
\* rollback, the link to it and the mark on what it undid.
RowIsWritten(c) ==
  /\ rows[c].action = "process" => rows[c].rollback = "none" /\ ~rows[c].linked
  /\ rows[c].status = "success" /\ c \notin torn =>
       /\ rows[c].action # "process" => rows[c].linked /\ rows[c].rollback # "none"
       /\ rows[c].undoes # 0 => rows[rows[c].undoes].reverted

\* Only the success of an undo marks a row as reverted.
RowIsReverted(i) ==
  rows[i].reverted => \E u \in Rows : rows[u].undoes = i /\ rows[u].status = "success"

UndoInv ==
  /\ TypeOK
  /\ \A c \in Rows :
       RowIsOpen(c) /\ RowIsRead(c) /\ RowUndoes(c) /\ RowIsWritten(c) /\ RowIsReverted(c)
=============================================================================
