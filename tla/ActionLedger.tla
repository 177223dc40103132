---------------------------- MODULE ActionLedger ----------------------------
(***************************************************************************)
(* One-click actions and their undo: runAction (src/main/actionRunner.ts), *)
(* prepareRollback and revertRollback (src/main/rollbackManager.ts), the   *)
(* revert handler (src/main/ipc.ts) and the rows they keep in dataStore.   *)
(*                                                                         *)
(* A run is one call of runAction; it is also the id of its audit row      *)
(* (actions_log) and of its rollback row (rollbacks).  The content of a    *)
(* file is the set of runs whose changes it carries.  Calls are            *)
(* asynchronous functions: an action of this module goes from one await    *)
(* to the next, and several runs interleave at the awaits.                 *)
(***************************************************************************)
EXTENDS Integers, FiniteSets

CONSTANTS
    Runs,
    Files,
    Actions,    \* [tier, files, admin]: rollback_tier, snapshot_paths, needs_admin
    NoAction,
    NoCopy,     \* a file without a copy in a snapshot
    Faults,
    MaxFaults

FaultKinds == {"log", "restorePoint", "row", "copy", "manifest", "lowDisk", "restore", "crash"}

ASSUME ActionAssumption ==
    /\ Actions \subseteq [tier : {"A", "B", "C", "none"}, files : SUBSET Files, admin : BOOLEAN]
    /\ NoAction \notin Actions
ASSUME NoCopyAssumption == \A runs \in SUBSET Runs : runs # NoCopy
ASSUME FaultAssumption == Faults \subseteq FaultKinds /\ MaxFaults \in Nat

VARIABLES
    run,        \* each call: pc, action, mode, what it answered
    log,        \* actions_log: status, rollback (rollback_id set), reverted (reverted_at set)
    rb,         \* rollbacks: row, rp (windows_rp_seq set), path (snapshot_path set), reverted, expired
    snapshot,   \* manifest.json of each snapshot directory: the copy of each file
    file,       \* the files on disk
    script,     \* each run's PowerShell process: none, alive, ok, failed
    reading,    \* what it has read of each file and not yet written back
    \* auxiliary
    faults,
    crashes,
    copiedBack, \* per run, the times revertRollback copied files back from its snapshot
    returned,   \* per run, the files it ever copied back
    unmarked,   \* per run, its reverts that ended before both of its rows were marked
    overtaken   \* per run, the files copied back while a script held them with its changes

ledgerVars == <<log, rb, snapshot>>
undoVars == <<copiedBack, returned, unmarked, overtaken>>
vars == <<run, log, rb, snapshot, file, script, reading, faults, crashes,
          copiedBack, returned, unmarked, overtaken>>

Fresh == [pc |-> "new", action |-> NoAction, mode |-> "manual", answer |-> "none"]
NoLog == [status |-> "none", rollback |-> FALSE, reverted |-> FALSE]
NoRow == [row |-> FALSE, rp |-> FALSE, path |-> FALSE, reverted |-> FALSE, expired |-> FALSE]
NoSnapshot == [f \in Files |-> NoCopy]

Init ==
    /\ run = [r \in Runs |-> Fresh]
    /\ log = [r \in Runs |-> NoLog]
    /\ rb = [r \in Runs |-> NoRow]
    /\ snapshot = [r \in Runs |-> NoSnapshot]
    /\ file = [f \in Files |-> {}]
    /\ script = [r \in Runs |-> "none"]
    /\ reading = [r \in Runs |-> NoSnapshot]
    /\ faults = 0
    /\ crashes = 0
    /\ copiedBack = [r \in Runs |-> 0]
    /\ returned = [r \in Runs |-> {}]
    /\ unmarked = [r \in Runs |-> 0]
    /\ overtaken = [r \in Runs |-> {}]

Fault(kind) ==
    /\ kind \in Faults
    /\ faults < MaxFaults
    /\ faults' = faults + 1

NoFault == UNCHANGED faults

-----------------------------------------------------------------------------
(* The end of a call: the last write of its audit row and its answer.      *)

\* finishActionLog succeeds, with the rollback link the row has by then.
Finish(r, status, linked, answer) ==
    /\ log' = [log EXCEPT ![r] = [status |-> status, rollback |-> linked, reverted |-> FALSE]]
    /\ run' = [run EXCEPT ![r] = [@ EXCEPT !.pc = "done", !.answer = answer]]
    /\ NoFault

\* finishActionLog throws before the script: the row stays running and the
\* call rejects.
FinishThrows(r, linked) ==
    /\ Fault("log")
    /\ log' = [log EXCEPT ![r] = [status |-> "running", rollback |-> linked, reverted |-> FALSE]]
    /\ run' = [run EXCEPT ![r] = [@ EXCEPT !.pc = "done", !.answer = "rejected"]]

\* A bad parameter or a disabled UAC ends the call.
EndsUnrun(r, linked) ==
    /\ \/ Finish(r, "error", linked, "error")
       \/ FinishThrows(r, linked)
    /\ UNCHANGED script

\* What follows prepareRollback in the same step: unless the call ends there, its script
\* starts.
RunScript(r, action, linked) ==
    \/ EndsUnrun(r, linked)
    \/ /\ log' = [log EXCEPT ![r] = [status |-> "running", rollback |-> linked, reverted |-> FALSE]]
       /\ run' = [run EXCEPT ![r] = [@ EXCEPT !.pc = "running", !.action = action]]
       /\ script' = [script EXCEPT ![r] = "alive"]
       /\ NoFault

-----------------------------------------------------------------------------
(* runAction.  What the system answers (no restore point, a full disk, a   *)
(* failed row) is free when its kind is in Faults; only the failures of    *)
(* the audit log and the crashes are counted against MaxFaults.            *)

\* The answer to a denial does not depend on its audit row.
DenialWithoutRow(r, action) ==
    /\ run' = [run EXCEPT ![r] = [@ EXCEPT !.pc = "done", !.mode = "automatic", !.answer = "denied"]]
    /\ UNCHANGED script

\* The audit row of a denial is best effort: either of its two writes may fail.
LoggedDenial(r, action) ==
    \/ /\ NoFault
       /\ log' = [log EXCEPT ![r].status = "error"]
       /\ run' = [run EXCEPT ![r] = [@ EXCEPT !.pc = "done", !.mode = "automatic", !.answer = "denied"]]
       /\ UNCHANGED script
    \/ /\ Fault("log")
       /\ \/ UNCHANGED log
          \/ log' = [log EXCEPT ![r].status = "running"]
       /\ DenialWithoutRow(r, action)

\* An automatic context is always denied: runAction passes no policy, no
\* evidence and no gates to evaluateAutomationPolicy, and the catalog has no
\* action it would allow.
Deny(r, action) ==
    /\ run[r].pc = "new"
    /\ LoggedDenial(r, action)
    /\ UNCHANGED <<rb, snapshot, file, reading, crashes, undoVars>>

\* startActionLog throws: nothing has happened yet.
CannotLog(r) ==
    /\ run[r].pc = "new"
    /\ Fault("log")
    /\ run' = [run EXCEPT ![r] = [@ EXCEPT !.pc = "done", !.answer = "rejected"]]
    /\ UNCHANGED <<ledgerVars, file, script, reading, crashes, undoVars>>

\* Mutant of Logged: prepareRollback is called without an await.
LoggedAndRunning(r, action, pc) ==
    /\ log' = [log EXCEPT ![r].status = "running"]
    /\ run' = [run EXCEPT ![r] = [@ EXCEPT !.pc = pc, !.action = action]]
    /\ script' = [script EXCEPT ![r] = "alive"]

\* startActionLog, and the await of prepareRollback.
Logged(r, action, pc) ==
    /\ log' = [log EXCEPT ![r].status = "running"]
    /\ run' = [run EXCEPT ![r] = [@ EXCEPT !.pc = pc, !.action = action]]
    /\ UNCHANGED script

\* No rollback to prepare (tier C or none).
RunWithoutRollback(r, action) ==
    /\ run[r].pc = "new"
    /\ action.tier \in {"C", "none"}
    /\ RunScript(r, action, FALSE)
    /\ UNCHANGED <<rb, snapshot, file, reading, crashes, undoVars>>

\* Tier A: Create-RestorePoint.ps1 is awaited.
AskRestorePoint(r, action) ==
    /\ run[r].pc = "new"
    /\ action.tier = "A"
    /\ Logged(r, action, "restorePoint")
    /\ UNCHANGED <<rb, snapshot, file, reading, faults, crashes, undoVars>>

\* Tier B: the rollback row is there before statfs is awaited; if it or its
\* directory cannot be made the call goes on without a rollback.
BeginSnapshot(r, action) ==
    /\ run[r].pc = "new"
    /\ action.tier = "B"
    /\ \/ /\ Logged(r, action, "snapshot")
          /\ rb' = [rb EXCEPT ![r].row = TRUE]
          /\ NoFault
       \/ /\ "row" \in Faults
          /\ \/ UNCHANGED rb
             \/ rb' = [rb EXCEPT ![r].row = TRUE]
          /\ RunScript(r, action, FALSE)
    /\ UNCHANGED <<snapshot, file, reading, crashes, undoVars>>

\* updateActionLogRollbackId: when it throws the call goes on without the link.
MayLink(id) == {id} \cup (IF "row" \in Faults THEN {FALSE} ELSE {})

\* The rollback row, and so the Revert button, exists when the point does.
LinkOfRestorePoint(made) == made

RestorePointDone(r) ==
    /\ run[r].pc = "restorePoint"
    /\ \E made \in {m \in BOOLEAN : m \/ "restorePoint" \in Faults} :
          /\ rb' = IF LinkOfRestorePoint(made)
                     THEN [rb EXCEPT ![r] = [@ EXCEPT !.row = TRUE, !.rp = made]] ELSE rb
          /\ \E linked \in MayLink(LinkOfRestorePoint(made)) :
                RunScript(r, run[r].action, linked)
    /\ UNCHANGED <<snapshot, file, reading, crashes, undoVars>>

\* The files of the action, each copied or skipped when it cannot be read.
CopyOf(files, unreadable) ==
    [f \in Files |-> IF f \in files \ unreadable THEN file[f] ELSE NoCopy]

SnapshotDone(r) ==
    /\ run[r].pc = "snapshot"
    /\ \/ \E unreadable \in SUBSET run[r].action.files :
             /\ unreadable # {} => "copy" \in Faults
             /\ snapshot' = [snapshot EXCEPT ![r] = CopyOf(run[r].action.files, unreadable)]
             /\ rb' = [rb EXCEPT ![r].path = TRUE]
             /\ \E linked \in MayLink(TRUE) : RunScript(r, run[r].action, linked)
       \/ \* under 1 GB free: no snapshot, the call goes on
          /\ "lowDisk" \in Faults
          /\ RunScript(r, run[r].action, FALSE)
          /\ UNCHANGED <<snapshot, rb>>
       \/ \* the manifest or its path cannot be written: the copies are not linked
          /\ "manifest" \in Faults
          /\ RunScript(r, run[r].action, FALSE)
          /\ UNCHANGED <<snapshot, rb>>
    /\ UNCHANGED <<file, reading, crashes, undoVars>>

-----------------------------------------------------------------------------
(* The script: a process of its own, which outlives the application.       *)

\* It reads a file the action declares, and that it has not changed yet, into memory ...
ScriptReads(r) ==
    /\ script[r] = "alive"
    /\ \E f \in run[r].action.files :
          /\ r \notin file[f]
          /\ reading[r][f] = NoCopy
          /\ reading' = [reading EXCEPT ![r][f] = file[f]]
    /\ UNCHANGED <<run, ledgerVars, file, script, faults, crashes, undoVars>>

\* ... and replaces it: a merge writes back what was read, an edit of its own does not.
ScriptWrites(r) ==
    /\ script[r] = "alive"
    /\ \E f \in run[r].action.files :
          /\ reading[r][f] # NoCopy
          /\ \E kept \in {{}, reading[r][f]} : file' = [file EXCEPT ![f] = kept \cup {r}]
          /\ reading' = [reading EXCEPT ![r][f] = NoCopy]
    /\ UNCHANGED <<run, ledgerVars, script, faults, crashes, undoVars>>

\* The process is gone, and what it had read with it.
ScriptEnds(r, outcome) ==
    /\ script' = [script EXCEPT ![r] = outcome]
    /\ reading' = [reading EXCEPT ![r] = NoSnapshot]

ScriptExits(r) ==
    /\ script[r] = "alive"
    /\ \E outcome \in {"ok", "failed"} : ScriptEnds(r, outcome)
    /\ UNCHANGED <<run, ledgerVars, file, faults, crashes, undoVars>>

-----------------------------------------------------------------------------
(* The end of runAction                                                    *)

\* Mutant of StatusOf: exit 0 is success, whatever the JSON says.
ExitCodeIsTrusted(outcome) == "success"

\* A script that exits 0 with success:false is an error, like one that throws.
StatusOf(outcome) == IF outcome = "ok" THEN "success" ELSE "error"

\* The result is recorded; if that write throws, the catch records an error,
\* and if that one throws too the call rejects.
ScriptDone(r) ==
    /\ run[r].pc = "running"
    /\ script[r] \in {"ok", "failed"}
    /\ \/ Finish(r, StatusOf(script[r]), log[r].rollback, StatusOf(script[r]))
       \/ /\ Fault("log")
          /\ \/ /\ log' = [log EXCEPT ![r].status = "error"]
                /\ run' = [run EXCEPT ![r] = [@ EXCEPT !.pc = "done", !.answer = "error"]]
             \/ /\ log' = log
                /\ run' = [run EXCEPT ![r] = [@ EXCEPT !.pc = "done", !.answer = "rejected"]]
    /\ UNCHANGED <<rb, snapshot, file, script, reading, crashes, undoVars>>

\* Mutant of MayTimeOut: a plain script is waited for as long as it takes.
OnlyAdminTimesOut(action) == action.admin

\* Both runners arm a timer.
MayTimeOut(action) == TRUE

\* The timer fires.  A plain script is killed; an elevated one is not the
\* child that is killed, and goes on.  (A cancelled UAC prompt or a failed
\* spawn ends the call in the same way, with no script.)
TimeOut(r) ==
    /\ run[r].pc = "running"
    /\ script[r] = "alive"
    /\ MayTimeOut(run[r].action)
    /\ \/ Finish(r, "error", log[r].rollback, "error")
       \/ FinishThrows(r, log[r].rollback)
    /\ \/ ScriptEnds(r, "failed")
       \/ run[r].action.admin /\ UNCHANGED <<script, reading>>
    /\ UNCHANGED <<rb, snapshot, file, crashes, undoVars>>

-----------------------------------------------------------------------------
(* api:revertAction, from the Revert button of the History page            *)

\* Mutant of CanRevert: a button on every row that has a rollback.
CanRevertUnfinished(r) == log[r].rollback

\* The button is on the rows that succeeded and have a rollback.  The page may
\* show an old list, so a second click on a reverted row is possible.
CanRevert(r) == log[r].rollback /\ log[r].status = "success"

\* Mutant of NotYetReverted: the row's reverted_at is not looked at.
RevertAgain(r) == TRUE

\* revertRollback's early returns.
NotYetReverted(r) == ~rb[r].reverted

Payload(r) == {f \in Files : snapshot[r][f] # NoCopy}

\* A script of another run has read file f with the changes of run r.
HeldByAScript(r, f) ==
    \E other \in Runs \ {r} : reading[other][f] # NoCopy /\ r \in reading[other][f]

\* The copies of files go back to their places.
Restore(r, files) ==
    /\ file' = [f \in Files |-> IF f \in files THEN snapshot[r][f] ELSE file[f]]
    /\ copiedBack' = [copiedBack EXCEPT ![r] = IF files = {} THEN @ ELSE @ + 1]
    /\ returned' = [returned EXCEPT ![r] = @ \cup files]
    /\ overtaken' = [overtaken EXCEPT ![r] = @ \cup {f \in files : HeldByAScript(r, f)}]

Unmarked(r) == unmarked' = [unmarked EXCEPT ![r] = @ + 1]

\* markRollbackReverted, then the handler's markActionReverted: one that throws leaves its
\* row and what follows it undone (the handler answers E_INTERNAL).
MarkReverted(r) ==
    \/ /\ rb' = [rb EXCEPT ![r].reverted = TRUE]
       /\ log' = [log EXCEPT ![r].reverted = TRUE]
       /\ NoFault
       /\ UNCHANGED unmarked
    \/ /\ Fault("log")
       /\ \/ UNCHANGED rb
          \/ rb' = [rb EXCEPT ![r].reverted = TRUE]
       /\ Unmarked(r)
       /\ UNCHANGED log

\* The rollback can be tried: found, not expired, not reverted.
Live(r) == rb[r].row /\ ~rb[r].expired /\ NotYetReverted(r)

\* A restore point is only announced to the user, and the rows are marked.
RevertToPoint(r) ==
    /\ CanRevert(r) /\ Live(r)
    /\ rb[r].rp
    /\ MarkReverted(r)
    /\ UNCHANGED <<run, snapshot, file, script, reading, crashes, copiedBack, returned, overtaken>>

\* At least one file came back.
MarksReverted(restored) == restored # {}

\* The copies go back one by one; a changed copy or a failed write skips its
\* file.  A call without effect answers "none" and changes nothing.
RevertToSnapshot(r) ==
    /\ CanRevert(r) /\ Live(r)
    /\ ~rb[r].rp /\ rb[r].path
    /\ \E restored \in SUBSET Payload(r) :
          /\ restored # Payload(r) => "restore" \in Faults
          /\ MarksReverted(restored)
          /\ Restore(r, restored)
          /\ MarkReverted(r)
    /\ UNCHANGED <<run, snapshot, script, reading, crashes>>

\* The application dies; the scripts do not.  It may die in the middle of a
\* revert: after some of the copies, or between the marks of the two rows.
Crash ==
    /\ Fault("crash")
    /\ crashes' = crashes + 1
    /\ run' = [r \in Runs |-> IF run[r].pc = "new" THEN run[r] ELSE [run[r] EXCEPT !.pc = "done"]]
    /\ \/ UNCHANGED <<rb, file, undoVars>>
       \/ \E r \in Runs : \E restored \in SUBSET Payload(r) :
             /\ CanRevert(r) /\ Live(r)
             /\ IF rb[r].rp THEN restored = {} ELSE restored # {}
             /\ Restore(r, restored)
             /\ \/ restored # {} /\ UNCHANGED rb
                \/ rb' = [rb EXCEPT ![r].reverted = TRUE]
             /\ Unmarked(r)
    /\ UNCHANGED <<log, snapshot, script, reading>>

\* Thirty days pass.
Expire(r) ==
    /\ rb[r].row /\ ~rb[r].expired
    /\ rb' = [rb EXCEPT ![r].expired = TRUE]
    /\ UNCHANGED <<run, log, snapshot, file, script, reading, faults, crashes, undoVars>>

-----------------------------------------------------------------------------
Request(r) ==
    \E a \in Actions :
        \/ Deny(r, a) \/ RunWithoutRollback(r, a)
        \/ AskRestorePoint(r, a) \/ BeginSnapshot(r, a)

CallStep(r) ==
    \/ RestorePointDone(r) \/ SnapshotDone(r)
    \/ ScriptDone(r) \/ TimeOut(r)

ScriptStep(r) == ScriptReads(r) \/ ScriptWrites(r) \/ ScriptExits(r)

Revert(r) == RevertToPoint(r) \/ RevertToSnapshot(r)

Next ==
    \/ \E r \in Runs : \/ Request(r) \/ CannotLog(r) \/ CallStep(r) \/ ScriptStep(r)
                       \/ Revert(r) \/ Expire(r)
    \/ Crash

Spec == Init /\ [][Next]_vars

\* The awaits of a call complete, by the timer if by nothing else.  Nothing is
\* assumed of the script.
FairSpec == Spec /\ \A r \in Runs : WF_vars(CallStep(r))

-----------------------------------------------------------------------------
(* Properties                                                              *)

RunType == [pc : {"new", "restorePoint", "snapshot", "running", "done"},
            action : Actions \cup {NoAction}, mode : {"manual", "automatic"},
            answer : {"none", "success", "error", "denied", "rejected"}]
LogType == [status : {"none", "running", "success", "error"}, rollback : BOOLEAN,
            reverted : BOOLEAN]
RollbackType == [row : BOOLEAN, rp : BOOLEAN, path : BOOLEAN, reverted : BOOLEAN,
                 expired : BOOLEAN]

\* Every variable has its type; whatever is copied back, a file stays a file.
TypeOK ==
    /\ run \in [Runs -> RunType]
    /\ log \in [Runs -> LogType]
    /\ rb \in [Runs -> RollbackType]
    /\ snapshot \in [Runs -> [Files -> (SUBSET Runs) \cup {NoCopy}]]
    /\ file \in [Files -> SUBSET Runs]
    /\ script \in [Runs -> {"none", "alive", "ok", "failed"}]
    /\ reading \in [Runs -> [Files -> (SUBSET Runs) \cup {NoCopy}]]
    /\ faults \in 0..MaxFaults
    /\ crashes \in 0..faults
    /\ copiedBack \in [Runs -> Nat]
    /\ returned \in [Runs -> SUBSET Files]
    /\ unmarked \in [Runs -> Nat]
    /\ overtaken \in [Runs -> SUBSET Files]

\* "the audit log lied" must not come back: a row, or an answer, says success
\* only of a script that ended and reported success, through timeouts, failed
\* writes of the log and crashes; and what the caller was told was a success
\* is one in the log.
AuditTruth ==
    \A r \in Runs :
        /\ log[r].status = "success" => script[r] = "ok"
        /\ run[r].answer = "success" => log[r].status = "success"

\* Whatever the interleaving of calls at their awaits, a snapshot never holds
\* the changes of the run it is the undo of.
SnapshotPredatesRun ==
    \A r \in Runs : \A f \in Files : snapshot[r][f] # NoCopy => r \notin snapshot[r][f]

\* The two rows of a run agree on whether it is reverted, and a snapshot is copied back
\* once, over what was done since: only a revert that ended before it had marked both rows
\* (the application died in it, or one of the two writes failed) leaves them apart, and
\* each such revert lets the snapshot be copied back once more.
RevertIsOnce ==
    \A r \in Runs :
        /\ log[r].reverted => rb[r].reverted
        /\ rb[r].reverted => log[r].reverted \/ unmarked[r] > 0
        /\ copiedBack[r] <= 1 + unmarked[r]

\* A file that was copied back from the snapshot of a run stays without the changes of that
\* run.  Two things return them: copying back the snapshot of another run, taken while the
\* changes were there; and a script that had read the file with the changes and was still
\* running when they were undone.  (That the history lets the user revert in the wrong
\* order, and while another action runs, are hazards of the code.)
UndoneStaysUndone ==
    \A r \in Runs : \A f \in returned[r] :
        r \in file[f] =>
            \/ f \in overtaken[r]
            \/ \E other \in Runs \ {r} : f \in returned[other] /\ r \in snapshot[other][f]

\* Every call that began settles its audit row, though the script hangs and whatever
\* else fails: the row stays open only if the call rejected, because the log could not
\* be written, or the application died.
EveryRunSettles ==
    \A r \in Runs :
        run[r].pc \in {"restorePoint", "snapshot", "running"} ~>
            \/ log[r].status \in {"success", "error"}
            \/ run[r].answer = "rejected" \/ crashes > 0

-----------------------------------------------------------------------------
(* The inductive invariant behind the safety properties.                   *)

\* A script is started once, when the rollback of its call has been prepared; only then
\* can a row say success, and only the end of a call answers.
CallInv ==
    \A r \in Runs :
        /\ run[r].pc \in {"new", "restorePoint", "snapshot"} =>
              log[r].status # "success" /\ script[r] = "none"
        /\ log[r].status = "success" => run[r].pc = "done"
        /\ run[r].answer # "none" => run[r].pc = "done"

\* The runs whose changes are in the copy of a file.
CopiedRuns(s, f) == IF snapshot[s][f] = NoCopy THEN {} ELSE snapshot[s][f]

\* The runs whose changes a script has read in a file.
ReadRuns(s, f) == IF reading[s][f] = NoCopy THEN {} ELSE reading[s][f]

\* The changes of a run are in no file, no snapshot and no script's memory before its script
\* starts.
NotYetWritten ==
    \A r \in Runs : script[r] = "none" =>
        \A f \in Files :
            r \notin file[f] /\ \A s \in Runs : r \notin CopiedRuns(s, f) \cup ReadRuns(s, f)

\* Only a script that runs holds a file.
ReadingInv == \A r \in Runs : script[r] # "alive" => reading[r] = NoSnapshot

\* Only what succeeded is ever reverted, and a snapshot is copied back once, and once more
\* at most for every revert that did not mark both rows.
RevertInv ==
    \A r \in Runs :
        /\ rb[r].reverted => log[r].status = "success"
        /\ returned[r] # {} => log[r].status = "success"
        /\ copiedBack[r] <= unmarked[r] + (IF rb[r].reverted THEN 1 ELSE 0)

\* What returns the changes of run r to file f after they were undone.
MayReturn(r, f) ==
    \/ f \in overtaken[r]
    \/ \E other \in Runs \ {r} : f \in returned[other] /\ r \in snapshot[other][f]

\* Nor does a script hold them.
UndoneInv ==
    \A r \in Runs : \A f \in returned[r] :
        r \in file[f] \/ HeldByAScript(r, f) => MayReturn(r, f)

LedgerInv ==
    /\ TypeOK /\ CallInv /\ AuditTruth
    /\ NotYetWritten /\ SnapshotPredatesRun /\ ReadingInv
    /\ RevertInv /\ RevertIsOnce /\ UndoneInv

=============================================================================
