------------------------- MODULE ActionLedgerProofs -------------------------
EXTENDS ActionLedger, TLAPS

(* What the steps of a call do, variable by variable: the lemmas below take *)
(* the handlers apart once, and the proofs that follow only need this much. *)

\* The call waits for a restore point or a snapshot, or its script starts.
GoesOn(r) ==
  \E pc \in {"restorePoint", "snapshot", "running"}, a \in Actions \cup {NoAction} :
    run' = [run EXCEPT ![r] = [@ EXCEPT !.pc = pc, !.action = a]]

\* The call answers.
Ends(r) ==
  \E answer \in {"success", "error", "rejected"} :
    run' = [run EXCEPT ![r] = [@ EXCEPT !.pc = "done", !.answer = answer]]

Denied(r) ==
  run' = [run EXCEPT ![r] = [@ EXCEPT !.pc = "done", !.mode = "automatic", !.answer = "denied"]]

\* Only the row of the call itself is written, and never marked as reverted.
WritesRow(r) ==
  \/ log' = log
  \/ \E status \in {"running", "error"} : log' = [log EXCEPT ![r].status = status]
  \/ \E status \in {"running", "success", "error"}, linked \in BOOLEAN :
       log' = [log EXCEPT ![r] = [status |-> status, rollback |-> linked, reverted |-> FALSE]]

\* The rollback row of the call gets what was prepared for it.
WritesRollback(r) ==
  \/ rb' = rb
  \/ rb' = [rb EXCEPT ![r].row = TRUE]
  \/ rb' = [rb EXCEPT ![r] = [@ EXCEPT !.row = TRUE, !.rp = TRUE]]
  \/ rb' = [rb EXCEPT ![r].path = TRUE]

Called(r) == Request(r) \/ CannotLog(r) \/ CallStep(r)

\* A call whose script has not started yet.
Preparing(r) == run[r].pc \in {"new", "restorePoint", "snapshot"}

\* The call gives up: it is denied, or its audit row could not be written.
GivesUp(r) ==
  \/ Denied(r)
  \/ run' = [run EXCEPT ![r] = [@ EXCEPT !.pc = "done", !.answer = "rejected"]]

\* The row is left as it is, or its status is set, though not to a success.
SetsStatus(r) ==
  \/ log' = log
  \/ \E status \in {"running", "error"} : log' = [log EXCEPT ![r].status = status]

\* The call awaits what prepareRollback awaits.
Waits(r) ==
  \E pc \in {"restorePoint", "snapshot"}, a \in Actions :
    run' = [run EXCEPT ![r] = [@ EXCEPT !.pc = pc, !.action = a]]

\* What a call does before its script has started.
Prepares(r) ==
  \/ (GivesUp(r) \/ Waits(r)) /\ SetsStatus(r) /\ script' = script
  \/ \E a \in Actions \cup {NoAction}, linked \in BOOLEAN : RunScript(r, a, linked)

\* The steps of a call, by what they do.
LEMMA CallEffect ==
  ASSUME run \in [Runs -> RunType], NEW r \in Runs, Called(r)
  PROVE  (Preparing(r) /\ Prepares(r)) \/ ScriptDone(r) \/ TimeOut(r)
<1>0. run[r].action \in Actions \cup {NoAction}
  BY DEF RunType
<1>1. ASSUME NEW a \in Actions, Deny(r, a) PROVE Preparing(r) /\ Prepares(r)
  <2>1. GivesUp(r) /\ script' = script
    BY <1>1 DEF Deny, LoggedDenial, DenialWithoutRow, GivesUp, Denied
  <2>2. SetsStatus(r)
    BY <1>1 DEF Deny, LoggedDenial, SetsStatus
  <2> QED BY <1>1, <2>1, <2>2 DEF Deny, Preparing, Prepares
<1>2. CASE CannotLog(r)
  BY <1>2 DEF CannotLog, ledgerVars, GivesUp, SetsStatus, Preparing, Prepares
<1>3. ASSUME NEW a \in Actions, RunWithoutRollback(r, a) PROVE Preparing(r) /\ Prepares(r)
  BY <1>3 DEF RunWithoutRollback, Preparing, Prepares
<1>4. ASSUME NEW a \in Actions, NEW pc \in {"restorePoint", "snapshot"}, Logged(r, a, pc)
      PROVE  Prepares(r)
  BY <1>4 DEF Logged, Waits, SetsStatus, Prepares
<1>5. ASSUME NEW a \in Actions, AskRestorePoint(r, a) PROVE Preparing(r) /\ Prepares(r)
  BY <1>4, <1>5 DEF AskRestorePoint, Preparing
<1>6. ASSUME NEW a \in Actions, BeginSnapshot(r, a) PROVE Preparing(r) /\ Prepares(r)
  <2>1. ASSUME RunScript(r, a, FALSE) PROVE Prepares(r)
    BY <2>1 DEF Prepares
  <2> QED BY <1>4, <1>6, <2>1 DEF BeginSnapshot, Preparing
<1>7. ASSUME NEW linked \in BOOLEAN, RunScript(r, run[r].action, linked) PROVE Prepares(r)
  BY <1>0, <1>7 DEF Prepares
<1>8. CASE RestorePointDone(r)
  BY <1>7, <1>8 DEF RestorePointDone, LinkOfRestorePoint, MayLink, Preparing
<1>9. CASE SnapshotDone(r)
  BY <1>7, <1>9 DEF SnapshotDone, MayLink, Preparing
<1> QED BY <1>1, <1>2, <1>3, <1>5, <1>6, <1>8, <1>9 DEF Called, Request, CallStep

\* What a call leaves alone, and what it does to the rollback rows.
LEMMA CallFrame ==
  ASSUME NEW r \in Runs, Called(r)
  PROVE  /\ UNCHANGED <<file, crashes, undoVars>>
         /\ WritesRollback(r)
<1> USE DEF ledgerVars, undoVars, WritesRollback
<1>1. ASSUME NEW a \in Actions, Deny(r, a) \/ RunWithoutRollback(r, a) \/ AskRestorePoint(r, a)
      PROVE  UNCHANGED <<rb, file, crashes, undoVars>>
  BY <1>1 DEF Deny, RunWithoutRollback, AskRestorePoint
<1>2. ASSUME NEW a \in Actions, BeginSnapshot(r, a)
      PROVE  UNCHANGED <<file, crashes, undoVars>> /\ WritesRollback(r)
  BY <1>2 DEF BeginSnapshot
<1>3. CASE CannotLog(r) \/ ScriptDone(r) \/ TimeOut(r)
  BY <1>3 DEF CannotLog, ScriptDone, TimeOut
<1>4. CASE RestorePointDone(r)
  BY <1>4 DEF RestorePointDone, LinkOfRestorePoint
<1>5. CASE SnapshotDone(r)
  BY <1>5 DEF SnapshotDone
<1> QED BY <1>1, <1>2, <1>3, <1>4, <1>5 DEF Called, Request, CallStep

\* What the scripts have read is kept, but for the script that the call kills.
LEMMA CallReading ==
  ASSUME run \in [Runs -> RunType], NEW r \in Runs, Called(r)
  PROVE  \/ reading' = reading /\ (script' = script \/ script' = [script EXCEPT ![r] = "alive"])
         \/ ScriptEnds(r, "failed")
<1>1. CASE TimeOut(r)
  BY <1>1 DEF TimeOut
<1>2. CASE ScriptDone(r)
  BY <1>2 DEF ScriptDone
<1>3. CASE Prepares(r) /\ ~TimeOut(r)
  <2>1. script' = script \/ script' = [script EXCEPT ![r] = "alive"]
    BY <1>3 DEF Prepares, RunScript, EndsUnrun
  <2>2. CASE Request(r)
    BY <2>1, <2>2 DEF Request, Deny, RunWithoutRollback, AskRestorePoint, BeginSnapshot
  <2>3. CASE CannotLog(r) \/ RestorePointDone(r) \/ SnapshotDone(r)
    BY <2>1, <2>3 DEF CannotLog, RestorePointDone, SnapshotDone
  <2> QED BY <1>2, <1>3, <2>2, <2>3 DEF Called, CallStep
<1> QED BY <1>1, <1>2, <1>3, CallEffect

\* Every step keeps run within its type.
LEMMA RunTypeStep == run \in [Runs -> RunType] /\ [Next]_vars => run' \in [Runs -> RunType]
<1> SUFFICES ASSUME run \in [Runs -> RunType], [Next]_vars PROVE run' \in [Runs -> RunType]
  OBVIOUS
<1>1. ASSUME NEW r \in Runs, GoesOn(r) PROVE run' \in [Runs -> RunType]
  BY <1>1, ZenonT(60) DEF GoesOn, RunType
<1>2. ASSUME NEW r \in Runs, Ends(r) PROVE run' \in [Runs -> RunType]
  BY <1>2, ZenonT(60) DEF Ends, RunType
<1>3. ASSUME NEW r \in Runs, Denied(r) PROVE run' \in [Runs -> RunType]
  BY <1>3 DEF Denied, RunType
<1>4. ASSUME NEW r \in Runs, Called(r) PROVE GoesOn(r) \/ Ends(r) \/ Denied(r)
  <2>1. CASE ScriptDone(r)
    BY <2>1 DEF ScriptDone, Finish, StatusOf, Ends
  <2>2. CASE TimeOut(r)
    BY <2>2 DEF TimeOut, Finish, FinishThrows, Ends
  <2>3. CASE Prepares(r)
    BY <2>3 DEF Prepares, GivesUp, Waits, RunScript, EndsUnrun, Finish, FinishThrows, GoesOn, Ends
  <2> QED BY <1>4, <2>1, <2>2, <2>3, CallEffect
<1>5. ASSUME NEW r \in Runs, ScriptStep(r) \/ Revert(r) \/ Expire(r) PROVE run' = run
  BY <1>5 DEF ScriptStep, ScriptReads, ScriptWrites, ScriptExits, Revert, RevertToPoint,
              RevertToSnapshot, Expire
<1>6. CASE Crash
  BY <1>6 DEF Crash, RunType
<1> QED BY <1>1, <1>2, <1>3, <1>4, <1>5, <1>6 DEF Next, vars, Called

\* A call writes its own audit row only.
LEMMA CallRow ==
  ASSUME run \in [Runs -> RunType], log \in [Runs -> LogType], NEW r \in Runs, Called(r)
  PROVE  WritesRow(r)
<1>0. log[r].rollback \in BOOLEAN
  BY DEF LogType
<1>1. ASSUME NEW status \in {"running", "success", "error"}, NEW linked \in BOOLEAN,
             log' = [log EXCEPT ![r] = [status |-> status, rollback |-> linked,
                                        reverted |-> FALSE]]
      PROVE  WritesRow(r)
  BY <1>1 DEF WritesRow
<1>2. ASSUME SetsStatus(r) PROVE WritesRow(r)
  BY <1>2 DEF SetsStatus, WritesRow
<1>3. CASE ScriptDone(r)
  <2>1. ASSUME NEW answer, Finish(r, StatusOf(script[r]), log[r].rollback, answer)
        PROVE  WritesRow(r)
    BY <1>0, <1>1, <2>1 DEF Finish, StatusOf
  <2>2. \/ Finish(r, StatusOf(script[r]), log[r].rollback, StatusOf(script[r]))
        \/ SetsStatus(r)
    BY <1>3 DEF ScriptDone, SetsStatus
  <2> QED BY <1>2, <2>1, <2>2
<1>4. CASE TimeOut(r)
  BY <1>0, <1>1, <1>4 DEF TimeOut, Finish, FinishThrows
<1>5. ASSUME NEW a, NEW linked \in BOOLEAN, RunScript(r, a, linked) PROVE WritesRow(r)
  BY <1>1, <1>5 DEF RunScript, EndsUnrun, Finish, FinishThrows
<1> QED BY <1>2, <1>3, <1>4, <1>5, CallEffect DEF Prepares

\* Every step keeps the two tables within their types.
LEMMA TablesTypeStep ==
  ASSUME run \in [Runs -> RunType], log \in [Runs -> LogType], rb \in [Runs -> RollbackType],
         [Next]_vars
  PROVE  log' \in [Runs -> LogType] /\ rb' \in [Runs -> RollbackType]
<1>1. ASSUME NEW r \in Runs, WritesRow(r) PROVE log' \in [Runs -> LogType]
  <2>1. ASSUME NEW status \in {"running", "error"}, log' = [log EXCEPT ![r].status = status]
        PROVE  log' \in [Runs -> LogType]
    BY <2>1 DEF LogType
  <2>2. ASSUME NEW status \in {"running", "success", "error"}, NEW linked \in BOOLEAN,
               log' = [log EXCEPT ![r] = [status |-> status, rollback |-> linked,
                                          reverted |-> FALSE]]
        PROVE  log' \in [Runs -> LogType]
    BY <2>2 DEF LogType
  <2> QED BY <1>1, <2>1, <2>2 DEF WritesRow
<1>2. ASSUME NEW r \in Runs, WritesRollback(r) PROVE rb' \in [Runs -> RollbackType]
  <2>1. CASE rb' = rb
    BY <2>1
  <2>2. CASE rb' = [rb EXCEPT ![r].row = TRUE]
    BY <2>2 DEF RollbackType
  <2>3. CASE rb' = [rb EXCEPT ![r] = [@ EXCEPT !.row = TRUE, !.rp = TRUE]]
    BY <2>3 DEF RollbackType
  <2>4. CASE rb' = [rb EXCEPT ![r].path = TRUE]
    BY <2>4 DEF RollbackType
  <2> QED BY <1>2, <2>1, <2>2, <2>3, <2>4 DEF WritesRollback
<1>3. ASSUME NEW r \in Runs, Called(r) PROVE WritesRow(r)
  BY <1>3, CallRow
<1>4. ASSUME NEW r \in Runs, MarkReverted(r)
      PROVE  log' \in [Runs -> LogType] /\ rb' \in [Runs -> RollbackType]
  <2>1. log' \in [Runs -> LogType]
    BY <1>4 DEF MarkReverted, LogType
  <2>2. rb' \in [Runs -> RollbackType]
    BY <1>4 DEF MarkReverted, RollbackType
  <2> QED BY <2>1, <2>2
<1>5. ASSUME NEW r \in Runs, Revert(r) PROVE MarkReverted(r)
  BY <1>5 DEF Revert, RevertToPoint, RevertToSnapshot
<1>6. ASSUME NEW r \in Runs, Expire(r)
      PROVE  log' = log /\ rb' \in [Runs -> RollbackType]
  <2>1. log' = log /\ rb' = [rb EXCEPT ![r].expired = TRUE]
    BY <1>6 DEF Expire
  <2> QED BY <2>1 DEF RollbackType
<1>7. CASE Crash
  <2>1. /\ log' = log
        /\ rb' = rb \/ \E r \in Runs : rb' = [rb EXCEPT ![r].reverted = TRUE]
    BY <1>7 DEF Crash
  <2> QED BY <2>1, ZenonT(60) DEF RollbackType
<1>8. ASSUME NEW r \in Runs, ScriptStep(r) PROVE log' = log /\ rb' = rb
  BY <1>8 DEF ScriptStep, ScriptReads, ScriptWrites, ScriptExits, ledgerVars
<1> QED
  BY <1>1, <1>2, <1>3, <1>4, <1>5, <1>6, <1>7, <1>8, CallFrame DEF Next, vars, Called

\* Only SnapshotDone takes a snapshot, and it copies files as they are.
TakesSnapshot(r) ==
  /\ run[r].pc = "snapshot"
  /\ \E copy \in [Files -> (SUBSET Runs) \cup {NoCopy}] :
       /\ \A f \in Files : copy[f] = NoCopy \/ copy[f] = file[f]
       /\ snapshot' = [snapshot EXCEPT ![r] = copy]

LEMMA SnapshotEffect ==
  ASSUME file \in [Files -> SUBSET Runs], NEW r \in Runs, Called(r)
  PROVE  snapshot' = snapshot \/ TakesSnapshot(r)
<1>1. CASE CannotLog(r) \/ RestorePointDone(r) \/ ScriptDone(r) \/ TimeOut(r)
  BY <1>1 DEF CannotLog, ledgerVars, RestorePointDone, ScriptDone, TimeOut
<1>2. CASE Request(r)
  BY <1>2 DEF Request, Deny, RunWithoutRollback, AskRestorePoint, BeginSnapshot
<1>3. CASE SnapshotDone(r)
  <2>1. ASSUME NEW files, NEW unreadable
        PROVE  /\ CopyOf(files, unreadable) \in [Files -> (SUBSET Runs) \cup {NoCopy}]
               /\ \A f \in Files : \/ CopyOf(files, unreadable)[f] = NoCopy
                                   \/ CopyOf(files, unreadable)[f] = file[f]
    BY DEF CopyOf
  <2>2. \/ snapshot' = snapshot
        \/ \E unreadable :
             snapshot' = [snapshot EXCEPT ![r] = CopyOf(run[r].action.files, unreadable)]
    BY <1>3 DEF SnapshotDone
  <2>3. run[r].pc = "snapshot"
    BY <1>3 DEF SnapshotDone
  <2> QED BY <2>1, <2>2, <2>3 DEF TakesSnapshot
<1> QED BY <1>1, <1>2, <1>3 DEF Called, CallStep

\* A revert of a run puts copies of its snapshot back, no file when it has a restore point.
Reverts(r) ==
  /\ CanRevert(r) /\ Live(r)
  /\ \E files \in SUBSET Payload(r) : Restore(r, files)

LEMMA RestoreNothing ==
  ASSUME file \in [Files -> SUBSET Runs], copiedBack \in [Runs -> Nat],
         returned \in [Runs -> SUBSET Files], overtaken \in [Runs -> SUBSET Files],
         NEW r \in Runs, UNCHANGED <<file, copiedBack, returned, overtaken>>
  PROVE  Restore(r, {})
BY DEF Restore

LEMMA RevertEffect ==
  ASSUME file \in [Files -> SUBSET Runs], copiedBack \in [Runs -> Nat],
         returned \in [Runs -> SUBSET Files], overtaken \in [Runs -> SUBSET Files],
         NEW r \in Runs, Revert(r)
  PROVE  Reverts(r) /\ MarkReverted(r) /\ UNCHANGED <<run, snapshot, script, reading, crashes>>
<1>1. CASE RevertToPoint(r)
  <2>1. CanRevert(r) /\ Live(r) /\ UNCHANGED <<file, copiedBack, returned, overtaken>>
    BY <1>1 DEF RevertToPoint
  <2>2. Reverts(r)
    BY <2>1, RestoreNothing DEF Reverts
  <2> QED BY <1>1, <2>2 DEF RevertToPoint
<1>2. CASE RevertToSnapshot(r)
  BY <1>2 DEF RevertToSnapshot, Reverts
<1> QED BY <1>1, <1>2 DEF Revert

LEMMA CrashEffect ==
  ASSUME Crash
  PROVE  /\ crashes' = crashes + 1
         /\ UNCHANGED <<log, snapshot, script, reading>>
         /\ \/ UNCHANGED <<rb, file, undoVars>>
            \/ \E r \in Runs : /\ Reverts(r) /\ Unmarked(r)
                               /\ rb' = rb \/ rb' = [rb EXCEPT ![r].reverted = TRUE]
<1>1. ASSUME NEW r \in Runs, NEW restored \in SUBSET Payload(r), CanRevert(r), Live(r),
             Restore(r, restored)
      PROVE  Reverts(r)
  BY <1>1 DEF Reverts
<1> QED BY <1>1 DEF Crash

\* A revert that does not mark both rows is counted.
LEMMA MarkEffect ==
  ASSUME NEW r \in Runs, MarkReverted(r)
  PROVE  \/ /\ rb' = [rb EXCEPT ![r].reverted = TRUE]
            /\ log' = [log EXCEPT ![r].reverted = TRUE]
            /\ unmarked' = unmarked
         \/ /\ rb' = rb \/ rb' = [rb EXCEPT ![r].reverted = TRUE]
            /\ log' = log
            /\ Unmarked(r)
BY DEF MarkReverted

\* Every step keeps the files, the snapshots, the scripts and the counters in their types.
LEMMA RestTypeStep ==
  ASSUME TypeOK, [Next]_vars
  PROVE  /\ snapshot' \in [Runs -> [Files -> (SUBSET Runs) \cup {NoCopy}]]
         /\ file' \in [Files -> SUBSET Runs]
         /\ copiedBack' \in [Runs -> Nat]
         /\ returned' \in [Runs -> SUBSET Files]
         /\ overtaken' \in [Runs -> SUBSET Files]
         /\ unmarked' \in [Runs -> Nat]
<1> USE DEF TypeOK
<1>1. ASSUME NEW r \in Runs, NEW files \in SUBSET Payload(r), Restore(r, files)
      PROVE  /\ file' \in [Files -> SUBSET Runs]
             /\ copiedBack' \in [Runs -> Nat]
             /\ returned' \in [Runs -> SUBSET Files]
             /\ overtaken' \in [Runs -> SUBSET Files]
  <2>1. files \subseteq Files /\ \A f \in files : snapshot[r][f] \in SUBSET Runs
    BY DEF Payload
  <2>2. file' \in [Files -> SUBSET Runs]
    BY <1>1, <2>1 DEF Restore
  <2>3. copiedBack' \in [Runs -> Nat]
    BY <1>1 DEF Restore
  <2>4. returned' \in [Runs -> SUBSET Files]
    BY <1>1, <2>1 DEF Restore
  <2>5. overtaken' \in [Runs -> SUBSET Files]
    <3>1. {f \in files : HeldByAScript(r, f)} \subseteq Files
      BY <2>1
    <3> QED BY <1>1, <3>1 DEF Restore
  <2> QED BY <2>2, <2>3, <2>4, <2>5
<1>2. ASSUME NEW r \in Runs, Called(r)
      PROVE  /\ snapshot' \in [Runs -> [Files -> (SUBSET Runs) \cup {NoCopy}]]
             /\ UNCHANGED <<file, undoVars>>
  <2>1. ASSUME TakesSnapshot(r)
        PROVE  snapshot' \in [Runs -> [Files -> (SUBSET Runs) \cup {NoCopy}]]
    BY <2>1 DEF TakesSnapshot
  <2> QED BY <1>2, <2>1, SnapshotEffect, CallFrame
<1>3. ASSUME NEW r \in Runs, ScriptStep(r)
      PROVE  UNCHANGED <<snapshot, undoVars>> /\ file' \in [Files -> SUBSET Runs]
  <2>1. UNCHANGED <<snapshot, undoVars>>
    BY <1>3 DEF ScriptStep, ScriptReads, ScriptWrites, ScriptExits, ledgerVars
  <2>2. ASSUME NEW f, reading[r][f] # NoCopy PROVE f \in Files => reading[r][f] \in SUBSET Runs
    BY <2>2
  <2>3. CASE ScriptWrites(r)
    <3>1. PICK f \in run[r].action.files :
             /\ reading[r][f] # NoCopy
             /\ \E kept \in {{}, reading[r][f]} : file' = [file EXCEPT ![f] = kept \cup {r}]
      BY <2>3 DEF ScriptWrites
    <3>2. PICK kept \in {{}, reading[r][f]} : file' = [file EXCEPT ![f] = kept \cup {r}]
      BY <3>1
    <3>3. f \in Files => kept \cup {r} \in SUBSET Runs
      BY <2>2, <3>1
    <3>4. CASE f \in Files
      <4> DEFINE content == kept \cup {r}
      <4>1. content \in SUBSET Runs /\ file' = [file EXCEPT ![f] = content]
        BY <3>2, <3>3, <3>4
      <4> HIDE DEF content
      <4> QED BY <2>1, <4>1
    <3>5. CASE f \notin Files
      <4>1. file' = file
        BY <3>2, <3>5
      <4> QED BY <2>1, <4>1
    <3> QED BY <3>4, <3>5
  <2> QED BY <1>3, <2>1, <2>3 DEF ScriptStep, ScriptReads, ScriptExits
<1>4. ASSUME NEW r \in Runs, Revert(r)
      PROVE  snapshot' = snapshot /\ \E files \in SUBSET Payload(r) : Restore(r, files)
  BY <1>4, RevertEffect DEF Reverts
<1>5. ASSUME NEW r \in Runs, Expire(r) PROVE UNCHANGED <<snapshot, file, undoVars>>
  BY <1>5 DEF Expire
<1>6. ASSUME NEW r \in Runs, Unmarked(r) PROVE unmarked' \in [Runs -> Nat]
  BY <1>6 DEF Unmarked
<1>7. ASSUME NEW r \in Runs, Revert(r) PROVE unmarked' \in [Runs -> Nat]
  BY <1>6, <1>7, RevertEffect, MarkEffect
<1>8. CASE Crash
  BY <1>1, <1>6, <1>8, CrashEffect DEF Reverts, undoVars
<1> QED BY <1>1, <1>2, <1>3, <1>4, <1>5, <1>7, <1>8 DEF Next, vars, Called, undoVars

\* So does what the scripts have read.
LEMMA ReadingTypeStep ==
  ASSUME TypeOK, [Next]_vars
  PROVE  reading' \in [Runs -> [Files -> (SUBSET Runs) \cup {NoCopy}]]
<1> DEFINE Contents == [Files -> (SUBSET Runs) \cup {NoCopy}]
<1>0. reading \in [Runs -> Contents] /\ NoSnapshot \in Contents
  BY DEF TypeOK, NoSnapshot
<1>1. ASSUME NEW r \in Runs, NEW to, ScriptEnds(r, to) PROVE reading' \in [Runs -> Contents]
  BY <1>0, <1>1 DEF ScriptEnds
<1>2. ASSUME NEW r \in Runs, Called(r) PROVE reading' \in [Runs -> Contents]
  BY <1>0, <1>1, <1>2, CallReading DEF TypeOK
<1>3. ASSUME NEW r \in Runs, ScriptStep(r) PROVE reading' \in [Runs -> Contents]
  <2>1. \/ \E f : reading' = [reading EXCEPT ![r][f] = NoCopy]
        \/ \E f \in Files : reading' = [reading EXCEPT ![r][f] = file[f]]
        \/ reading' = reading
        \/ \E to : ScriptEnds(r, to)
    <3>1. CASE ScriptReads(r)
      <4>1. PICK f \in run[r].action.files : reading' = [reading EXCEPT ![r][f] = file[f]]
        BY <3>1 DEF ScriptReads
      <4>2. CASE f \notin Files
        BY <1>0, <4>1, <4>2
      <4> QED BY <4>1, <4>2
    <3>2. CASE ScriptWrites(r)
      BY <3>2 DEF ScriptWrites
    <3>3. CASE ScriptExits(r)
      BY <3>3 DEF ScriptExits
    <3> QED BY <1>3, <3>1, <3>2, <3>3 DEF ScriptStep
  <2>2. ASSUME NEW f, reading' = [reading EXCEPT ![r][f] = NoCopy]
        PROVE  reading' \in [Runs -> Contents]
    BY <1>0, <2>2
  <2>3. ASSUME NEW f \in Files, reading' = [reading EXCEPT ![r][f] = file[f]]
        PROVE  reading' \in [Runs -> Contents]
    BY <1>0, <2>3 DEF TypeOK
  <2> QED BY <1>0, <1>1, <2>1, <2>2, <2>3
<1>4. ASSUME NEW r \in Runs, Revert(r) \/ Expire(r) PROVE reading' = reading
  BY <1>4, RevertEffect DEF Expire, TypeOK
<1>5. CASE Crash
  BY <1>0, <1>5 DEF Crash
<1> QED BY <1>0, <1>2, <1>3, <1>4, <1>5 DEF Next, vars, Called

\* Every fault is counted once, and every crash is one.
LEMMA FaultsStep ==
  ASSUME [Next]_vars
  PROVE  \/ UNCHANGED <<faults, crashes>>
         \/ /\ faults < MaxFaults /\ faults' = faults + 1
            /\ crashes' = crashes \/ crashes' = crashes + 1
<1>1. ASSUME NEW r \in Runs, NEW a, NEW linked, RunScript(r, a, linked)
      PROVE  UNCHANGED faults \/ Fault("log")
  BY <1>1 DEF RunScript, EndsUnrun, Finish, FinishThrows, NoFault
<1>2. ASSUME NEW r \in Runs, Request(r) PROVE UNCHANGED faults \/ Fault("log")
  <2>1. ASSUME NEW a \in Actions, Deny(r, a) PROVE UNCHANGED faults \/ Fault("log")
    BY <2>1 DEF Deny, LoggedDenial, NoFault
  <2>2. ASSUME NEW a \in Actions, BeginSnapshot(r, a) PROVE UNCHANGED faults \/ Fault("log")
    BY <1>1, <2>2 DEF BeginSnapshot, NoFault
  <2> QED BY <1>1, <1>2, <2>1, <2>2 DEF Request, RunWithoutRollback, AskRestorePoint
<1>3. ASSUME NEW r \in Runs, CallStep(r) PROVE UNCHANGED faults \/ Fault("log")
  <2>1. CASE RestorePointDone(r)
    BY <1>1, <2>1 DEF RestorePointDone
  <2>2. CASE SnapshotDone(r)
    BY <1>1, <2>2 DEF SnapshotDone
  <2>3. CASE ScriptDone(r) \/ TimeOut(r)
    BY <2>3 DEF ScriptDone, TimeOut, Finish, FinishThrows, NoFault
  <2> QED BY <1>3, <2>1, <2>2, <2>3 DEF CallStep
<1>4. ASSUME NEW r \in Runs, ScriptStep(r) \/ Expire(r) PROVE UNCHANGED <<faults, crashes>>
  BY <1>4 DEF ScriptStep, ScriptReads, ScriptWrites, ScriptExits, Expire
<1>7. ASSUME NEW r \in Runs, Revert(r)
      PROVE  (UNCHANGED faults \/ Fault("log")) /\ crashes' = crashes
  BY <1>7 DEF Revert, RevertToPoint, RevertToSnapshot, MarkReverted, NoFault
<1>5. ASSUME NEW r \in Runs, Called(r)
      PROVE  (UNCHANGED faults \/ Fault("log")) /\ crashes' = crashes
  BY <1>2, <1>3, <1>5, CallFrame DEF Called, CannotLog
<1>6. CASE Crash
  BY <1>6 DEF Crash, Fault
<1> QED BY <1>4, <1>5, <1>6, <1>7 DEF Next, vars, Called, Fault

LEMMA ScriptTypeStep ==
  ASSUME TypeOK, [Next]_vars
  PROVE  script' \in [Runs -> {"none", "alive", "ok", "failed"}]
<1> USE DEF TypeOK
<1>1. ASSUME NEW r \in Runs, Called(r)
      PROVE  script' = script \/ \E to \in {"alive", "failed"} : script' = [script EXCEPT ![r] = to]
  BY <1>1, CallEffect DEF Prepares, RunScript, EndsUnrun, ScriptDone, TimeOut, ScriptEnds
<1>2. ASSUME NEW r \in Runs, ScriptStep(r)
      PROVE  script' = script \/ \E to \in {"ok", "failed"} : script' = [script EXCEPT ![r] = to]
  BY <1>2 DEF ScriptStep, ScriptReads, ScriptWrites, ScriptExits, ScriptEnds
<1>3. ASSUME NEW r \in Runs, Revert(r) \/ Expire(r) PROVE script' = script
  BY <1>3 DEF Revert, RevertToPoint, RevertToSnapshot, Expire
<1>4. CASE Crash
  BY <1>4 DEF Crash
<1> QED BY <1>1, <1>2, <1>3, <1>4 DEF Next, vars, Called

LEMMA TypeStep == TypeOK /\ [Next]_vars => TypeOK'
<1> SUFFICES ASSUME TypeOK, [Next]_vars PROVE TypeOK'
  OBVIOUS
<1>1. run' \in [Runs -> RunType]
  BY RunTypeStep DEF TypeOK
<1>2. log' \in [Runs -> LogType] /\ rb' \in [Runs -> RollbackType]
  BY TablesTypeStep DEF TypeOK
<1>3. faults' \in 0..MaxFaults /\ crashes' \in 0..faults'
  BY FaultsStep, FaultAssumption DEF TypeOK
<1> QED BY <1>1, <1>2, <1>3, RestTypeStep, ReadingTypeStep, ScriptTypeStep DEF TypeOK

(* The calls and their audit rows. *)

\* A step of a call is about that call alone.
LEMMA CallLocal ==
  ASSUME TypeOK, NEW r \in Runs, Called(r), NEW s \in Runs \ {r}
  PROVE  /\ run'[s] = run[s] /\ log'[s] = log[s] /\ script'[s] = script[s]
         /\ rb'[s] = rb[s] /\ snapshot'[s] = snapshot[s]
<1> USE DEF TypeOK
<1>1. ASSUME Prepares(r) PROVE run'[s] = run[s] /\ log'[s] = log[s] /\ script'[s] = script[s]
  BY <1>1 DEF Prepares, GivesUp, Denied, Waits, SetsStatus, RunScript, EndsUnrun, Finish,
              FinishThrows
<1>2. ASSUME ScriptDone(r) \/ TimeOut(r)
      PROVE  run'[s] = run[s] /\ log'[s] = log[s] /\ script'[s] = script[s]
  BY <1>2 DEF ScriptDone, TimeOut, ScriptEnds, Finish, FinishThrows
<1>3. rb'[s] = rb[s]
  BY CallFrame DEF WritesRollback
<1>4. snapshot'[s] = snapshot[s]
  BY SnapshotEffect DEF TakesSnapshot
<1> QED BY <1>1, <1>2, <1>3, <1>4, CallEffect

\* What CallInv and AuditTruth say of one call.
CallOK(c, row, process) ==
  /\ c.pc \in {"new", "restorePoint", "snapshot"} => row.status # "success" /\ process = "none"
  /\ row.status = "success" => c.pc = "done" /\ process = "ok"
  /\ c.answer # "none" => c.pc = "done"
  /\ c.answer = "success" => row.status = "success"

LEMMA CallOKDef ==
  CallInv /\ AuditTruth <=> \A r \in Runs : CallOK(run[r], log[r], script[r])
BY DEF CallInv, AuditTruth, CallOK

LEMMA FinishOK ==
  ASSUME TypeOK, NEW r \in Runs, NEW status \in {"success", "error"}, NEW linked \in BOOLEAN,
         Finish(r, status, linked, status)
  PROVE  /\ run'[r].pc = "done" /\ run'[r].answer = status /\ log'[r].status = status
BY DEF Finish, TypeOK, RunType

LEMMA FinishThrowsOK ==
  ASSUME TypeOK, NEW r \in Runs, NEW linked \in BOOLEAN, FinishThrows(r, linked)
  PROVE  run'[r].pc = "done" /\ run'[r].answer = "rejected" /\ log'[r].status = "running"
BY DEF FinishThrows, TypeOK, RunType

LEMMA PreparesOK ==
  ASSUME TypeOK, NEW r \in Runs, CallOK(run[r], log[r], script[r]), Preparing(r), Prepares(r)
  PROVE  CallOK(run'[r], log'[r], script'[r])
<1>t. run \in [Runs -> RunType]
  BY DEF TypeOK
<1>0. log[r].status # "success" /\ script[r] = "none" /\ run[r].answer = "none"
  BY DEF CallOK, Preparing
<1>1. ASSUME NEW a \in Actions \cup {NoAction}, NEW linked \in BOOLEAN, RunScript(r, a, linked)
      PROVE  CallOK(run'[r], log'[r], script'[r])
  <2>1. CASE Finish(r, "error", linked, "error") /\ UNCHANGED script
    BY <2>1, FinishOK DEF CallOK
  <2>2. CASE FinishThrows(r, linked) /\ UNCHANGED script
    BY <2>2, FinishThrowsOK DEF CallOK
  <2>3. CASE /\ log' = [log EXCEPT ![r] = [status |-> "running", rollback |-> linked,
                                           reverted |-> FALSE]]
             /\ run' = [run EXCEPT ![r] = [@ EXCEPT !.pc = "running", !.action = a]]
    <3>1. log'[r].status = "running"
      BY <2>3 DEF TypeOK
    <3>2. run'[r].pc = "running" /\ run'[r].answer = run[r].answer
      BY <2>3 DEF TypeOK, RunType
    <3> QED BY <1>0, <3>1, <3>2 DEF CallOK
  <2> QED BY <1>1, <2>1, <2>2, <2>3 DEF RunScript, EndsUnrun
<1>2. ASSUME GivesUp(r) \/ Waits(r), SetsStatus(r), script' = script
      PROVE  CallOK(run'[r], log'[r], script'[r])
  <2>1. log'[r].status # "success"
    BY <1>0, <1>2 DEF SetsStatus, TypeOK, LogType
  <2>2. CASE GivesUp(r)
    <3>1. run'[r].pc = "done" /\ run'[r].answer \in {"denied", "rejected"}
      BY <1>t, <2>2 DEF GivesUp, Denied, RunType
    <3> QED BY <2>1, <3>1 DEF CallOK
  <2>3. CASE Waits(r)
    <3>1. run'[r].pc \in {"restorePoint", "snapshot"} /\ run'[r].answer = "none"
      BY <1>0, <2>3 DEF Waits, TypeOK, RunType
    <3> QED BY <1>0, <1>2, <2>1, <3>1 DEF CallOK
  <2> QED BY <1>2, <2>2, <2>3
<1> QED BY <1>1, <1>2 DEF Prepares

LEMMA CallInvStep == TypeOK /\ CallInv /\ AuditTruth /\ [Next]_vars => CallInv' /\ AuditTruth'
<1> SUFFICES ASSUME TypeOK, \A s \in Runs : CallOK(run[s], log[s], script[s]), [Next]_vars,
                    NEW s \in Runs
             PROVE  CallOK(run'[s], log'[s], script'[s])
  BY CallOKDef DEF CallOK, CallInv, AuditTruth
<1>1. ASSUME NEW r \in Runs, Called(r) PROVE CallOK(run'[r], log'[r], script'[r])
  <2>1. CASE ScriptDone(r)
    <3>1. log[r].status # "success" /\ run[r].answer = "none" /\ UNCHANGED script
      BY <2>1 DEF ScriptDone, CallOK
    <3>2. CASE Finish(r, StatusOf(script[r]), log[r].rollback, StatusOf(script[r]))
      <4>1. log[r].rollback \in BOOLEAN
        BY DEF TypeOK, LogType
      <4>2. StatusOf(script[r]) \in {"success", "error"}
        BY DEF StatusOf
      <4>3. StatusOf(script[r]) = "success" => script[r] = "ok"
        BY DEF StatusOf
      <4> QED BY <3>1, <3>2, <4>1, <4>2, <4>3, FinishOK DEF CallOK
    <3>3. CASE /\ log' = [log EXCEPT ![r].status = "error"]
               /\ run' = [run EXCEPT ![r] = [@ EXCEPT !.pc = "done", !.answer = "error"]]
      <4>1. log'[r].status = "error"
        BY <3>3 DEF TypeOK, LogType
      <4>2. run'[r].pc = "done" /\ run'[r].answer = "error"
        BY <3>3 DEF TypeOK, RunType
      <4> QED BY <4>1, <4>2 DEF CallOK
    <3>4. CASE /\ log' = log
               /\ run' = [run EXCEPT ![r] = [@ EXCEPT !.pc = "done", !.answer = "rejected"]]
      <4>1. run'[r].pc = "done" /\ run'[r].answer = "rejected"
        BY <3>4 DEF TypeOK, RunType
      <4> QED BY <3>1, <3>4, <4>1 DEF CallOK
    <3> QED BY <2>1, <3>2, <3>3, <3>4 DEF ScriptDone
  <2>2. CASE TimeOut(r)
    <3>1. log[r].rollback \in BOOLEAN
      BY DEF TypeOK, LogType
    <3>2. CASE Finish(r, "error", log[r].rollback, "error")
      BY <3>1, <3>2, FinishOK DEF CallOK
    <3>3. CASE FinishThrows(r, log[r].rollback)
      BY <3>1, <3>3, FinishThrowsOK DEF CallOK
    <3> QED BY <2>2, <3>2, <3>3 DEF TimeOut
  <2> QED BY <1>1, <2>1, <2>2, CallEffect, PreparesOK DEF TypeOK
<1>2. ASSUME NEW r \in Runs, Called(r), s # r PROVE CallOK(run'[s], log'[s], script'[s])
  BY <1>2, CallLocal
<1>3. ASSUME NEW r \in Runs, ScriptStep(r) PROVE CallOK(run'[s], log'[s], script'[s])
  <2>1. UNCHANGED <<run, log>>
    BY <1>3 DEF ScriptStep, ScriptReads, ScriptWrites, ScriptExits, ledgerVars
  <2>2. CASE ScriptReads(r) \/ ScriptWrites(r)
    BY <2>1, <2>2 DEF ScriptReads, ScriptWrites
  <2>3. CASE ScriptExits(r)
    <3>1. script'[s] = script[s] \/ (script[s] = "alive" /\ script'[s] # "none")
      BY <2>3 DEF ScriptExits, ScriptEnds, TypeOK
    <3> QED BY <2>1, <3>1 DEF CallOK
  <2> QED BY <1>3, <2>2, <2>3 DEF ScriptStep
<1>4. ASSUME NEW r \in Runs, Revert(r) PROVE CallOK(run'[s], log'[s], script'[s])
  <2>1. /\ UNCHANGED <<run, script>>
        /\ log' = log \/ log' = [log EXCEPT ![r].reverted = TRUE]
    BY <1>4, RevertEffect, MarkEffect DEF TypeOK
  <2>2. ASSUME log' = [log EXCEPT ![r].reverted = TRUE] PROVE log'[s].status = log[s].status
    BY <2>2 DEF TypeOK, LogType
  <2>3. log'[s].status = log[s].status
    BY <2>1, <2>2
  <2> QED BY <2>1, <2>3 DEF CallOK
<1>5. ASSUME NEW r \in Runs, Expire(r) PROVE CallOK(run'[s], log'[s], script'[s])
  BY <1>5 DEF Expire
<1>6. CASE Crash
  <2>1. UNCHANGED <<log, script>>
    BY <1>6 DEF Crash
  <2>2. \/ run'[s] = run[s]
        \/ /\ run[s].pc # "new"
           /\ run'[s].pc = "done" /\ run'[s].answer = run[s].answer
    BY <1>6 DEF Crash, TypeOK, RunType
  <2> QED BY <2>1, <2>2 DEF CallOK
<1> QED BY <1>1, <1>2, <1>3, <1>4, <1>5, <1>6 DEF Next, vars, Called

(* The files and their copies. *)

\* A script that has started has not "not started" again.
LEMMA ScriptStartsOnce ==
  ASSUME TypeOK, [Next]_vars, NEW s \in Runs, script'[s] = "none"
  PROVE  script[s] = "none"
<1>1. ASSUME NEW r \in Runs, Called(r)
      PROVE  script' = script \/ \E to \in {"alive", "failed"} : script' = [script EXCEPT ![r] = to]
  BY <1>1, CallEffect DEF Prepares, RunScript, EndsUnrun, ScriptDone, TimeOut, ScriptEnds, TypeOK
<1>2. ASSUME NEW r \in Runs, ScriptStep(r)
      PROVE  script' = script \/ \E to \in {"ok", "failed"} : script' = [script EXCEPT ![r] = to]
  BY <1>2 DEF ScriptStep, ScriptReads, ScriptWrites, ScriptExits, ScriptEnds
<1>3. ASSUME NEW r \in Runs, Revert(r) \/ Expire(r) PROVE script' = script
  BY <1>3 DEF Revert, RevertToPoint, RevertToSnapshot, Expire
<1>4. CASE Crash
  BY <1>4 DEF Crash
<1> QED BY <1>1, <1>2, <1>3, <1>4 DEF Next, vars, Called, TypeOK

\* What a script has read after a step it had read, or the file holds it.
LEMMA ReadingStep ==
  ASSUME TypeOK, [Next]_vars, NEW s \in Runs, NEW f \in Files
  PROVE  \/ reading'[s][f] = reading[s][f]
         \/ reading'[s][f] = NoCopy
         \/ reading'[s][f] = file[f]
<1>0. /\ reading \in [Runs -> [Files -> (SUBSET Runs) \cup {NoCopy}]]
      /\ NoSnapshot[f] = NoCopy
  BY DEF TypeOK, NoSnapshot
<1>1. ASSUME NEW r \in Runs, NEW to, ScriptEnds(r, to)
      PROVE  reading'[s][f] = reading[s][f] \/ reading'[s][f] = NoCopy
  BY <1>0, <1>1 DEF ScriptEnds
<1>2. ASSUME NEW r \in Runs, ScriptStep(r)
      PROVE  \/ reading'[s][f] = reading[s][f]
             \/ reading'[s][f] = NoCopy
             \/ reading'[s][f] = file[f]
  <2>1. CASE ScriptReads(r)
    <3>1. PICK g \in run[r].action.files : reading' = [reading EXCEPT ![r][g] = file[g]]
      BY <2>1 DEF ScriptReads
    <3> QED BY <1>0, <3>1
  <2>2. CASE ScriptWrites(r)
    <3>1. PICK g \in run[r].action.files : reading' = [reading EXCEPT ![r][g] = NoCopy]
      BY <2>2 DEF ScriptWrites
    <3> QED BY <1>0, <3>1
  <2>3. CASE ScriptExits(r)
    BY <1>1, <2>3 DEF ScriptExits
  <2> QED BY <1>2, <2>1, <2>2, <2>3 DEF ScriptStep
<1>3. ASSUME NEW r \in Runs, Called(r) PROVE reading' = reading \/ \E to : ScriptEnds(r, to)
  BY <1>3, CallReading DEF TypeOK
<1>4. ASSUME NEW r \in Runs, Revert(r) \/ Expire(r) PROVE reading' = reading
  BY <1>4, RevertEffect DEF Expire, TypeOK
<1>5. CASE Crash
  BY <1>5 DEF Crash
<1> QED BY <1>1, <1>2, <1>3, <1>4, <1>5 DEF Next, vars, Called

\* What a file holds after a step was there, is in a copy, or is what a script that runs has
\* read in it with its own changes.
LEMMA FileStep ==
  ASSUME TypeOK, [Next]_vars, NEW f \in Files
  PROVE  \/ file'[f] = file[f]
         \/ \E r \in Runs : script[r] = "alive" /\ file'[f] \subseteq ReadRuns(r, f) \cup {r}
         \/ \E r \in Runs : /\ Reverts(r) /\ f \in returned'[r]
                            /\ snapshot[r][f] # NoCopy /\ file'[f] = snapshot[r][f]
<1>1. ASSUME NEW r \in Runs, ScriptWrites(r)
      PROVE  \/ file'[f] = file[f]
             \/ script[r] = "alive" /\ file'[f] \subseteq ReadRuns(r, f) \cup {r}
  BY <1>1 DEF ScriptWrites, ReadRuns, TypeOK
<1>2. ASSUME NEW r \in Runs, Reverts(r)
      PROVE  \/ file'[f] = file[f]
             \/ snapshot[r][f] # NoCopy /\ file'[f] = snapshot[r][f] /\ f \in returned'[r]
  BY <1>2 DEF Reverts, Restore, Payload, TypeOK
<1>3. ASSUME NEW r \in Runs, Called(r) \/ ScriptReads(r) \/ ScriptExits(r) \/ Expire(r)
      PROVE  file' = file
  BY <1>3, CallFrame DEF ScriptReads, ScriptExits, Expire
<1>4. ASSUME NEW r \in Runs, Revert(r) PROVE Reverts(r)
  BY <1>4, RevertEffect DEF TypeOK
<1>5. CASE Crash
  BY <1>2, <1>5, CrashEffect
<1> QED BY <1>1, <1>2, <1>3, <1>4, <1>5 DEF Next, vars, Called, ScriptStep

\* A copy after a step was there, or is taken of a file by a call whose script has not started.
LEMMA CopyStep ==
  ASSUME TypeOK, CallInv, [Next]_vars, NEW s \in Runs, NEW f \in Files
  PROVE  \/ snapshot'[s][f] = snapshot[s][f]
         \/ snapshot'[s][f] = NoCopy
         \/ script[s] = "none" /\ snapshot'[s][f] = file[f]
<1>1. ASSUME NEW r \in Runs, TakesSnapshot(r), s = r
      PROVE  (snapshot'[s][f] = NoCopy \/ snapshot'[s][f] = file[f]) /\ script[s] = "none"
  BY <1>1 DEF TakesSnapshot, TypeOK, CallInv
<1>2. ASSUME NEW r \in Runs, TakesSnapshot(r), s # r PROVE snapshot'[s][f] = snapshot[s][f]
  BY <1>2 DEF TakesSnapshot, TypeOK
<1>3. ASSUME NEW r \in Runs, Called(r) PROVE snapshot' = snapshot \/ TakesSnapshot(r)
  BY <1>3, SnapshotEffect DEF TypeOK
<1>4. ASSUME NEW r \in Runs, ScriptStep(r) \/ Revert(r) \/ Expire(r) PROVE snapshot' = snapshot
  BY <1>4 DEF ScriptStep, ScriptReads, ScriptWrites, ScriptExits, ledgerVars, Revert, RevertToPoint,
              RevertToSnapshot, Expire
<1>5. CASE Crash
  BY <1>5 DEF Crash
<1> QED BY <1>1, <1>2, <1>3, <1>4, <1>5 DEF Next, vars, Called

LEMMA CopiesStep ==
  ASSUME TypeOK, CallInv, NotYetWritten, SnapshotPredatesRun, [Next]_vars
  PROVE  NotYetWritten' /\ SnapshotPredatesRun'
<1>1. ASSUME NEW r \in Runs, script'[r] = "none", NEW f \in Files
      PROVE  /\ r \notin file'[f]
             /\ \A s \in Runs : r \notin CopiedRuns(s, f)' /\ r \notin ReadRuns(s, f)'
  <2>1. script[r] = "none"
    BY <1>1, ScriptStartsOnce
  <2>2. r \notin file[f] /\ \A s \in Runs : r \notin CopiedRuns(s, f) /\ r \notin ReadRuns(s, f)
    BY <2>1 DEF NotYetWritten
  <2>3. r \notin file'[f]
    BY <2>1, <2>2, FileStep DEF CopiedRuns
  <2>4. ASSUME NEW s \in Runs PROVE r \notin CopiedRuns(s, f)'
    BY <2>2, CopyStep DEF CopiedRuns
  <2>5. ASSUME NEW s \in Runs PROVE r \notin ReadRuns(s, f)'
    BY <2>2, ReadingStep DEF ReadRuns
  <2> QED BY <2>3, <2>4, <2>5
<1>2. ASSUME NEW r \in Runs, NEW f \in Files, snapshot'[r][f] # NoCopy
      PROVE  r \notin snapshot'[r][f]
  <2>1. CASE snapshot'[r][f] = snapshot[r][f]
    BY <1>2, <2>1 DEF SnapshotPredatesRun
  <2>2. CASE script[r] = "none" /\ snapshot'[r][f] = file[f]
    BY <2>2 DEF NotYetWritten
  <2> QED BY <1>2, <2>1, <2>2, CopyStep
<1> QED BY <1>1, <1>2 DEF NotYetWritten, SnapshotPredatesRun

\* A script reads only while it runs, and what it has read goes with it.
LEMMA ReadingInvStep == TypeOK /\ ReadingInv /\ [Next]_vars => ReadingInv'
<1> SUFFICES ASSUME TypeOK, ReadingInv, [Next]_vars, NEW s \in Runs, script'[s] # "alive"
             PROVE  reading'[s] = NoSnapshot
  BY DEF ReadingInv
<1>0. /\ reading \in [Runs -> [Files -> (SUBSET Runs) \cup {NoCopy}]]
      /\ script \in [Runs -> {"none", "alive", "ok", "failed"}]
      /\ script[s] # "alive" => reading[s] = NoSnapshot
  BY DEF TypeOK, ReadingInv
<1>1. ASSUME NEW r \in Runs, NEW to, ScriptEnds(r, to) PROVE reading'[s] = NoSnapshot
  BY <1>0, <1>1 DEF ScriptEnds
<1>2. ASSUME NEW r \in Runs, script' = script \/ script' = [script EXCEPT ![r] = "alive"],
             reading' = reading
      PROVE  reading'[s] = NoSnapshot
  BY <1>0, <1>2
<1>3. ASSUME NEW r \in Runs, Called(r) PROVE reading'[s] = NoSnapshot
  BY <1>1, <1>2, <1>3, CallReading DEF TypeOK
<1>4. ASSUME NEW r \in Runs, ScriptStep(r) PROVE reading'[s] = NoSnapshot
  <2>1. CASE ScriptReads(r) \/ ScriptWrites(r)
    <3>1. script' = script /\ script[r] = "alive"
      BY <2>1 DEF ScriptReads, ScriptWrites
    <3>2. s # r => reading'[s] = reading[s]
      BY <1>0, <2>1 DEF ScriptReads, ScriptWrites
    <3> QED BY <1>0, <3>1, <3>2
  <2>2. CASE ScriptExits(r)
    BY <1>1, <2>2 DEF ScriptExits
  <2> QED BY <1>4, <2>1, <2>2 DEF ScriptStep
<1>5. ASSUME NEW r \in Runs, Revert(r) \/ Expire(r) PROVE UNCHANGED <<script, reading>>
  BY <1>5, RevertEffect DEF Expire, TypeOK
<1>6. CASE Crash
  BY <1>0, <1>6 DEF Crash
<1> QED BY <1>0, <1>3, <1>4, <1>5, <1>6 DEF Next, vars, Called

(* The reverts *)

\* The call of a run that succeeded has ended.
LEMMA SucceededIsOver ==
  ASSUME CallInv, NEW r \in Runs, Called(r)
  PROVE  log[r].status # "success"
<1>1. CASE Request(r) \/ CannotLog(r)
  BY <1>1 DEF Request, Deny, RunWithoutRollback, AskRestorePoint, BeginSnapshot, CannotLog,
              CallInv
<1>2. CASE CallStep(r)
  BY <1>2 DEF CallStep, RestorePointDone, SnapshotDone, ScriptDone, TimeOut, CallInv
<1> QED BY <1>1, <1>2 DEF Called

\* What RevertInv and RevertIsOnce say of one run.
RevertOK(row, rollback, copies, files, apart) ==
  /\ rollback.reverted => row.status = "success"
  /\ files # {} => row.status = "success"
  /\ copies <= apart + (IF rollback.reverted THEN 1 ELSE 0)
  /\ row.reverted => rollback.reverted
  /\ rollback.reverted => row.reverted \/ apart > 0

LEMMA RevertOKDef ==
  TypeOK => (RevertInv /\ RevertIsOnce <=>
    \A r \in Runs : RevertOK(log[r], rb[r], copiedBack[r], returned[r], unmarked[r]))
BY DEF TypeOK, RevertInv, RevertIsOnce, RevertOK

LEMMA RevertOKPrime ==
  ASSUME TypeOK',
         \A r \in Runs : RevertOK(log'[r], rb'[r], copiedBack'[r], returned'[r], unmarked'[r])
  PROVE  RevertInv' /\ RevertIsOnce'
BY DEF TypeOK, RevertInv, RevertIsOnce, RevertOK

LEMMA RevertsOK ==
  ASSUME TypeOK, NEW s \in Runs, NEW r \in Runs, Reverts(r),
         RevertOK(log[s], rb[s], copiedBack[s], returned[s], unmarked[s])
  PROVE  /\ log[r].status = "success" /\ ~rb[r].reverted
         /\ s # r => copiedBack'[s] = copiedBack[s] /\ returned'[s] = returned[s]
         /\ s = r => copiedBack'[s] \in Nat /\ copiedBack'[s] <= unmarked[s] + 1
<1>1. PICK files \in SUBSET Payload(r) : Restore(r, files)
  BY DEF Reverts
<1>2. log[r].status = "success" /\ ~rb[r].reverted
  BY DEF Reverts, CanRevert, Live, NotYetReverted
<1>3. s # r => copiedBack'[s] = copiedBack[s] /\ returned'[s] = returned[s]
  BY <1>1 DEF Restore, TypeOK
<1>4. copiedBack'[r] = copiedBack[r] \/ copiedBack'[r] = copiedBack[r] + 1
  BY <1>1 DEF Restore, TypeOK
<1>5. s = r => copiedBack[s] <= unmarked[s]
  BY <1>2 DEF RevertOK, TypeOK
<1> QED BY <1>2, <1>3, <1>4, <1>5 DEF TypeOK

\* A revert that does not mark both rows lets its snapshot be copied back once more.
LEMMA LeftApart ==
  ASSUME TypeOK, NEW s \in Runs, NEW r \in Runs, Reverts(r), Unmarked(r), log' = log,
         rb' = rb \/ rb' = [rb EXCEPT ![r].reverted = TRUE],
         RevertOK(log[s], rb[s], copiedBack[s], returned[s], unmarked[s])
  PROVE  RevertOK(log'[s], rb'[s], copiedBack'[s], returned'[s], unmarked'[s])
<1>0. /\ log[s] \in LogType /\ rb[s] \in RollbackType
      /\ copiedBack[s] \in Nat /\ unmarked[s] \in Nat
  BY DEF TypeOK
<1>1. CASE s # r
  <2>1. rb'[s] = rb[s] /\ unmarked'[s] = unmarked[s]
    BY <1>1 DEF TypeOK, Unmarked
  <2> QED BY <1>0, <1>1, <2>1, RevertsOK DEF RevertOK
<1>2. CASE s = r
  <2>1. log[s].status = "success" /\ ~rb[s].reverted
    BY <1>2, RevertsOK
  <2>2. copiedBack'[s] \in Nat /\ copiedBack'[s] <= unmarked[s] + 1
    BY <1>2, RevertsOK
  <2>3. ~log[s].reverted
    BY <2>1 DEF RevertOK
  <2>4. unmarked'[s] = unmarked[s] + 1
    BY <1>2 DEF Unmarked, TypeOK
  <2> QED BY <1>0, <2>1, <2>2, <2>3, <2>4 DEF RevertOK
<1> QED BY <1>1, <1>2

LEMMA RevertStep ==
  ASSUME TypeOK, CallInv, RevertInv, RevertIsOnce, [Next]_vars
  PROVE  RevertInv' /\ RevertIsOnce'
<1> SUFFICES ASSUME NEW s \in Runs
             PROVE  RevertOK(log'[s], rb'[s], copiedBack'[s], returned'[s], unmarked'[s])
  BY TypeStep, RevertOKPrime
<1>0. /\ RevertOK(log[s], rb[s], copiedBack[s], returned[s], unmarked[s])
      /\ log[s] \in LogType /\ rb[s] \in RollbackType
      /\ copiedBack[s] \in Nat /\ unmarked[s] \in Nat
  BY RevertOKDef DEF TypeOK
<1>1. ASSUME NEW r \in Runs, Called(r), s # r
      PROVE  RevertOK(log'[s], rb'[s], copiedBack'[s], returned'[s], unmarked'[s])
  BY <1>0, <1>1, CallLocal, CallFrame DEF undoVars
<1>2. ASSUME Called(s)
      PROVE  RevertOK(log'[s], rb'[s], copiedBack'[s], returned'[s], unmarked'[s])
  <2>1. ~rb[s].reverted /\ ~log[s].reverted /\ returned[s] = {}
    BY <1>0, <1>2, SucceededIsOver DEF RevertOK
  <2>2. rb'[s].reverted = rb[s].reverted
    <3>1. WritesRollback(s) /\ rb \in [Runs -> RollbackType]
      BY <1>2, CallFrame DEF TypeOK
    <3>2. CASE rb' = [rb EXCEPT ![s] = [@ EXCEPT !.row = TRUE, !.rp = TRUE]]
      BY <3>1, <3>2 DEF RollbackType
    <3> QED BY <3>1, <3>2 DEF WritesRollback, RollbackType
  <2>3. ~log'[s].reverted
    <3>1. log \in [Runs -> LogType] /\ WritesRow(s)
      BY <1>2, CallRow DEF TypeOK
    <3>2. ASSUME NEW status, log' = [log EXCEPT ![s].status = status] PROVE ~log'[s].reverted
      BY <2>1, <3>1, <3>2 DEF LogType
    <3>3. ASSUME NEW status, NEW linked,
                 log' = [log EXCEPT ![s] = [status |-> status, rollback |-> linked,
                                            reverted |-> FALSE]]
          PROVE  ~log'[s].reverted
      BY <3>1, <3>3
    <3> QED BY <2>1, <3>1, <3>2, <3>3 DEF WritesRow
  <2>4. copiedBack'[s] = copiedBack[s] /\ returned'[s] = returned[s] /\ unmarked'[s] = unmarked[s]
    BY <1>2, CallFrame DEF undoVars
  <2>5. copiedBack[s] <= unmarked[s]
    BY <1>0, <2>1 DEF RevertOK
  <2> QED BY <2>1, <2>2, <2>3, <2>4, <2>5, <1>0 DEF RevertOK
<1>3. ASSUME NEW r \in Runs, ScriptStep(r) PROVE UNCHANGED <<log, rb, undoVars>>
  BY <1>3 DEF ScriptStep, ScriptReads, ScriptWrites, ScriptExits, ledgerVars
<1>4. ASSUME NEW r \in Runs, Revert(r)
      PROVE  RevertOK(log'[s], rb'[s], copiedBack'[s], returned'[s], unmarked'[s])
  <2>1. Reverts(r) /\ MarkReverted(r)
    BY <1>4, RevertEffect DEF TypeOK
  <2>2. CASE /\ rb' = [rb EXCEPT ![r].reverted = TRUE]
             /\ log' = [log EXCEPT ![r].reverted = TRUE]
             /\ unmarked' = unmarked
    <3>1. CASE s # r
      <4>1. rb'[s] = rb[s] /\ log'[s] = log[s]
        BY <2>2, <3>1 DEF TypeOK
      <4> QED BY <1>0, <2>1, <2>2, <3>1, <4>1, RevertsOK
    <3>2. CASE s = r
      <4>1. rb'[s].reverted
        BY <2>2, <3>2 DEF TypeOK, RollbackType
      <4>2. log'[s].reverted /\ log'[s].status = log[s].status
        BY <2>2, <3>2 DEF TypeOK, LogType
      <4> QED BY <1>0, <2>1, <2>2, <3>2, <4>1, <4>2, RevertsOK DEF RevertOK
    <3> QED BY <3>1, <3>2
  <2> QED BY <1>0, <2>1, <2>2, MarkEffect, LeftApart
<1>5. ASSUME NEW r \in Runs, Expire(r)
      PROVE  RevertOK(log'[s], rb'[s], copiedBack'[s], returned'[s], unmarked'[s])
  <2>1. UNCHANGED <<log, undoVars>>
    BY <1>5 DEF Expire
  <2>2. rb'[s].reverted = rb[s].reverted
    BY <1>5 DEF Expire, TypeOK, RollbackType
  <2> QED BY <1>0, <2>1, <2>2 DEF RevertOK, undoVars
<1>6. CASE Crash
  <2>1. CASE UNCHANGED <<rb, undoVars>>
    BY <1>0, <1>6, <2>1, CrashEffect DEF undoVars
  <2> QED BY <1>0, <1>6, <2>1, CrashEffect, LeftApart
<1> QED BY <1>0, <1>1, <1>2, <1>3, <1>4, <1>5, <1>6 DEF Next, vars, Called, undoVars

(* What a revert undoes stays undone. *)

LEMMA SucceededKeepsCopies ==
  ASSUME TypeOK, CallInv, [Next]_vars, NEW s \in Runs, log[s].status = "success"
  PROVE  snapshot'[s] = snapshot[s]
<1>1. ASSUME NEW r \in Runs, Called(r) PROVE snapshot'[s] = snapshot[s]
  BY <1>1, SucceededIsOver, CallLocal
<1>2. ASSUME NEW r \in Runs, ScriptStep(r) \/ Revert(r) \/ Expire(r) PROVE snapshot' = snapshot
  BY <1>2 DEF ScriptStep, ScriptReads, ScriptWrites, ScriptExits, ledgerVars, Revert, RevertToPoint,
              RevertToSnapshot, Expire
<1>3. CASE Crash
  BY <1>3 DEF Crash
<1> QED BY <1>1, <1>2, <1>3 DEF Next, vars, Called

\* A file is recorded as copied back in the step that copies it, and as overtaken if a script
\* holds it then.
LEMMA ReturnedStep ==
  ASSUME TypeOK, [Next]_vars, NEW r \in Runs
  PROVE  /\ returned[r] \subseteq returned'[r] /\ overtaken[r] \subseteq overtaken'[r]
         /\ \A f \in returned'[r] \ returned[r] :
              /\ snapshot[r][f] # NoCopy /\ file'[f] = snapshot[r][f] /\ reading' = reading
              /\ HeldByAScript(r, f) => f \in overtaken'[r]
<1>1. ASSUME NEW s \in Runs, Reverts(s), reading' = reading
      PROVE  /\ returned[r] \subseteq returned'[r] /\ overtaken[r] \subseteq overtaken'[r]
             /\ \A f \in returned'[r] \ returned[r] :
                  /\ snapshot[r][f] # NoCopy /\ file'[f] = snapshot[r][f] /\ reading' = reading
                  /\ HeldByAScript(r, f) => f \in overtaken'[r]
  <2>1. PICK files \in SUBSET Payload(s) : Restore(s, files)
    BY <1>1 DEF Reverts
  <2>2. /\ returned[r] \subseteq returned'[r]
        /\ \A f \in returned'[r] \ returned[r] : s = r /\ f \in files
    BY <2>1 DEF Restore, TypeOK
  <2>3. /\ overtaken[r] \subseteq overtaken'[r]
        /\ s = r => \A f \in files : HeldByAScript(r, f) => f \in overtaken'[r]
    BY <2>1 DEF Restore, TypeOK
  <2>4. \A f \in files : snapshot[s][f] # NoCopy /\ file'[f] = snapshot[s][f]
    BY <2>1 DEF Restore, Payload
  <2> QED BY <1>1, <2>2, <2>3, <2>4
<1>2. ASSUME NEW s \in Runs, Called(s) \/ ScriptStep(s) \/ Expire(s)
      PROVE  returned' = returned /\ overtaken' = overtaken
  BY <1>2, CallFrame DEF ScriptStep, ScriptReads, ScriptWrites, ScriptExits, Expire, undoVars
<1>3. ASSUME NEW s \in Runs, Revert(s) PROVE Reverts(s) /\ reading' = reading
  BY <1>3, RevertEffect DEF TypeOK
<1>4. CASE Crash
  BY <1>1, <1>4, CrashEffect DEF undoVars
<1> QED BY <1>1, <1>2, <1>3, <1>4 DEF Next, vars, Called, undoVars

\* What may return the changes of a run to a file is not forgotten.
LEMMA MayReturnStays ==
  ASSUME TypeOK, CallInv, RevertInv, [Next]_vars, NEW r \in Runs, NEW f \in Files,
         MayReturn(r, f)
  PROVE  MayReturn(r, f)'
<1>1. CASE f \in overtaken[r]
  BY <1>1, ReturnedStep DEF MayReturn
<1>2. ASSUME NEW other \in Runs \ {r}, f \in returned[other], r \in snapshot[other][f]
      PROVE  f \in returned'[other] /\ r \in snapshot'[other][f]
  <2>1. log[other].status = "success"
    BY <1>2 DEF RevertInv
  <2> QED BY <1>2, <2>1, SucceededKeepsCopies, ReturnedStep
<1> QED BY <1>1, <1>2 DEF MayReturn

LEMMA UndoneStep ==
  ASSUME TypeOK, CallInv, AuditTruth, SnapshotPredatesRun, RevertInv, UndoneInv, [Next]_vars
  PROVE  UndoneInv'
<1> SUFFICES ASSUME NEW r \in Runs, NEW f \in returned'[r],
                    r \in file'[f] \/ HeldByAScript(r, f)'
             PROVE  MayReturn(r, f)'
  BY DEF UndoneInv
<1>0. f \in Files
  BY TypeStep DEF TypeOK
<1>1. CASE f \notin returned[r]
  <2>1. r \notin file'[f]
    BY <1>0, <1>1, ReturnedStep DEF SnapshotPredatesRun
  <2>2. HeldByAScript(r, f)
    BY <1>1, <2>1, ReturnedStep DEF HeldByAScript
  <2> QED BY <1>1, <2>2, ReturnedStep DEF MayReturn
<1>2. CASE f \in returned[r] /\ (r \in file[f] \/ HeldByAScript(r, f))
  BY <1>0, <1>2, MayReturnStays DEF UndoneInv
<1>3. CASE f \in returned[r] /\ r \notin file[f] /\ ~HeldByAScript(r, f)
  <2>1. script[r] = "ok"
    BY <1>3 DEF RevertInv, AuditTruth
  <2>2. ~HeldByAScript(r, f)'
    BY <1>0, <1>3, ReadingStep DEF HeldByAScript
  <2>3. ASSUME NEW w \in Runs, script[w] = "alive", file'[f] \subseteq ReadRuns(w, f) \cup {w}
        PROVE  FALSE
    BY <1>3, <2>1, <2>2, <2>3 DEF HeldByAScript, ReadRuns
  <2>4. PICK q \in Runs : /\ Reverts(q) /\ f \in returned'[q]
                          /\ snapshot[q][f] # NoCopy /\ file'[f] = snapshot[q][f]
    BY <1>0, <1>3, <2>2, <2>3, FileStep
  <2>5. q # r
    BY <1>0, <2>2, <2>4 DEF SnapshotPredatesRun
  <2>6. log[q].status = "success"
    BY <2>4 DEF Reverts, CanRevert
  <2> QED BY <2>2, <2>4, <2>5, <2>6, SucceededKeepsCopies DEF MayReturn
<1> QED BY <1>1, <1>2, <1>3

-----------------------------------------------------------------------------

THEOREM LedgerInit == Init => LedgerInv
<1> SUFFICES ASSUME Init PROVE LedgerInv
  OBVIOUS
<1> USE DEF Init
<1>1. TypeOK
  BY FaultAssumption DEF TypeOK, Fresh, NoLog, NoRow, NoSnapshot, RunType, LogType, RollbackType
<1>2. CallInv /\ AuditTruth
  BY DEF CallInv, AuditTruth, Fresh, NoLog
<1>3. NotYetWritten /\ SnapshotPredatesRun
  BY DEF NotYetWritten, SnapshotPredatesRun, CopiedRuns, ReadRuns, NoSnapshot
<1>4. RevertInv /\ RevertIsOnce
  BY DEF RevertInv, RevertIsOnce, NoRow, NoLog
<1>5. ReadingInv /\ UndoneInv
  BY DEF ReadingInv, UndoneInv
<1> QED BY <1>1, <1>2, <1>3, <1>4, <1>5 DEF LedgerInv

THEOREM LedgerStep == LedgerInv /\ [Next]_vars => LedgerInv'
BY TypeStep, CallInvStep, CopiesStep, ReadingInvStep, RevertStep, UndoneStep DEF LedgerInv

\* The invariant holds throughout, for any runs, files and actions: however the calls of
\* runAction interleave at their awaits, whatever fails, and wherever the application dies.
THEOREM LedgerInvariance == Spec => []LedgerInv
BY LedgerInit, LedgerStep, PTL DEF Spec

\* Type correctness of the calls, the two tables, the snapshots and the files.
THEOREM LedgerTypes == Spec => []TypeOK
<1>1. LedgerInv => TypeOK
  BY DEF LedgerInv
<1> QED BY <1>1, LedgerInvariance, PTL

\* finishActionLog never writes a success for a script that did not end well.
THEOREM AuditIsTrue == Spec => []AuditTruth
<1>1. LedgerInv => AuditTruth
  BY DEF LedgerInv
<1> QED BY <1>1, LedgerInvariance, PTL

\* prepareRollback copies the files before the script of its run can have changed them.
THEOREM SnapshotsPredate == Spec => []SnapshotPredatesRun
<1>1. LedgerInv => SnapshotPredatesRun
  BY DEF LedgerInv
<1> QED BY <1>1, LedgerInvariance, PTL

\* revertRollback and the revert handler agree, and copy a snapshot back once, and once more
\* for every revert that died, or failed, before it had marked both rows.
THEOREM RevertsOnce == Spec => []RevertIsOnce
<1>1. LedgerInv => RevertIsOnce
  BY DEF LedgerInv
<1> QED BY <1>1, LedgerInvariance, PTL

\* A reverted file gets the changes of the run back only from the snapshot of another run, or
\* from a script that had read the file before the revert.
THEOREM UndoneStays == Spec => []UndoneStaysUndone
<1>1. LedgerInv => UndoneStaysUndone
  BY DEF LedgerInv, UndoneInv, MayReturn, UndoneStaysUndone
<1> QED BY <1>1, LedgerInvariance, PTL

=============================================================================
