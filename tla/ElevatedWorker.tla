--------------------------- MODULE ElevatedWorker ---------------------------
(***************************************************************************)
(* The elevated worker of PCDoctor Workbench: the session that the         *)
(* Electron main process keeps for it (src/main/elevatedWorker.ts), the    *)
(* UAC launcher, the session's queue directory, and the elevated           *)
(* PowerShell process that serves it                                       *)
(* (powershell/worker/Elevated-Worker.ps1).                                *)
(*                                                                         *)
(* Three kinds of process interleave: the main process, which is a         *)
(* JavaScript event loop (one callback at a time, every callback runs      *)
(* until it awaits), one worker per session, and the user who answers the  *)
(* UAC prompt.  They share only the queue directory.                       *)
(*                                                                         *)
(* Time is kept as ages that grow together in Tick and stop at the largest *)
(* value the code compares them with, so that no clock bounds a behaviour. *)
(***************************************************************************)
EXTENDS Naturals, FiniteSets

CONSTANTS
  Calls,             \* calls of dispatchCommand; each signs one command
  Sessions,          \* identities a worker session can be given
  NoSession, NoCall, \* the null values
  HeartbeatStale,    \* HEARTBEAT_STALE_MS, and the lifetime of a heartbeat
  EnvelopeLifetime,  \* lifetime of a signed command envelope
  CmdTimeout,        \* opts.timeoutMs of dispatchCommand
  SpawnTimeout,      \* WORKER_SPAWN_TIMEOUT_MS
  IdleTimeout,       \* $IdleTimeoutSeconds of the worker
  Faults             \* the faults the environment may inject

FaultKinds ==
  { "proof",          \* a trust proof of the queue or of the code fails
    "spawn",          \* the launcher process cannot be started
    "heartbeatWrite", \* the worker's heartbeat write fails (swallowed)
    "heartbeatRead",  \* the heartbeat is unreadable or half replaced
    "commandWrite",   \* the command file cannot be published
    "commandRead",    \* the worker cannot read or parse the command file
    "actionStart",    \* the script of an action is missing or its process does not start
    "resultWrite",    \* the result file cannot be published (swallowed)
    "resultRead",     \* the result is unreadable, stale, too large or not authentic
    "delete",         \* a best-effort delete in the queue fails
    "crash",          \* a worker dies, or leaves because the queue boundary is unsafe
    "restart" }       \* the Workbench quits and is started again

ASSUME SessionAssumption ==
  /\ NoSession \notin Sessions
  /\ NoCall \notin Calls
  /\ IsFiniteSet(Calls)

ASSUME TimeAssumption ==
  /\ HeartbeatStale \in Nat \ {0}
  /\ EnvelopeLifetime \in Nat \ {0}
  /\ CmdTimeout \in Nat \ {0}
  /\ SpawnTimeout \in Nat \ {0}
  /\ IdleTimeout \in Nat \ {0}

ASSUME FaultAssumption == Faults \subseteq FaultKinds

VARIABLES
  \* --- main process: sessions
  activeSession,     \* the session object new dispatches use, or NoSession
  created,           \* sessions handed out by createWorkerSession
  retired,           \* session.retired
  zeroed,            \* sessions whose capability bytes are overwritten
  queueReady,        \* session.queueReady
  launchAttempted,   \* session.launchAttempted
  inFlight,          \* session.inFlightDispatches
  \* --- main process: the shared ensureWorkerRunning promise
  ensurePc,          \* "idle" (ensureInFlight = null), "reprobe" or "poll"
  ensureSession,     \* the session it works on
  ensureAge,         \* time since the launcher was spawned
  \* --- main process: dispatchCommand
  callPc, callSession, outcome,
  \* --- the UAC launcher of each session
  launcher,
  \* --- the queue directory of each session
  heartbeatFile, heartbeatAge, cmdFile, cmdAge, resultFile,
  \* --- the elevated worker of each session
  workerPc, workerCmd, workerResult, acceptedNonces, idleAge,
  \* --- history: how often the process of a call's action was started, and what came of
  \*     the call: its envelope was accepted, its action runs, ended well or failed
  executions, effect

sessionVars == <<activeSession, created, retired, zeroed, queueReady, launchAttempted>>
ensureVars  == <<ensurePc, ensureSession, ensureAge>>
callVars    == <<callPc, callSession, outcome>>
queueVars   == <<heartbeatFile, heartbeatAge, cmdFile, cmdAge, resultFile>>
workerVars  == <<workerPc, workerCmd, workerResult, acceptedNonces, idleAge>>
historyVars == <<executions, effect>>
vars == <<sessionVars, inFlight, ensureVars, callVars, launcher, queueVars,
          workerVars, historyVars>>

CallPcs    == {"idle", "ensuring", "resumed", "polling", "settled"}
Outcomes   == {"none", "success", "actionError", "rejected", "badResult", "timeout",
               "ensureFailed", "queueUntrusted", "writeFailed", "sessionFault", "lost"}
\* What a result file can say: the action's own result, a signed refusal of the
\* envelope, or a refusal of a file that could not be read (action 'invalid-command').
Results    == {"ok", "failed", "rejected", "unreadable"}
WorkerPcs  == {"none", "boot", "loop", "scan", "read", "check", "start", "exec", "publish",
               "delete", "exited"}
Effects    == {"none", "accepted", "running", "ok", "failed"}
LiveWorker == WorkerPcs \ {"none", "boot", "exited"}

Max2(a, b) == IF a >= b THEN a ELSE b
CmdAgeCap  == Max2(EnvelopeLifetime, CmdTimeout)

TypeOK ==
  /\ activeSession \in Sessions \cup {NoSession}
  /\ created \subseteq Sessions /\ retired \subseteq Sessions
  /\ zeroed \subseteq Sessions /\ queueReady \subseteq Sessions
  /\ launchAttempted \subseteq Sessions
  /\ inFlight \in [Sessions -> Nat]
  /\ ensurePc \in {"idle", "reprobe", "poll"}
  /\ ensureSession \in Sessions \cup {NoSession}
  /\ ensureAge \in 0..SpawnTimeout
  /\ callPc \in [Calls -> CallPcs]
  /\ callSession \in [Calls -> Sessions \cup {NoSession}]
  /\ outcome \in [Calls -> Outcomes]
  /\ launcher \in [Sessions -> {"none", "prompt", "accepted", "failed"}]
  /\ heartbeatFile \subseteq Sessions
  /\ heartbeatAge \in [Sessions -> 0..HeartbeatStale]
  /\ cmdFile \subseteq Calls
  /\ cmdAge \in [Calls -> 0..CmdAgeCap]
  /\ resultFile \in [Calls -> Results \cup {"none"}]
  /\ workerPc \in [Sessions -> WorkerPcs]
  /\ workerCmd \in [Sessions -> Calls \cup {NoCall}]
  /\ workerResult \in [Sessions -> Results \cup {"none"}]
  /\ acceptedNonces \in [Sessions -> SUBSET Calls]
  /\ idleAge \in [Sessions -> 0..IdleTimeout]
  /\ executions \in [Calls -> Nat]
  /\ effect \in [Calls -> Effects]

Init ==
  /\ activeSession = NoSession
  /\ created = {} /\ retired = {} /\ zeroed = {} /\ queueReady = {} /\ launchAttempted = {}
  /\ inFlight = [s \in Sessions |-> 0]
  /\ ensurePc = "idle" /\ ensureSession = NoSession /\ ensureAge = 0
  /\ callPc = [c \in Calls |-> "idle"]
  /\ callSession = [c \in Calls |-> NoSession]
  /\ outcome = [c \in Calls |-> "none"]
  /\ launcher = [s \in Sessions |-> "none"]
  /\ heartbeatFile = {} /\ heartbeatAge = [s \in Sessions |-> 0]
  /\ cmdFile = {} /\ cmdAge = [c \in Calls |-> 0]
  /\ resultFile = [c \in Calls |-> "none"]
  /\ workerPc = [s \in Sessions |-> "none"]
  /\ workerCmd = [s \in Sessions |-> NoCall]
  /\ workerResult = [s \in Sessions |-> "none"]
  /\ acceptedNonces = [s \in Sessions |-> {}]
  /\ idleAge = [s \in Sessions |-> 0]
  /\ executions = [c \in Calls |-> 0]
  /\ effect = [c \in Calls |-> "none"]

-----------------------------------------------------------------------------
(* Session lifecycle.  These operators describe the session fields after   *)
(* a step; act is activeSession as the step has already left it.           *)

\* getWorkerSession: the active session, or a newly created one.
WorkerSession ==
  IF activeSession # NoSession THEN {activeSession} ELSE Sessions \ created

\* Mutant: the capability is overwritten although a dispatch is in flight.
RetireZeroesInUse(act, R) ==
  /\ retired' = retired \cup R
  /\ zeroed' = zeroed \cup R
  /\ activeSession' = IF act \in R THEN NoSession ELSE act

\* Mutant: a session with a dispatch in flight is only forgotten, not retired.
RetireSkipsInUse(act, R) ==
  /\ retired' = retired \cup {s \in R : inFlight[s] = 0}
  /\ zeroed' = zeroed \cup {s \in R : inFlight[s] = 0}
  /\ activeSession' = IF act \in R THEN NoSession ELSE act

\* retireWorkerSession for every session of R: the capability is zeroed unless a
\* dispatch still uses it, and the active session is forgotten.
RetireWorkerSession(act, R) ==
  /\ retired' = retired \cup R
  /\ zeroed' = zeroed \cup {s \in R : inFlight[s] = 0}
  /\ activeSession' = IF act \in R THEN NoSession ELSE act

\* Mutant: a dispatch uses the session without counting itself.
AcquireUncounted(s) == UNCHANGED inFlight

\* acquireWorkerSession(s); its refusal of a retired session is in Resume.
AcquireWorkerSession(s) == inFlight' = [inFlight EXCEPT ![s] = @ + 1]

\* releaseWorkerSession(s)
ReleaseWorkerSession(s) ==
  /\ inFlight' = [inFlight EXCEPT ![s] = @ - 1]
  /\ zeroed' = IF s \in retired /\ inFlight[s] = 1 THEN zeroed \cup {s} ELSE zeroed

-----------------------------------------------------------------------------
(* Settling the shared promise of ensureWorkerRunning for its waiters W.   *)

Waiting == {c \in Calls : callPc[c] = "ensuring"}

EnsureResolves(W) ==
  /\ ensurePc' = "idle" /\ ensureSession' = NoSession /\ ensureAge' = 0
  /\ callPc' = [c \in Calls |-> IF c \in W THEN "resumed" ELSE callPc[c]]
  /\ UNCHANGED outcome

EnsureRejects(W, why) ==
  /\ ensurePc' = "idle" /\ ensureSession' = NoSession /\ ensureAge' = 0
  /\ callPc' = [c \in Calls |-> IF c \in W THEN "settled" ELSE callPc[c]]
  /\ outcome' = [c \in Calls |-> IF c \in W THEN why ELSE outcome[c]]

EnsureAwaits(W, pc, s) ==
  /\ ensurePc' = pc /\ ensureSession' = s /\ ensureAge' = 0
  /\ callPc' = [c \in Calls |-> IF c \in W THEN "ensuring" ELSE callPc[c]]
  /\ UNCHANGED outcome

\* Mutant: the catch block rejects but leaves the session in use.
EnsureThrowsKeepsSession(act, R, W, why) ==
  /\ RetireWorkerSession(act, R \ {act})
  /\ EnsureRejects(W, why)

\* The catch block of ensureWorkerRunningImpl: retire the session, reject.
EnsureThrows(act, R, W, why) ==
  /\ RetireWorkerSession(act, R)
  /\ EnsureRejects(W, why)

\* verifyTrustedWorkerCode, verifySecureQueueRoot or proveSecureQueueLeaf may throw.
TrustMayFail == "proof" \in Faults

\* isWorkerSessionAlive: an authentic heartbeat younger than 30 s.
IsWorkerSessionAlive(s) == s \in heartbeatFile /\ heartbeatAge[s] < HeartbeatStale

\* The ways authenticateReadyWorker(s) can end: the leaf is proven whenever a
\* heartbeat exists, fresh or not, and the proof throws when it fails.
Probe(s) ==
  IF s \notin heartbeatFile THEN {"notReady"}
  ELSE {IF IsWorkerSessionAlive(s) THEN "ready" ELSE "notReady"}
       \cup (IF "heartbeatRead" \in Faults THEN {"notReady"} ELSE {})
       \cup (IF TrustMayFail THEN {"untrusted"} ELSE {})

\* session.queueReady after a probe of s that ended with r.
ReadyAfter(s, r) ==
  IF s \in heartbeatFile /\ r # "untrusted" THEN queueReady \cup {s} ELSE queueReady

\* spawnWorker(s) for the active session s, in a step that has retired the
\* sessions of old and left queueReady = ready.  A leaf that is proven before its
\* launch would be an internal fault.
SpawnWorker(old, s, ready, W) ==
  \/ /\ s \in ready
     /\ EnsureThrows(s, old \cup {s}, W, "sessionFault")
     /\ UNCHANGED <<launchAttempted, launcher>>
  \/ /\ s \notin ready
     /\ launchAttempted' = launchAttempted \cup {s}
     /\ \/ /\ launcher' = [launcher EXCEPT ![s] = "prompt"]
           /\ RetireWorkerSession(s, old)
           /\ EnsureAwaits(W, "poll", s)
        \/ /\ "spawn" \in Faults
           /\ EnsureThrows(s, old \cup {s}, W, "ensureFailed")
           /\ UNCHANGED launcher

-----------------------------------------------------------------------------
(* Main process.  A dispatch whose promise has resolved continues in a     *)
(* microtask, before the event loop takes any other callback.              *)
EventLoopFree == \A c \in Calls : callPc[c] # "resumed"

\* dispatchCommand while another dispatch is already waiting for the worker:
\* the promise ensureInFlight is shared.
DispatchJoin(c) ==
  /\ EventLoopFree
  /\ callPc[c] = "idle"
  /\ ensurePc # "idle"
  /\ callPc' = [callPc EXCEPT ![c] = "ensuring"]
  /\ UNCHANGED <<sessionVars, inFlight, ensureVars, callSession, outcome, launcher,
                 queueVars, workerVars, historyVars>>

\* dispatchCommand with no promise to share: ensureWorkerRunningImpl runs up to
\* its first await.
DispatchBegin(c) ==
  /\ EventLoopFree
  /\ callPc[c] = "idle"
  /\ ensurePc = "idle"
  /\ \E s \in WorkerSession :
       /\ created' = created \cup {s}
       /\ \/ /\ TrustMayFail
             /\ EnsureThrows(s, {s}, {c}, "ensureFailed")
             /\ UNCHANGED <<queueReady, launchAttempted, launcher>>
          \/ \E r \in Probe(s) :
               /\ queueReady' = ReadyAfter(s, r)
               /\ \/ /\ r = "ready"
                     /\ EnsureResolves({c})
                     /\ activeSession' = s
                     /\ UNCHANGED <<retired, zeroed, launchAttempted, launcher>>
                  \/ /\ r = "untrusted"
                     /\ EnsureThrows(s, {s}, {c}, "ensureFailed")
                     /\ UNCHANGED <<launchAttempted, launcher>>
                  \/ /\ r = "notReady" /\ s \in launchAttempted
                     /\ EnsureAwaits({c}, "reprobe", s)
                     /\ activeSession' = s
                     /\ UNCHANGED <<retired, zeroed, launchAttempted, launcher>>
                  \/ /\ r = "notReady" /\ s \notin launchAttempted
                     /\ SpawnWorker({}, s, queueReady', {c})
  /\ UNCHANGED <<inFlight, callSession, queueVars, workerVars, historyVars>>

\* The second probe, 250 ms later: resolve, or rotateWorkerSession and launch.
EnsureReprobe ==
  /\ EventLoopFree
  /\ ensurePc = "reprobe"
  /\ LET s == ensureSession IN
     \E r \in Probe(s) :
       \/ /\ r = "ready"
          /\ queueReady' = ReadyAfter(s, r)
          /\ EnsureResolves(Waiting)
          /\ UNCHANGED <<activeSession, created, retired, zeroed, launchAttempted, launcher>>
       \/ /\ r = "untrusted"
          /\ EnsureThrows(activeSession, {s}, Waiting, "ensureFailed")
          /\ UNCHANGED <<created, queueReady, launchAttempted, launcher>>
       \/ /\ r = "notReady"
          /\ queueReady' = ReadyAfter(s, r)
          /\ \E n \in Sessions \ created :     \* rotateWorkerSession(s)
               /\ created' = created \cup {n}
               /\ \/ /\ TrustMayFail
                     /\ EnsureThrows(n, {s, n}, Waiting, "ensureFailed")
                     /\ UNCHANGED <<launchAttempted, launcher>>
                  \/ SpawnWorker({s}, n, queueReady', Waiting)
  /\ UNCHANGED <<inFlight, callSession, queueVars, workerVars, historyVars>>

\* Mutant: the deadline is not honoured while the UAC prompt is open.
SpawnDeadlineAfterPrompt ==
  ensureAge >= SpawnTimeout /\ launcher[ensureSession] # "prompt"

\* WORKER_SPAWN_TIMEOUT_MS after the launch.
SpawnDeadlinePassed == ensureAge >= SpawnTimeout

\* One turn of the poll loop: the heartbeat is looked at before the launcher.
EnsurePoll ==
  /\ EventLoopFree
  /\ ensurePc = "poll"
  /\ ~SpawnDeadlinePassed
  /\ LET s == ensureSession IN
     \/ /\ activeSession = s
        /\ "ready" \in Probe(s)
        /\ queueReady' = ReadyAfter(s, "ready")
        /\ EnsureResolves(Waiting)
        /\ UNCHANGED <<activeSession, retired, zeroed>>
     \/ /\ activeSession = s
        /\ "untrusted" \in Probe(s)
        /\ EnsureThrows(activeSession, {s}, Waiting, "ensureFailed")
        /\ UNCHANGED queueReady
     \/ /\ activeSession = s
        /\ "notReady" \in Probe(s)
        /\ queueReady' = ReadyAfter(s, "notReady")
        /\ launcher[s] # "failed"
        /\ UNCHANGED <<activeSession, retired, zeroed, ensureVars, callPc, outcome>>
     \/ /\ activeSession = s => "notReady" \in Probe(s)
        /\ launcher[s] = "failed"
        /\ queueReady' = IF activeSession = s THEN ReadyAfter(s, "notReady") ELSE queueReady
        /\ EnsureThrows(activeSession, {s}, Waiting, "ensureFailed")
  /\ UNCHANGED <<created, launchAttempted, launcher, inFlight, callSession, queueVars,
                 workerVars, historyVars>>

\* The poll loop reaches its deadline: E_WORKER_NO_HEARTBEAT.
EnsureTimeout ==
  /\ EventLoopFree
  /\ ensurePc = "poll"
  /\ SpawnDeadlinePassed
  /\ EnsureThrows(activeSession, {ensureSession}, Waiting, "ensureFailed")
  /\ UNCHANGED <<created, queueReady, launchAttempted, launcher, inFlight, callSession,
                 queueVars, workerVars, historyVars>>

DispatchSettles(c, what) ==
  /\ callPc' = [callPc EXCEPT ![c] = "settled"]
  /\ outcome' = [outcome EXCEPT ![c] = what]

\* Mutant: a refusal of the envelope is taken for a failure of the action.
RefusalIsActionError(r) ==
  CASE r = "ok"         -> "success"
    [] r = "unreadable" -> "badResult"
    [] OTHER            -> "actionError"

\* What validateResultEnvelope and the return of dispatchCommand make of a result:
\* one of action 'invalid-command' does not match the command.
ResultOutcome(r) ==
  CASE r = "ok"         -> "success"
    [] r = "failed"     -> "actionError"
    [] r = "rejected"   -> "rejected"
    [] r = "unreadable" -> "badResult"

\* Mutant: nobody deletes the command file.
CommandStays(c) == {cmdFile}

\* A best-effort delete, by either process, removes the file or leaves it.
AfterCommandDelete(c) ==
  {cmdFile \ {c}} \cup (IF "delete" \in Faults THEN {cmdFile} ELSE {})

AfterResultDelete(c) ==
  {[resultFile EXCEPT ![c] = "none"]} \cup (IF "delete" \in Faults THEN {resultFile} ELSE {})

\* A dispatch continues once the worker is ready: acquire the session, prove the
\* leaf again, sign a fresh envelope and publish it in one rename.
Resume(c) ==
  /\ callPc[c] = "resumed"
  /\ \E s \in WorkerSession :
       /\ created' = created \cup {s}
       /\ activeSession' = s
       /\ \/ /\ s \in retired
             /\ DispatchSettles(c, "sessionFault")
             /\ UNCHANGED <<inFlight, callSession, cmdFile, cmdAge>>
          \/ /\ s \notin retired /\ s \notin queueReady
             /\ DispatchSettles(c, "sessionFault")
             /\ UNCHANGED <<inFlight, callSession, cmdFile, cmdAge>>
          \/ /\ s \notin retired /\ s \in queueReady
             /\ \/ /\ TrustMayFail
                   /\ DispatchSettles(c, "queueUntrusted")
                   /\ UNCHANGED <<inFlight, callSession, cmdFile, cmdAge>>
                \/ /\ "commandWrite" \in Faults
                   /\ DispatchSettles(c, "writeFailed")
                   /\ UNCHANGED <<inFlight, callSession, cmdFile, cmdAge>>
                \/ /\ AcquireWorkerSession(s)
                   /\ callPc' = [callPc EXCEPT ![c] = "polling"]
                   /\ callSession' = [callSession EXCEPT ![c] = s]
                   /\ cmdFile' = cmdFile \cup {c}
                   /\ cmdAge' = [cmdAge EXCEPT ![c] = 0]
                   /\ UNCHANGED outcome
  /\ UNCHANGED <<retired, zeroed, queueReady, launchAttempted, ensureVars, launcher,
                 heartbeatFile, heartbeatAge, resultFile, workerVars, historyVars>>

\* The dispatch finds a result before its deadline and reads it, a second time after a
\* pause (which the deadline may pass) when that fails; it then removes both files
\* and validates the result against this session, this command and its age.
PollResult(c) ==
  /\ EventLoopFree
  /\ callPc[c] = "polling"
  /\ cmdAge[c] < CmdTimeout \/ "resultRead" \in Faults
  /\ resultFile[c] # "none"
  /\ \/ /\ "resultRead" \in Faults
        /\ DispatchSettles(c, "badResult")
        /\ UNCHANGED <<resultFile, cmdFile>>
     \/ /\ resultFile' \in AfterResultDelete(c)
        /\ cmdFile' \in AfterCommandDelete(c)
        /\ \/ DispatchSettles(c, ResultOutcome(resultFile[c]))
           \/ "resultRead" \in Faults /\ DispatchSettles(c, "badResult")
  /\ ReleaseWorkerSession(callSession[c])
  /\ UNCHANGED <<activeSession, created, retired, queueReady, launchAttempted, ensureVars,
                 callSession, launcher, heartbeatFile, heartbeatAge, cmdAge, workerVars,
                 historyVars>>

\* The dispatch reaches its deadline: withdraw the command, E_CMD_TIMEOUT.
PollTimeout(c) ==
  /\ EventLoopFree
  /\ callPc[c] = "polling"
  /\ cmdAge[c] >= CmdTimeout
  /\ cmdFile' \in AfterCommandDelete(c)
  /\ DispatchSettles(c, "timeout")
  /\ ReleaseWorkerSession(callSession[c])
  /\ UNCHANGED <<activeSession, created, retired, queueReady, launchAttempted, ensureVars,
                 callSession, launcher, heartbeatFile, heartbeatAge, cmdAge, resultFile,
                 workerVars, historyVars>>

\* The Workbench quits: its memory, every capability in it and every pending
\* dispatch are gone; workers, prompts and queue files stay.
Restart ==
  /\ "restart" \in Faults
  /\ \E c \in Calls : callPc[c] \in {"ensuring", "resumed", "polling"}
  /\ callPc' = [c \in Calls |-> IF callPc[c] = "idle" THEN "idle" ELSE "settled"]
  /\ outcome' = [c \in Calls |-> IF callPc[c] \in {"idle", "settled"} THEN outcome[c] ELSE "lost"]
  /\ ensurePc' = "idle" /\ ensureSession' = NoSession /\ ensureAge' = 0
  /\ activeSession' = NoSession
  /\ retired' = created /\ zeroed' = created
  /\ inFlight' = [s \in Sessions |-> 0]
  /\ UNCHANGED <<created, queueReady, launchAttempted, callSession, launcher, queueVars,
                 workerVars, historyVars>>

-----------------------------------------------------------------------------
(* The UAC prompt and the elevated worker.                                 *)

UacAccept(s) ==
  /\ launcher[s] = "prompt"
  /\ launcher' = [launcher EXCEPT ![s] = "accepted"]
  /\ workerPc' = [workerPc EXCEPT ![s] = "boot"]
  /\ UNCHANGED <<sessionVars, inFlight, ensureVars, callVars, queueVars, workerCmd,
                 workerResult, acceptedNonces, idleAge, historyVars>>

\* The user declines, or the launcher exits with an error.
UacDecline(s) ==
  /\ launcher[s] = "prompt"
  /\ launcher' = [launcher EXCEPT ![s] = "failed"]
  /\ UNCHANGED <<sessionVars, inFlight, ensureVars, callVars, queueVars, workerVars,
                 historyVars>>

\* Update-Heartbeat: a failed write is swallowed and leaves the old file.
UpdateHeartbeat(s) ==
  \/ /\ heartbeatFile' = heartbeatFile \cup {s}
     /\ heartbeatAge' = [heartbeatAge EXCEPT ![s] = 0]
  \/ /\ "heartbeatWrite" \in Faults
     /\ UNCHANGED <<heartbeatFile, heartbeatAge>>

\* The worker creates its queue leaf and writes the first heartbeat.
WorkerBoot(s) ==
  /\ workerPc[s] = "boot"
  /\ workerPc' = [workerPc EXCEPT ![s] = "loop"]
  /\ UpdateHeartbeat(s)
  /\ UNCHANGED <<sessionVars, inFlight, ensureVars, callVars, launcher, cmdFile, cmdAge,
                 resultFile, workerCmd, workerResult, acceptedNonces, idleAge, historyVars>>

\* Top of the main loop: the heartbeat is renewed before the idle deadline is checked.
WorkerLoop(s) ==
  /\ workerPc[s] = "loop"
  /\ UpdateHeartbeat(s)
  /\ workerPc' = [workerPc EXCEPT ![s] = "scan"]
  /\ UNCHANGED <<sessionVars, inFlight, ensureVars, callVars, launcher, cmdFile, cmdAge,
                 resultFile, workerCmd, workerResult, acceptedNonces, idleAge, historyVars>>

\* The idle deadline is checked before and after MoveNext and after the enumeration,
\* so files that keep turning up cannot defer it; leaving deletes the heartbeat.
WorkerIdleExit(s) ==
  /\ workerPc[s] = "scan"
  /\ idleAge[s] >= IdleTimeout
  /\ workerPc' = [workerPc EXCEPT ![s] = "exited"]
  /\ \/ heartbeatFile' = heartbeatFile \ {s}
     \/ "delete" \in Faults /\ UNCHANGED heartbeatFile
  /\ UNCHANGED <<sessionVars, inFlight, ensureVars, callVars, launcher, heartbeatAge, cmdFile,
                 cmdAge, resultFile, workerCmd, workerResult, acceptedNonces, idleAge,
                 historyVars>>

\* The commands in the directory of session s.
Commands(s) == {c \in cmdFile : callSession[c] = s}

\* MoveNext yields a command file; it may be gone by the time it is read.
WorkerTake(s, c) ==
  /\ workerPc[s] = "scan"
  /\ idleAge[s] < IdleTimeout
  /\ c \in Commands(s)
  /\ workerPc' = [workerPc EXCEPT ![s] = "read"]
  /\ workerCmd' = [workerCmd EXCEPT ![s] = c]
  /\ UNCHANGED <<sessionVars, inFlight, ensureVars, callVars, launcher, queueVars,
                 workerResult, acceptedNonces, idleAge, historyVars>>

\* The enumeration ends, perhaps without a file that was published meanwhile or that
\* it yielded before, and the worker sleeps for one poll interval.
WorkerScanned(s) ==
  /\ workerPc[s] = "scan"
  /\ idleAge[s] < IdleTimeout
  /\ workerPc' = [workerPc EXCEPT ![s] = "loop"]
  /\ UNCHANGED <<sessionVars, inFlight, ensureVars, callVars, launcher, queueVars, workerCmd,
                 workerResult, acceptedNonces, idleAge, historyVars>>

\* Mutant: accepted nonces are not remembered.
EnvelopeWithoutReplayCheck(s, c) == cmdAge[c] < EnvelopeLifetime

\* Mutant: an envelope that expires now is still accepted.
EnvelopeExpiryOffByOne(s, c) ==
  cmdAge[c] <= EnvelopeLifetime /\ c \notin acceptedNonces[s]

\* Test-WorkerEnvelope for the envelope of call c: it has not expired, and its
\* nonce, which is looked at last, is new.
EnvelopeAccepted(s, c) == cmdAge[c] < EnvelopeLifetime /\ c \notin acceptedNonces[s]

\* The command file is gone, unreadable or not JSON: answer 'invalid-command'.
WorkerCannotRead(s) ==
  /\ workerPc[s] = "read"
  /\ workerCmd[s] \notin cmdFile \/ "commandRead" \in Faults
  /\ workerPc' = [workerPc EXCEPT ![s] = "publish"]
  /\ workerResult' = [workerResult EXCEPT ![s] = "unreadable"]
  /\ UNCHANGED <<sessionVars, inFlight, ensureVars, callVars, launcher, queueVars, workerCmd,
                 acceptedNonces, idleAge, historyVars>>

\* The command is read and parsed; from here the worker has it in memory, and whatever
\* becomes of the file does not matter to it.
WorkerReads(s) ==
  /\ workerPc[s] = "read"
  /\ workerCmd[s] \in cmdFile
  /\ workerPc' = [workerPc EXCEPT ![s] = "check"]
  /\ UNCHANGED <<sessionVars, inFlight, ensureVars, callVars, launcher, queueVars, workerCmd,
                 workerResult, acceptedNonces, idleAge, historyVars>>

WorkerRejects(s) ==
  /\ workerPc[s] = "check"
  /\ ~EnvelopeAccepted(s, workerCmd[s])
  /\ workerPc' = [workerPc EXCEPT ![s] = "publish"]
  /\ workerResult' = [workerResult EXCEPT ![s] = "rejected"]
  /\ UNCHANGED <<sessionVars, inFlight, ensureVars, callVars, launcher, queueVars, workerCmd,
                 acceptedNonces, idleAge, historyVars>>

\* The envelope is accepted and its nonce consumed; the action is not started yet.
WorkerAccepts(s) ==
  LET c == workerCmd[s] IN
  /\ workerPc[s] = "check"
  /\ EnvelopeAccepted(s, c)
  /\ acceptedNonces' = [acceptedNonces EXCEPT ![s] = @ \cup {c}]
  /\ effect' = [effect EXCEPT ![c] = "accepted"]
  /\ workerPc' = [workerPc EXCEPT ![s] = "start"]
  /\ UNCHANGED <<sessionVars, inFlight, ensureVars, callVars, launcher, queueVars, workerCmd,
                 workerResult, idleAge, executions>>

\* Invoke-ActionProcess starts the process, whatever time it is and whoever still waits.
WorkerStarts(s) ==
  LET c == workerCmd[s] IN
  /\ workerPc[s] = "start"
  /\ executions' = [executions EXCEPT ![c] = @ + 1]
  /\ effect' = [effect EXCEPT ![c] = "running"]
  /\ workerPc' = [workerPc EXCEPT ![s] = "exec"]
  /\ UNCHANGED <<sessionVars, inFlight, ensureVars, callVars, launcher, queueVars, workerCmd,
                 workerResult, acceptedNonces, idleAge>>

\* The script is missing or the process does not start: a failure of an accepted command.
WorkerCannotStart(s) ==
  /\ workerPc[s] = "start"
  /\ "actionStart" \in Faults
  /\ workerResult' = [workerResult EXCEPT ![s] = "failed"]
  /\ effect' = [effect EXCEPT ![workerCmd[s]] = "failed"]
  /\ workerPc' = [workerPc EXCEPT ![s] = "publish"]
  /\ UNCHANGED <<sessionVars, inFlight, ensureVars, callVars, launcher, queueVars, workerCmd,
                 acceptedNonces, idleAge, executions>>

\* The heartbeat goes on while the action process runs, however long it takes.
WorkerBusyHeartbeat(s) ==
  /\ workerPc[s] = "exec"
  /\ UpdateHeartbeat(s)
  /\ UNCHANGED <<sessionVars, inFlight, ensureVars, callVars, launcher, cmdFile, cmdAge,
                 resultFile, workerVars, historyVars>>

\* The action process ends: valid JSON and exit code 0, or anything else.
WorkerActionEnds(s) ==
  /\ workerPc[s] = "exec"
  /\ \E r \in {"ok", "failed"} :
       /\ workerResult' = [workerResult EXCEPT ![s] = r]
       /\ effect' = [effect EXCEPT ![workerCmd[s]] = r]
  /\ workerPc' = [workerPc EXCEPT ![s] = "publish"]
  /\ UNCHANGED <<sessionVars, inFlight, ensureVars, callVars, launcher, queueVars, workerCmd,
                 acceptedNonces, idleAge, executions>>

\* Mutant: the result file is replaced when it exists.
ResultIsReplaced(c, r) ==
  {[resultFile EXCEPT ![c] = r]} \cup (IF "resultWrite" \in Faults THEN {resultFile} ELSE {})

\* Write-AtomicJson: the move fails when the destination exists, and a failure
\* is swallowed.
AfterResultWrite(c, r) ==
  (IF resultFile[c] = "none" THEN {[resultFile EXCEPT ![c] = r]} ELSE {resultFile})
    \cup (IF "resultWrite" \in Faults THEN {resultFile} ELSE {})

WorkerPublishes(s) ==
  /\ workerPc[s] = "publish"
  /\ resultFile' \in AfterResultWrite(workerCmd[s], workerResult[s])
  /\ workerPc' = [workerPc EXCEPT ![s] = "delete"]
  /\ UNCHANGED <<sessionVars, inFlight, ensureVars, callVars, launcher, heartbeatFile,
                 heartbeatAge, cmdFile, cmdAge, workerCmd, workerResult, acceptedNonces,
                 idleAge, historyVars>>

\* Mutant: every command file that was looked at counts as activity.
EverythingCountsAsActivity(r) == r \in Results

\* Only an accepted envelope moves the idle deadline.
CountsAsActivity(r) == r \in {"ok", "failed"}

\* The command file is deleted, or its delete fails and is swallowed.
WorkerDeletes(s) ==
  /\ workerPc[s] = "delete"
  /\ cmdFile' \in AfterCommandDelete(workerCmd[s])
  /\ idleAge' = IF CountsAsActivity(workerResult[s])
                THEN [idleAge EXCEPT ![s] = 0] ELSE idleAge
  /\ workerPc' = [workerPc EXCEPT ![s] = "scan"]
  /\ workerCmd' = [workerCmd EXCEPT ![s] = NoCall]
  /\ workerResult' = [workerResult EXCEPT ![s] = "none"]
  /\ UNCHANGED <<sessionVars, inFlight, ensureVars, callVars, launcher, heartbeatFile,
                 heartbeatAge, cmdAge, resultFile, acceptedNonces, historyVars>>

\* The worker is killed or leaves because the queue boundary is no longer safe, and its
\* heartbeat stays behind; or an error of the enumeration ends it, and it deletes it.
WorkerCrash(s) ==
  /\ "crash" \in Faults
  /\ workerPc[s] \notin {"none", "exited"}
  /\ workerPc' = [workerPc EXCEPT ![s] = "exited"]
  /\ workerCmd' = [workerCmd EXCEPT ![s] = NoCall]
  /\ workerResult' = [workerResult EXCEPT ![s] = "none"]
  /\ heartbeatFile' \in {heartbeatFile, heartbeatFile \ {s}}
  /\ UNCHANGED <<sessionVars, inFlight, ensureVars, callVars, launcher, heartbeatAge, cmdFile,
                 cmdAge, resultFile, acceptedNonces, idleAge, historyVars>>

-----------------------------------------------------------------------------
(* Time passes for every process.                                          *)

Bump(age, cap) == IF age < cap THEN age + 1 ELSE cap

\* The age of an envelope matters while its caller waits, while it lies in the queue and
\* while a worker has it in memory and has yet to check it.
Aging(c) ==
  \/ callPc[c] = "polling" \/ c \in cmdFile
  \/ \E s \in Sessions : workerPc[s] = "check" /\ workerCmd[s] = c

Tick ==
  /\ heartbeatAge' = [s \in Sessions |->
       IF s \in heartbeatFile THEN Bump(heartbeatAge[s], HeartbeatStale) ELSE heartbeatAge[s]]
  /\ cmdAge' = [c \in Calls |->
       IF Aging(c) THEN Bump(cmdAge[c], CmdAgeCap) ELSE cmdAge[c]]
  /\ ensureAge' = IF ensurePc = "poll" THEN Bump(ensureAge, SpawnTimeout) ELSE ensureAge
  /\ idleAge' = [s \in Sessions |->
       IF workerPc[s] \in LiveWorker THEN Bump(idleAge[s], IdleTimeout) ELSE idleAge[s]]
  /\ UNCHANGED <<sessionVars, inFlight, ensurePc, ensureSession, callVars, launcher,
                 heartbeatFile, cmdFile, resultFile, workerPc, workerCmd, workerResult,
                 acceptedNonces, historyVars>>

MainStep ==
  \/ EnsureReprobe \/ EnsurePoll \/ EnsureTimeout
  \/ \E c \in Calls : Resume(c) \/ PollResult(c) \/ PollTimeout(c)

WorkerStep(s) ==
  \/ WorkerBoot(s) \/ WorkerLoop(s) \/ WorkerIdleExit(s) \/ WorkerScanned(s)
  \/ WorkerCannotRead(s) \/ WorkerReads(s) \/ WorkerRejects(s) \/ WorkerAccepts(s)
  \/ WorkerStarts(s) \/ WorkerCannotStart(s)
  \/ WorkerBusyHeartbeat(s) \/ WorkerActionEnds(s) \/ WorkerPublishes(s) \/ WorkerDeletes(s)
  \/ \E c \in Calls : WorkerTake(s, c)

Next ==
  \/ \E c \in Calls : DispatchJoin(c) \/ DispatchBegin(c)
  \/ MainStep
  \/ Restart
  \/ \E s \in Sessions : WorkerStep(s) \/ UacAccept(s) \/ UacDecline(s) \/ WorkerCrash(s)
  \/ Tick

Spec == Init /\ [][Next]_vars

\* The event loop keeps taking callbacks and time passes; nothing is assumed of
\* the user or of any worker.
MainFairness ==
  /\ WF_vars(EnsureReprobe) /\ WF_vars(EnsureTimeout) /\ WF_vars(Tick)
  /\ \A c \in Calls : WF_vars(Resume(c)) /\ WF_vars(PollTimeout(c))

\* A worker that was started keeps running, and the action process it waits for ends.
WorkerFairness ==
  /\ WF_vars(Tick)
  /\ \A s \in Sessions :
       /\ WF_vars(WorkerBoot(s)) /\ WF_vars(WorkerLoop(s)) /\ WF_vars(WorkerIdleExit(s))
       /\ WF_vars(\E c \in Calls : WorkerTake(s, c)) /\ WF_vars(WorkerScanned(s))
       /\ WF_vars(WorkerCannotRead(s)) /\ WF_vars(WorkerReads(s)) /\ WF_vars(WorkerRejects(s))
       /\ WF_vars(WorkerAccepts(s)) /\ WF_vars(WorkerStarts(s))
       /\ WF_vars(WorkerActionEnds(s)) /\ WF_vars(WorkerPublishes(s)) /\ WF_vars(WorkerDeletes(s))

MainFairSpec == Spec /\ MainFairness
WorkerFairSpec == Spec /\ WorkerFairness

-----------------------------------------------------------------------------
(* Properties.                                                             *)

\* The action of one dispatch is started at most once, although a command file
\* whose delete failed is read again on every pass (accepted nonces of the worker).
AtMostOnce == \A c \in Calls : executions[c] <= 1

\* What dispatchCommand reports of its own action is what that action did: success
\* only after it ended well, an action error only after it failed.
ReportsAreTrue ==
  \A c \in Calls :
    /\ outcome[c] = "success" => effect[c] = "ok"
    /\ outcome[c] = "actionError" => effect[c] = "failed"

\* A dispatch that the worker refused (expired or replayed envelope) did not run.
\* The result of the first reading of a command is never overwritten by the
\* refusal that a second reading of the same file produces.
RefusedNeverRan ==
  \A c \in Calls : outcome[c] = "rejected" => executions[c] = 0

\* The capability of a session is overwritten exactly when the session is retired
\* and no dispatch still needs it to authenticate its result.
CapabilityLifetime ==
  \A s \in Sessions :
    s \in zeroed <=>
      s \in retired /\ \A c \in Calls : ~(callPc[c] = "polling" /\ callSession[c] = s)

\* None of the internal checks on a session ever fails: no dispatch continues with
\* a retired session (E_WORKER_SESSION) or one whose leaf was not proven
\* (E_QUEUE_ACL), and no leaf is proven before its worker is launched.
NoSessionFault == \A c \in Calls : outcome[c] # "sessionFault"

\* A UAC prompt of a session still in use is one that a dispatch is waiting for:
\* after a timeout, a decline or a rotation a late consent serves nobody.
PromptIsAwaited ==
  \A s \in Sessions :
    launcher[s] = "prompt" /\ s \notin retired
      => ensurePc = "poll" /\ ensureSession = s /\ activeSession = s

\* At most one session is in use at any time.
OneSessionInUse == created \ retired = {activeSession} \ {NoSession}

\* A command that no worker had accepted when its dispatch reported E_CMD_TIMEOUT is never
\* accepted or started any more, even if a worker has already read it into memory or its file
\* could not be withdrawn.  (One that was accepted just before may still start: then the
\* action follows the answer.)
TimedOutIsNotAccepted ==
  [][\A c \in Calls :
       outcome[c] = "timeout" /\ effect[c] = "none" => effect'[c] = "none"]_vars

\* Every dispatch is answered, whatever the user and the workers do or fail to do.
EveryDispatchSettles ==
  \A c \in Calls : callPc[c] # "idle" ~> callPc[c] = "settled"

\* Every worker that was started leaves, even if files it cannot delete keep
\* turning up in its queue.
EveryWorkerLeaves ==
  \A s \in Sessions : workerPc[s] = "boot" ~> workerPc[s] = "exited"

-----------------------------------------------------------------------------
(* The inductive invariant behind the safety properties.                   *)

\* The dispatches that hold session s.
Holders(s) == {c \in Calls : callPc[c] = "polling" /\ callSession[c] = s}

\* A session is created, launched, announced by a heartbeat and proven in this order.
SessionInv ==
  /\ retired \subseteq created /\ launchAttempted \subseteq created
  /\ queueReady \subseteq launchAttempted
  /\ OneSessionInUse
  /\ \A s \in Sessions : launcher[s] # "none" => s \in launchAttempted
  /\ \A s \in Sessions : workerPc[s] # "none" => launcher[s] = "accepted"
  /\ \A s \in heartbeatFile : launcher[s] = "accepted"

\* The shared promise works on the active session; it resolves to a proven one.
EnsureInv ==
  /\ ensurePc # "idle" => ensureSession = activeSession /\ activeSession # NoSession
  /\ \A c \in Calls : callPc[c] = "resumed" => ensurePc = "idle" /\ activeSession \in queueReady

\* The capability reference count is the number of dispatches that hold the session.
HoldInv ==
  /\ \A c \in Calls : callPc[c] = "polling" => callSession[c] \in created
  /\ \A s \in Sessions : inFlight[s] = Cardinality(Holders(s))

\* A dispatch signs its command for one session, after which the session is fixed.
CommandInv ==
  /\ \A c \in Calls : callPc[c] \in {"idle", "ensuring", "resumed"} => callSession[c] = NoSession
  /\ \A c \in Calls : callSession[c] = NoSession => c \notin cmdFile
  /\ \A c \in Calls : outcome[c] # "none" <=> callPc[c] = "settled"
  /\ \A s \in Sessions : workerPc[s] \in {"read", "check", "start", "exec", "publish", "delete"}
       => workerCmd[s] \in Calls /\ callSession[workerCmd[s]] = s

\* A nonce is consumed, by the worker of its session, before anything comes of its command.
NonceInv ==
  /\ \A s \in Sessions : \A c \in acceptedNonces[s] : callSession[c] = s /\ effect[c] # "none"
  /\ \A c \in Calls :
       \/ effect[c] = "none" /\ executions[c] = 0
       \/ effect[c] = "accepted" /\ executions[c] = 0 /\ \E s \in Sessions : c \in acceptedNonces[s]
       \/ /\ effect[c] \in {"running", "ok", "failed"} /\ executions[c] <= 1
          /\ \E s \in Sessions : c \in acceptedNonces[s]

\* What a worker is about to do or write, a result file says and a dispatch reported
\* of an action is what the action did.
ResultInv ==
  /\ \A s \in Sessions : workerPc[s] = "start" =>
       workerCmd[s] \in acceptedNonces[s] /\ effect[workerCmd[s]] = "accepted"
  /\ \A s \in Sessions : workerPc[s] = "exec" =>
       workerCmd[s] \in acceptedNonces[s] /\ effect[workerCmd[s]] = "running"
  /\ \A s \in Sessions : workerPc[s] = "publish" =>
       /\ workerResult[s] \in Results
       /\ workerResult[s] = "ok" => effect[workerCmd[s]] = "ok"
       /\ workerResult[s] = "failed" => effect[workerCmd[s]] = "failed"
  /\ \A c \in Calls : resultFile[c] = "ok" => effect[c] = "ok"
  /\ \A c \in Calls : resultFile[c] = "failed" => effect[c] = "failed"

\* A dispatch times out only after its envelope has expired.
TimeoutInv ==
  \A c \in Calls : outcome[c] = "timeout" => cmdAge[c] >= CmdTimeout

\* The envelope of a command was refused, or would be, without ever being accepted.
Expired(c) == effect[c] = "none" /\ cmdAge[c] >= EnvelopeLifetime

\* The worker of its session is not through with a command it accepted: it runs the action,
\* has yet to write what the action did, or to delete the command.
Unanswered(c) ==
  \E s \in Sessions :
    /\ callSession[c] = s /\ workerCmd[s] = c
    /\ \/ workerPc[s] \in {"start", "exec"}
       \/ workerPc[s] = "publish" /\ workerResult[s] \in {"ok", "failed"}
       \/ workerPc[s] = "delete" /\ "delete" \notin Faults

WorkerIsGone(c) == \E s \in Sessions : callSession[c] = s /\ workerPc[s] = "exited"

\* A refusal is written, and reported, only of a command whose envelope had expired before
\* it was accepted; the second reading of one that was finds its answer there, or nobody waiting.
RefusalInv ==
  /\ \A c \in Calls : callSession[c] = NoSession => resultFile[c] = "none"
  /\ \A c \in Calls : outcome[c] = "rejected" => Expired(c)
  /\ \A c \in Calls : callPc[c] = "polling" /\ resultFile[c] = "rejected" => Expired(c)
  /\ \A c \in Calls : callPc[c] = "polling" /\ effect[c] # "none" /\ c \in cmdFile =>
       resultFile[c] # "none" \/ Unanswered(c) \/ WorkerIsGone(c)
  /\ \A s \in Sessions : workerPc[s] = "check" =>
       LET c == workerCmd[s] IN
       effect[c] = "none" \/ resultFile[c] # "none" \/ callPc[c] # "polling"
  /\ \A s \in Sessions : workerPc[s] = "publish" /\ workerResult[s] = "rejected" =>
       LET c == workerCmd[s] IN
       Expired(c) \/ resultFile[c] # "none" \/ callPc[c] # "polling"

\* While deletes succeed, a command that has a result or that nobody waits for is in the
\* queue only until its worker deletes it, and a worker checks no command that was answered,
\* unless its dispatch timed out.
WithdrawalInv ==
  /\ \A c \in cmdFile :
       resultFile[c] # "none" \/ (callPc[c] = "settled" /\ outcome[c] # "lost") =>
         \E s \in Sessions :
           /\ callSession[c] = s
           /\ workerPc[s] = "exited" \/ (workerPc[s] = "delete" /\ workerCmd[s] = c)
  /\ \A s \in Sessions : workerPc[s] = "check" =>
       /\ resultFile[workerCmd[s]] = "none"
       /\ outcome[workerCmd[s]] \in {"none", "lost", "timeout"}

LifecycleInv ==
  TypeOK /\ SessionInv /\ EnsureInv /\ HoldInv /\ CapabilityLifetime

ExecutionInv ==
  CommandInv /\ NonceInv /\ ResultInv /\ ReportsAreTrue /\ TimeoutInv

-----------------------------------------------------------------------------
(* What a caller of dispatchCommand may rely on.                           *)

RequestState ==
  [c \in Calls |->
     CASE callPc[c] = "idle" -> "none"
       [] callPc[c] \in {"ensuring", "resumed", "polling"} -> "asked"
       [] callPc[c] = "settled" ->
            IF outcome[c] \in {"success", "actionError", "rejected", "lost"}
            THEN outcome[c] ELSE "unknown"]

Promise == INSTANCE ElevatedDispatch WITH request <- RequestState, run <- effect

\* The queue protocol implements that promise: ask once, commit to running at most once and
\* only while nobody was answered, answer once and truthfully.
DispatchPromise == Promise!Spec
=============================================================================
