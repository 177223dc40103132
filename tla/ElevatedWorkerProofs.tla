------------------------ MODULE ElevatedWorkerProofs ------------------------
EXTENDS ElevatedWorker, FiniteSetTheorems, TLAPS

(* Facts about the dispatches that hold a session.                         *)

\* Only finitely many dispatches hold a session, so that they can be counted.
LEMMA HoldersFinite == \A s \in Sessions : IsFiniteSet(Holders(s))
<1> TAKE s \in Sessions
<1> QED BY FS_Subset, SessionAssumption DEF Holders

\* A dispatch that polls for its result is one of the holders its session counts, and
\* the session counts one exactly when this dispatch is the last of them.
LEMMA HolderCounts ==
  ASSUME TypeOK, SessionInv, HoldInv, NEW c \in Calls, callPc[c] = "polling"
  PROVE  /\ callSession[c] \in Sessions
         /\ c \in Holders(callSession[c])
         /\ inFlight[callSession[c]] \in Nat \ {0}
         /\ inFlight[callSession[c]] = 1 <=> Holders(callSession[c]) = {c}
<1> DEFINE s == callSession[c]
<1>1. s \in Sessions
  BY DEF HoldInv, TypeOK
<1>2. c \in Holders(s)
  BY DEF Holders
<1>3. inFlight[s] = Cardinality(Holders(s)) /\ inFlight[s] \in Nat
  BY <1>1 DEF HoldInv, TypeOK
<1>4. IsFiniteSet(Holders(s))
  BY <1>1, HoldersFinite
<1>5. inFlight[s] # 0
  BY <1>2, <1>3, <1>4, FS_EmptySet
<1>6. inFlight[s] = 1 <=> Holders(s) = {c}
  <2>1. Cardinality(Holders(s) \ {c}) = Cardinality(Holders(s)) - 1
    BY <1>2, <1>4, FS_RemoveElement
  <2>2. IsFiniteSet(Holders(s) \ {c})
    BY <1>4, FS_RemoveElement
  <2>3. ASSUME inFlight[s] = 1 PROVE Holders(s) \ {c} = {}
    BY <1>3, <2>1, <2>2, <2>3, FS_EmptySet
  <2>4. Cardinality({c}) = 1
    BY FS_Singleton
  <2> QED BY <1>2, <1>3, <2>3, <2>4
<1> QED BY <1>1, <1>2, <1>3, <1>5, <1>6

\* The count of a session is zero exactly when no dispatch holds it.
LEMMA NotHeld ==
  ASSUME TypeOK, HoldInv, NEW s \in Sessions
  PROVE  inFlight[s] = 0 <=> Holders(s) = {}
BY HoldersFinite, FS_EmptySet DEF HoldInv, TypeOK

\* What the second probe can change: it settles the promise, or launches session n.
LEMMA ReprobeChanges ==
  ASSUME EnsureReprobe
  PROVE  /\ queueReady' \in {queueReady, queueReady \cup {ensureSession}}
         /\ \/ UNCHANGED <<created, launchAttempted, launcher>>
            \/ \E n \in Sessions :
                 /\ created' = created \cup {n}
                 /\ launchAttempted' \in {launchAttempted, launchAttempted \cup {n}}
                 /\ launcher' = launcher \/ launcher' = [launcher EXCEPT ![n] = "prompt"]
         /\ \/ ensurePc' = "idle" /\ ensureSession' = NoSession
            \/ ensurePc' = "poll" /\ ensureSession' \in Sessions
         /\ ensureAge' = 0
         /\ \E pc \in {"resumed", "settled", "ensuring"} :
              callPc' = [c \in Calls |-> IF c \in Waiting THEN pc ELSE callPc[c]]
         /\ \/ outcome' = outcome
            \/ \E why \in {"ensureFailed", "sessionFault"} :
                 outcome' = [c \in Calls |-> IF c \in Waiting THEN why ELSE outcome[c]]
<1>1. queueReady' \in {queueReady, queueReady \cup {ensureSession}}
  BY DEF EnsureReprobe, ReadyAfter
<1>2. \/ UNCHANGED <<created, launchAttempted, launcher>>
      \/ \E n \in Sessions :
           /\ created' = created \cup {n}
           /\ launchAttempted' \in {launchAttempted, launchAttempted \cup {n}}
           /\ launcher' = launcher \/ launcher' = [launcher EXCEPT ![n] = "prompt"]
  BY DEF EnsureReprobe, SpawnWorker
<1>3. /\ \/ ensurePc' = "idle" /\ ensureSession' = NoSession
         \/ ensurePc' = "poll" /\ ensureSession' \in Sessions
      /\ ensureAge' = 0
  BY DEF EnsureReprobe, SpawnWorker, EnsureThrows, EnsureRejects, EnsureResolves, EnsureAwaits
<1>4. \E pc \in {"resumed", "settled", "ensuring"} :
        callPc' = [c \in Calls |-> IF c \in Waiting THEN pc ELSE callPc[c]]
  BY DEF EnsureReprobe, SpawnWorker, EnsureThrows, EnsureRejects, EnsureResolves, EnsureAwaits
<1>5. \/ outcome' = outcome
      \/ \E why \in {"ensureFailed", "sessionFault"} :
           outcome' = [c \in Calls |-> IF c \in Waiting THEN why ELSE outcome[c]]
  BY DEF EnsureReprobe, SpawnWorker, EnsureThrows, EnsureRejects, EnsureResolves, EnsureAwaits
<1> QED BY <1>1, <1>2, <1>3, <1>4, <1>5

\* Every step keeps the variables within their types.
LEMMA TypeStep == LifecycleInv /\ CommandInv /\ [Next]_vars => TypeOK'
<1> SUFFICES ASSUME LifecycleInv, CommandInv, [Next]_vars PROVE TypeOK'
  OBVIOUS
<1>0. TypeOK /\ (ensurePc # "idle" => ensureSession \in Sessions)
  BY DEF LifecycleInv, EnsureInv, TypeOK
<1> USE <1>0, SessionAssumption, TimeAssumption
    DEF TypeOK, CallPcs, Outcomes, Results, WorkerPcs, Effects, sessionVars, ensureVars, callVars,
        queueVars, workerVars, historyVars
<1>1. ASSUME NEW c \in Calls, DispatchJoin(c) PROVE TypeOK'
  BY <1>1 DEF DispatchJoin
<1>2. ASSUME NEW c \in Calls, DispatchBegin(c) PROVE TypeOK'
  <2>1. WorkerSession \subseteq Sessions
    BY DEF WorkerSession
  <2>2. /\ created' \subseteq Sessions /\ queueReady' \subseteq Sessions
        /\ launchAttempted' \subseteq Sessions
        /\ launcher' \in [Sessions -> {"none", "prompt", "accepted", "failed"}]
    BY SMTT(30), <1>2, <2>1 DEF DispatchBegin, SpawnWorker, ReadyAfter
  <2>3. /\ activeSession' \in Sessions \cup {NoSession}
        /\ retired' \subseteq Sessions /\ zeroed' \subseteq Sessions
    BY SMTT(30), <1>2, <2>1 DEF DispatchBegin, SpawnWorker, EnsureThrows, RetireWorkerSession
  <2>4. /\ ensurePc' \in {"idle", "reprobe", "poll"}
        /\ ensureSession' \in Sessions \cup {NoSession} /\ ensureAge' \in 0..SpawnTimeout
    BY SMTT(30), <1>2, <2>1 DEF DispatchBegin, SpawnWorker, EnsureThrows, EnsureRejects,
                                EnsureResolves,
                      EnsureAwaits
  <2>5. callPc' \in [Calls -> CallPcs] /\ outcome' \in [Calls -> Outcomes]
    BY <1>2 DEF DispatchBegin, SpawnWorker, EnsureThrows, EnsureRejects, EnsureResolves,
                EnsureAwaits
  <2> QED BY <1>2, <2>2, <2>3, <2>4, <2>5 DEF DispatchBegin
<1>3. ASSUME EnsureReprobe PROVE TypeOK'
  <2>1. ensureSession \in Sessions
    BY <1>3 DEF EnsureReprobe
  <2>2. /\ created' \subseteq Sessions /\ queueReady' \subseteq Sessions
        /\ launchAttempted' \subseteq Sessions
        /\ launcher' \in [Sessions -> {"none", "prompt", "accepted", "failed"}]
    BY <1>3, <2>1, ReprobeChanges
  <2>3. /\ activeSession' \in Sessions \cup {NoSession}
        /\ retired' \subseteq Sessions /\ zeroed' \subseteq Sessions
    BY <1>3, <2>1 DEF EnsureReprobe, SpawnWorker, EnsureThrows, RetireWorkerSession
  <2>4. /\ ensurePc' \in {"idle", "reprobe", "poll"}
        /\ ensureSession' \in Sessions \cup {NoSession} /\ ensureAge' \in 0..SpawnTimeout
    BY <1>3, ReprobeChanges
  <2>5. callPc' \in [Calls -> CallPcs] /\ outcome' \in [Calls -> Outcomes]
    BY <1>3, ReprobeChanges
  <2> QED BY <1>3, <2>2, <2>3, <2>4, <2>5 DEF EnsureReprobe
<1>4. ASSUME EnsurePoll PROVE TypeOK'
  BY <1>4 DEF EnsurePoll, EnsureThrows, EnsureRejects, RetireWorkerSession, EnsureResolves,
              ReadyAfter
<1>5. ASSUME EnsureTimeout PROVE TypeOK'
  BY <1>5 DEF EnsureTimeout, EnsureThrows, EnsureRejects, RetireWorkerSession
<1>6. ASSUME NEW c \in Calls, Resume(c) PROVE TypeOK'
  <2> PICK s \in WorkerSession : Resume(c)!2!(s)
    BY <1>6 DEF Resume
  <2>1. s \in Sessions
    BY DEF WorkerSession
  <2>2. callPc' \in [Calls -> CallPcs] /\ outcome' \in [Calls -> Outcomes]
    BY SMTT(30), <1>6 DEF Resume, DispatchSettles
  <2>3. /\ callSession' \in [Calls -> Sessions \cup {NoSession}]
        /\ inFlight' \in [Sessions -> Nat]
    BY SMTT(30), <2>1, <1>6 DEF Resume, AcquireWorkerSession
  <2>4. cmdFile' \subseteq Calls /\ cmdAge' \in [Calls -> 0..CmdAgeCap]
    BY <1>6 DEF Resume, CmdAgeCap, Max2
  <2> QED
    BY SMTT(30), <2>1, <2>2, <2>3, <2>4, <1>6 DEF Resume
<1>7. ASSUME NEW c \in Calls, PollResult(c) PROVE TypeOK'
  <2>1. /\ callSession[c] \in Sessions
        /\ inFlight[callSession[c]] \in Nat \ {0}
    BY <1>7, HolderCounts DEF PollResult, LifecycleInv
  <2>2. inFlight' \in [Sessions -> Nat] /\ zeroed' \subseteq Sessions
    <3>1. ReleaseWorkerSession(callSession[c])
      BY <1>7 DEF PollResult
    <3> QED BY <2>1, <3>1 DEF ReleaseWorkerSession
  <2>3. /\ resultFile' \in [Calls -> Results \cup {"none"}]
        /\ cmdFile' \subseteq Calls
    BY <1>7 DEF PollResult, AfterResultDelete, AfterCommandDelete
  <2>4. ResultOutcome(resultFile[c]) \in Outcomes
    BY <1>7 DEF PollResult, ResultOutcome
  <2>5. /\ callPc' \in [Calls -> CallPcs] /\ outcome' \in [Calls -> Outcomes]
    <3>1. PICK what \in Outcomes : DispatchSettles(c, what)
      BY <2>4, <1>7 DEF PollResult
    <3> QED BY <3>1 DEF DispatchSettles
  <2> QED
    BY <2>2, <2>3, <2>5, <1>7 DEF PollResult
<1>8. ASSUME NEW c \in Calls, PollTimeout(c) PROVE TypeOK'
  <2>1. /\ callSession[c] \in Sessions
        /\ inFlight[callSession[c]] \in Nat \ {0}
    BY <1>8, HolderCounts DEF PollTimeout, LifecycleInv
  <2>2. inFlight' \in [Sessions -> Nat] /\ zeroed' \subseteq Sessions
    <3>1. ReleaseWorkerSession(callSession[c])
      BY <1>8 DEF PollTimeout
    <3> QED BY <2>1, <3>1 DEF ReleaseWorkerSession
  <2>3. /\ callPc' \in [Calls -> CallPcs] /\ outcome' \in [Calls -> Outcomes]
        /\ cmdFile' \subseteq Calls
    BY <1>8 DEF PollTimeout, DispatchSettles, AfterCommandDelete
  <2> QED
    BY <2>2, <2>3, <1>8 DEF PollTimeout
<1>9. ASSUME Restart PROVE TypeOK'
  BY <1>9 DEF Restart
<1>10. ASSUME NEW s \in Sessions, WorkerBoot(s) PROVE TypeOK'
  BY <1>10 DEF WorkerBoot, UpdateHeartbeat
<1>11. ASSUME NEW s \in Sessions, WorkerLoop(s) PROVE TypeOK'
  BY <1>11 DEF WorkerLoop, UpdateHeartbeat
<1>12. ASSUME NEW s \in Sessions, WorkerIdleExit(s) PROVE TypeOK'
  BY <1>12 DEF WorkerIdleExit
<1>13. ASSUME NEW s \in Sessions, WorkerScanned(s) PROVE TypeOK'
  BY <1>13 DEF WorkerScanned
<1>14. ASSUME NEW s \in Sessions, WorkerCannotRead(s) PROVE TypeOK'
  BY <1>14 DEF WorkerCannotRead
<1>15. ASSUME NEW s \in Sessions, WorkerRejects(s) PROVE TypeOK'
  BY <1>15 DEF WorkerRejects
<1>16. ASSUME NEW s \in Sessions, WorkerReads(s) PROVE TypeOK'
  BY <1>16 DEF WorkerReads
<1>27. ASSUME NEW s \in Sessions, WorkerAccepts(s) PROVE TypeOK'
  <2>1. workerCmd[s] \in Calls
    BY <1>27 DEF WorkerAccepts, CommandInv
  <2> QED
    BY <2>1, <1>27 DEF WorkerAccepts
<1>28. ASSUME NEW s \in Sessions, WorkerStarts(s) PROVE TypeOK'
  <2>1. workerCmd[s] \in Calls
    BY <1>28 DEF WorkerStarts, CommandInv
  <2> QED
    BY <2>1, <1>28 DEF WorkerStarts
<1>29. ASSUME NEW s \in Sessions, WorkerCannotStart(s) PROVE TypeOK'
  BY <1>29 DEF WorkerCannotStart
<1>17. ASSUME NEW s \in Sessions, WorkerBusyHeartbeat(s) PROVE TypeOK'
  BY <1>17 DEF WorkerBusyHeartbeat, UpdateHeartbeat
<1>18. ASSUME NEW s \in Sessions, WorkerActionEnds(s) PROVE TypeOK'
  <2>1. workerCmd[s] \in Calls
    BY <1>18 DEF WorkerActionEnds, CommandInv
  <2> QED
    BY <2>1, <1>18 DEF WorkerActionEnds
<1>19. ASSUME NEW s \in Sessions, WorkerPublishes(s) PROVE TypeOK'
  BY <1>19 DEF WorkerPublishes, AfterResultWrite
<1>20. ASSUME NEW s \in Sessions, WorkerDeletes(s) PROVE TypeOK'
  BY <1>20 DEF WorkerDeletes, AfterCommandDelete, CountsAsActivity
<1>21. ASSUME NEW s \in Sessions, NEW c \in Calls, WorkerTake(s, c) PROVE TypeOK'
  BY <1>21 DEF WorkerTake
<1>22. ASSUME NEW s \in Sessions, UacAccept(s) PROVE TypeOK'
  BY <1>22 DEF UacAccept
<1>23. ASSUME NEW s \in Sessions, UacDecline(s) PROVE TypeOK'
  BY <1>23 DEF UacDecline
<1>24. ASSUME NEW s \in Sessions, WorkerCrash(s) PROVE TypeOK'
  BY <1>24 DEF WorkerCrash
<1>25. ASSUME Tick PROVE TypeOK'
  BY <1>25 DEF Tick, Bump, CmdAgeCap, Max2
<1>26. CASE UNCHANGED vars
  BY <1>26 DEF vars
<1> QED
  BY <1>1, <1>2, <1>3, <1>4, <1>5, <1>6, <1>7, <1>8, <1>9, <1>10, <1>11, <1>12, <1>13, <1>14,
     <1>15, <1>16, <1>17, <1>18, <1>19, <1>20, <1>21, <1>22, <1>23, <1>24, <1>25, <1>26, <1>27, <1>28, <1>29 DEF
     Next, MainStep, WorkerStep

\* Every step keeps the order in which a session is created, launched and proven.
LEMMA SessionStep == LifecycleInv /\ [Next]_vars => SessionInv'
<1> SUFFICES ASSUME LifecycleInv, [Next]_vars PROVE SessionInv'
  OBVIOUS
<1> USE SessionAssumption
    DEF LifecycleInv, TypeOK, SessionInv, EnsureInv, OneSessionInUse, sessionVars, ensureVars,
        callVars, queueVars, workerVars, historyVars
<1>1. ASSUME NEW c \in Calls, DispatchJoin(c) PROVE SessionInv'
  BY <1>1 DEF DispatchJoin
<1>2. ASSUME NEW c \in Calls, DispatchBegin(c) PROVE SessionInv'
  BY <1>2 DEF DispatchBegin, EnsureThrows, EnsureRejects, RetireWorkerSession, EnsureResolves,
              EnsureAwaits, SpawnWorker, WorkerSession, ReadyAfter
<1>3. ASSUME EnsureReprobe PROVE SessionInv'
  BY <1>3 DEF EnsureReprobe, EnsureThrows, EnsureRejects, RetireWorkerSession, EnsureResolves,
              EnsureAwaits, SpawnWorker, ReadyAfter
<1>4. ASSUME EnsurePoll PROVE SessionInv'
  BY <1>4 DEF EnsurePoll, EnsureThrows, EnsureRejects, RetireWorkerSession, EnsureResolves,
              ReadyAfter
<1>5. ASSUME EnsureTimeout PROVE SessionInv'
  BY <1>5 DEF EnsureTimeout, EnsureThrows, EnsureRejects, RetireWorkerSession
<1>6. ASSUME NEW c \in Calls, Resume(c) PROVE SessionInv'
  BY <1>6 DEF Resume, WorkerSession, DispatchSettles, AcquireWorkerSession
<1>7. ASSUME NEW c \in Calls, PollResult(c) PROVE SessionInv'
  BY <1>7 DEF PollResult, DispatchSettles, ReleaseWorkerSession, AfterResultDelete,
              AfterCommandDelete, ResultOutcome
<1>8. ASSUME NEW c \in Calls, PollTimeout(c) PROVE SessionInv'
  BY <1>8 DEF PollTimeout, DispatchSettles, ReleaseWorkerSession, AfterCommandDelete
<1>9. ASSUME Restart PROVE SessionInv'
  BY <1>9 DEF Restart
<1>10. ASSUME NEW s \in Sessions, WorkerBoot(s) PROVE SessionInv'
  BY <1>10 DEF WorkerBoot, UpdateHeartbeat
<1>11. ASSUME NEW s \in Sessions, WorkerLoop(s) PROVE SessionInv'
  BY <1>11 DEF WorkerLoop, UpdateHeartbeat
<1>12. ASSUME NEW s \in Sessions, WorkerIdleExit(s) PROVE SessionInv'
  BY <1>12 DEF WorkerIdleExit
<1>13. ASSUME NEW s \in Sessions, WorkerScanned(s) PROVE SessionInv'
  BY <1>13 DEF WorkerScanned
<1>14. ASSUME NEW s \in Sessions, WorkerCannotRead(s) PROVE SessionInv'
  BY <1>14 DEF WorkerCannotRead
<1>15. ASSUME NEW s \in Sessions, WorkerRejects(s) PROVE SessionInv'
  BY <1>15 DEF WorkerRejects
<1>16. ASSUME NEW s \in Sessions, WorkerReads(s) PROVE SessionInv'
  BY <1>16 DEF WorkerReads
<1>27. ASSUME NEW s \in Sessions, WorkerAccepts(s) PROVE SessionInv'
  BY <1>27 DEF WorkerAccepts
<1>28. ASSUME NEW s \in Sessions, WorkerStarts(s) PROVE SessionInv'
  BY <1>28 DEF WorkerStarts
<1>29. ASSUME NEW s \in Sessions, WorkerCannotStart(s) PROVE SessionInv'
  BY <1>29 DEF WorkerCannotStart
<1>17. ASSUME NEW s \in Sessions, WorkerBusyHeartbeat(s) PROVE SessionInv'
  BY <1>17 DEF WorkerBusyHeartbeat, UpdateHeartbeat
<1>18. ASSUME NEW s \in Sessions, WorkerActionEnds(s) PROVE SessionInv'
  BY <1>18 DEF WorkerActionEnds
<1>19. ASSUME NEW s \in Sessions, WorkerPublishes(s) PROVE SessionInv'
  BY <1>19 DEF WorkerPublishes, AfterResultWrite
<1>20. ASSUME NEW s \in Sessions, WorkerDeletes(s) PROVE SessionInv'
  BY <1>20 DEF WorkerDeletes, AfterCommandDelete, CountsAsActivity
<1>21. ASSUME NEW s \in Sessions, NEW c \in Calls, WorkerTake(s, c) PROVE SessionInv'
  BY <1>21 DEF WorkerTake
<1>22. ASSUME NEW s \in Sessions, UacAccept(s) PROVE SessionInv'
  BY <1>22 DEF UacAccept
<1>23. ASSUME NEW s \in Sessions, UacDecline(s) PROVE SessionInv'
  BY <1>23 DEF UacDecline
<1>24. ASSUME NEW s \in Sessions, WorkerCrash(s) PROVE SessionInv'
  BY <1>24 DEF WorkerCrash
<1>25. ASSUME Tick PROVE SessionInv'
  BY <1>25 DEF Tick, Bump, CmdAgeCap, Max2
<1>26. CASE UNCHANGED vars
  BY <1>26 DEF vars
<1> QED
  BY <1>1, <1>2, <1>3, <1>4, <1>5, <1>6, <1>7, <1>8, <1>9, <1>10, <1>11, <1>12, <1>13, <1>14,
     <1>15, <1>16, <1>17, <1>18, <1>19, <1>20, <1>21, <1>22, <1>23, <1>24, <1>25, <1>26, <1>27, <1>28, <1>29 DEF
     Next, MainStep, WorkerStep

\* Workers, prompts and time leave the main process alone.
MainFrame == UNCHANGED <<sessionVars, inFlight, ensurePc, ensureSession, callVars>>

\* Steps of a worker, the user or the clock are such steps; only the user and a
\* finished launcher change the state of the launcher.
LEMMA OutsideStep ==
  ASSUME \/ \E s \in Sessions : WorkerStep(s) \/ UacAccept(s) \/ UacDecline(s) \/ WorkerCrash(s)
         \/ Tick \/ UNCHANGED vars
  PROVE  /\ MainFrame
         /\ launcher' = launcher \/ \E s \in Sessions : UacAccept(s) \/ UacDecline(s)
BY DEF MainFrame, WorkerStep, WorkerBoot, WorkerLoop, WorkerIdleExit, WorkerScanned,
       WorkerCannotRead, WorkerReads, WorkerRejects, WorkerAccepts, WorkerStarts,
       WorkerCannotStart, WorkerBusyHeartbeat, WorkerActionEnds, WorkerPublishes, WorkerDeletes, WorkerTake, UacAccept, UacDecline, WorkerCrash, Tick,
       vars, sessionVars, ensureVars, callVars

\* Every step keeps the shared promise on the active session.
LEMMA EnsureStep == LifecycleInv /\ [Next]_vars => EnsureInv'
<1> SUFFICES ASSUME LifecycleInv, [Next]_vars PROVE EnsureInv'
  OBVIOUS
<1> USE SessionAssumption
    DEF LifecycleInv, TypeOK, SessionInv, EnsureInv, OneSessionInUse, sessionVars, ensureVars,
        callVars, queueVars, workerVars, historyVars
<1>1. ASSUME NEW c \in Calls, DispatchJoin(c) PROVE EnsureInv'
  BY <1>1 DEF DispatchJoin
<1>2. ASSUME NEW c \in Calls, DispatchBegin(c) PROVE EnsureInv'
  BY <1>2 DEF DispatchBegin, EnsureThrows, EnsureRejects, RetireWorkerSession, EnsureResolves,
              EnsureAwaits, SpawnWorker, WorkerSession, ReadyAfter, Probe, EventLoopFree,
              IsWorkerSessionAlive, Waiting
<1>3. ASSUME EnsureReprobe PROVE EnsureInv'
  BY <1>3 DEF EnsureReprobe, EnsureThrows, EnsureRejects, RetireWorkerSession, EnsureResolves,
              EnsureAwaits, SpawnWorker, ReadyAfter, Probe, EventLoopFree, IsWorkerSessionAlive,
              Waiting
<1>4. ASSUME EnsurePoll PROVE EnsureInv'
  BY <1>4 DEF EnsurePoll, EnsureThrows, EnsureRejects, RetireWorkerSession, EnsureResolves,
              ReadyAfter, Probe, EventLoopFree, IsWorkerSessionAlive, Waiting
<1>5. ASSUME EnsureTimeout PROVE EnsureInv'
  BY <1>5 DEF EnsureTimeout, EnsureThrows, EnsureRejects, RetireWorkerSession
<1>6. ASSUME NEW c \in Calls, Resume(c) PROVE EnsureInv'
  BY <1>6 DEF Resume, WorkerSession, DispatchSettles, AcquireWorkerSession
<1>7. ASSUME NEW c \in Calls, PollResult(c) PROVE EnsureInv'
  BY <1>7 DEF PollResult, DispatchSettles, ReleaseWorkerSession, AfterResultDelete,
              AfterCommandDelete, ResultOutcome
<1>8. ASSUME NEW c \in Calls, PollTimeout(c) PROVE EnsureInv'
  BY <1>8 DEF PollTimeout, DispatchSettles, ReleaseWorkerSession, AfterCommandDelete
<1>9. ASSUME Restart PROVE EnsureInv'
  BY <1>9 DEF Restart
<1>10. ASSUME MainFrame PROVE EnsureInv'
  BY <1>10 DEF MainFrame
<1> QED
  BY <1>1, <1>2, <1>3, <1>4, <1>5, <1>6, <1>7, <1>8, <1>9, <1>10, OutsideStep DEF Next, MainStep

\* The holders of a session depend only on who polls and on whose session it is.
LEMMA SameHolders ==
  ASSUME callSession' = callSession,
         \A c \in Calls : callPc'[c] = "polling" <=> callPc[c] = "polling"
  PROVE  \A s \in Sessions : Holders(s)' = Holders(s)
BY DEF Holders

\* Waiting, or being answered without having been sent, holds no session.
LEMMA EnsureHolders ==
  ASSUME TypeOK,
         \/ \E c \in Calls : DispatchJoin(c) \/ DispatchBegin(c)
         \/ EnsureReprobe \/ EnsurePoll \/ EnsureTimeout
  PROVE  /\ inFlight' = inFlight
         /\ \A s \in Sessions : Holders(s)' = Holders(s)
         /\ callSession' = callSession
         /\ \A c \in Calls : callPc'[c] = "polling" <=> callPc[c] = "polling"
         /\ created \subseteq created'
<1>1. callSession' = callSession /\ inFlight' = inFlight
  BY DEF DispatchJoin, DispatchBegin, EnsureReprobe, EnsurePoll, EnsureTimeout
<1>0. created \subseteq created'
  <2>1. ASSUME NEW c \in Calls, DispatchJoin(c) PROVE created' = created
    BY <2>1 DEF DispatchJoin, sessionVars
  <2>2. ASSUME NEW c \in Calls, DispatchBegin(c) PROVE created \subseteq created'
    BY <2>2 DEF DispatchBegin
  <2>3. ASSUME EnsureReprobe PROVE created \subseteq created'
    BY <2>3 DEF EnsureReprobe
  <2>4. ASSUME EnsurePoll \/ EnsureTimeout PROVE created' = created
    BY <2>4 DEF EnsurePoll, EnsureTimeout
  <2> QED BY <2>1, <2>2, <2>3, <2>4
<1>2. \A c \in Calls : callPc'[c] = "polling" <=> callPc[c] = "polling"
  <2> DEFINE Moves(W, pc) ==
        callPc' = [c \in Calls |-> IF c \in W THEN pc ELSE callPc[c]]
  <2>1. ASSUME NEW d \in Calls, DispatchJoin(d)
        PROVE  callPc[d] = "idle" /\ callPc' = [callPc EXCEPT ![d] = "ensuring"]
    BY <2>1 DEF DispatchJoin
  <2>2. ASSUME NEW d \in Calls, DispatchBegin(d)
        PROVE  callPc[d] = "idle"
                 /\ (Moves({d}, "settled") \/ Moves({d}, "resumed") \/ Moves({d}, "ensuring"))
    BY <2>2 DEF DispatchBegin, EnsureThrows, EnsureRejects, EnsureResolves, EnsureAwaits,
                SpawnWorker
  <2>3. ASSUME EnsureReprobe \/ EnsurePoll \/ EnsureTimeout
        PROVE  \/ callPc' = callPc \/ Moves(Waiting, "settled") \/ Moves(Waiting, "resumed")
               \/ Moves(Waiting, "ensuring")
    BY <2>3 DEF EnsureReprobe, EnsurePoll, EnsureTimeout, EnsureThrows, EnsureRejects,
                EnsureResolves, EnsureAwaits, SpawnWorker
  <2>5. ASSUME NEW W \in SUBSET Calls, \A c \in W : callPc[c] # "polling",
               NEW pc \in {"settled", "resumed", "ensuring"}, Moves(W, pc), NEW c \in Calls
        PROVE  callPc'[c] = "polling" <=> callPc[c] = "polling"
    BY <2>5
  <2>6. Waiting \in SUBSET Calls /\ \A c \in Waiting : callPc[c] # "polling"
    BY DEF Waiting
  <2>7. ASSUME NEW d \in Calls, DispatchJoin(d), NEW c \in Calls
        PROVE  callPc'[c] = "polling" <=> callPc[c] = "polling"
    BY <2>1, <2>7 DEF TypeOK
  <2>8. ASSUME NEW d \in Calls, DispatchBegin(d), NEW c \in Calls
        PROVE  callPc'[c] = "polling" <=> callPc[c] = "polling"
    BY <2>2, <2>8 DEF TypeOK
  <2>9. ASSUME EnsureReprobe \/ EnsurePoll \/ EnsureTimeout, NEW c \in Calls
        PROVE  callPc'[c] = "polling" <=> callPc[c] = "polling"
    BY <2>3, <2>5, <2>6, <2>9
  <2> QED BY <2>7, <2>8, <2>9
<1> QED BY <1>0, <1>1, <1>2, SameHolders

\* One dispatch less holds the session it is released from.
LEMMA ReleaseHolders ==
  ASSUME TypeOK, SessionInv, HoldInv, NEW c \in Calls, PollResult(c) \/ PollTimeout(c),
         NEW s \in Sessions, s = callSession[c]
  PROVE  /\ Holders(s)' = Holders(s) \ {c}
         /\ \A t \in Sessions \ {s} : Holders(t)' = Holders(t)
<1>1. callSession' = callSession /\ callPc' = [callPc EXCEPT ![c] = "settled"]
  BY DEF PollResult, PollTimeout, DispatchSettles
<1>2. callPc[c] = "polling"
  BY DEF PollResult, PollTimeout
<1> QED BY <1>1, <1>2 DEF Holders, TypeOK

\* acquireWorkerSession and releaseWorkerSession keep the count equal to the holders.
LEMMA HoldStep == LifecycleInv /\ [Next]_vars => HoldInv'
<1> SUFFICES ASSUME LifecycleInv, [Next]_vars PROVE HoldInv'
  OBVIOUS
<1> USE SessionAssumption DEF LifecycleInv
<1>1. ASSUME \/ \E c \in Calls : DispatchJoin(c) \/ DispatchBegin(c)
             \/ EnsureReprobe \/ EnsurePoll \/ EnsureTimeout
      PROVE  HoldInv'
  BY <1>1, EnsureHolders DEF HoldInv
<1>2. ASSUME NEW c \in Calls, Resume(c) PROVE HoldInv'
  <2>1. CASE inFlight' = inFlight /\ callSession' = callSession /\ callPc' = [callPc EXCEPT ![c] = "settled"]
    <3>1. \A d \in Calls : callPc'[d] = "polling" <=> callPc[d] = "polling"
      BY <1>2, <2>1 DEF Resume, TypeOK
    <3>2. created \subseteq created'
      BY <1>2 DEF Resume
    <3> QED BY <2>1, <3>1, <3>2, SameHolders DEF HoldInv
  <2>2. ASSUME NEW s \in Sessions, AcquireWorkerSession(s), created' = created \cup {s},
               callPc' = [callPc EXCEPT ![c] = "polling"],
               callSession' = [callSession EXCEPT ![c] = s]
        PROVE  HoldInv'
    <3>1. Holders(s)' = Holders(s) \cup {c} /\ c \notin Holders(s)
      BY <1>2, <2>2 DEF Resume, Holders, TypeOK
    <3>2. \A t \in Sessions \ {s} : Holders(t)' = Holders(t)
      BY <1>2, <2>2 DEF Resume, Holders, TypeOK
    <3>3. Cardinality(Holders(s)') = Cardinality(Holders(s)) + 1
      BY <3>1, HoldersFinite, FS_AddElement
    <3>4. \A t \in Sessions : inFlight'[t] = Cardinality(Holders(t)')
      BY <2>2, <3>2, <3>3 DEF AcquireWorkerSession, HoldInv, TypeOK
    <3>5. \A d \in Calls : callPc'[d] = "polling" => callSession'[d] \in created'
      BY <2>2 DEF HoldInv, TypeOK
    <3> QED BY <3>4, <3>5 DEF HoldInv
  <2> QED BY <1>2, <2>1, <2>2 DEF Resume, WorkerSession, DispatchSettles, TypeOK
<1>3. ASSUME NEW c \in Calls, PollResult(c) \/ PollTimeout(c) PROVE HoldInv'
  <2>0. callPc[c] = "polling"
    BY <1>3 DEF PollResult, PollTimeout
  <2> PICK s \in Sessions : s = callSession[c]
    BY <2>0, HolderCounts
  <2>1. /\ callPc' = [callPc EXCEPT ![c] = "settled"]
        /\ callSession' = callSession /\ created' = created
        /\ inFlight' = [inFlight EXCEPT ![s] = @ - 1]
    BY <1>3 DEF PollResult, PollTimeout, DispatchSettles, ReleaseWorkerSession
  <2>2. c \in Holders(s)
    BY <2>0, HolderCounts
  <2>3. Cardinality(Holders(s)') = Cardinality(Holders(s)) - 1
    <3>1. Holders(s)' = Holders(s) \ {c}
      BY <1>3, ReleaseHolders
    <3> QED BY <2>2, <3>1, HoldersFinite, FS_RemoveElement
  <2>4. \A t \in Sessions : inFlight'[t] = Cardinality(Holders(t)')
    BY <1>3, <2>1, <2>2, <2>3, ReleaseHolders DEF HoldInv, TypeOK
  <2>5. \A d \in Calls : callPc'[d] = "polling" => callSession'[d] \in created'
    BY <2>1 DEF HoldInv, TypeOK
  <2> QED BY <2>4, <2>5 DEF HoldInv
<1>4. ASSUME Restart PROVE HoldInv'
  <2>1. \A c \in Calls : callPc'[c] # "polling"
    BY <1>4 DEF Restart
  <2>2. \A s \in Sessions : Holders(s)' = {}
    BY <2>1 DEF Holders
  <2> QED BY <1>4, <2>1, <2>2, FS_EmptySet DEF Restart, HoldInv
<1>5. ASSUME MainFrame PROVE HoldInv'
  BY <1>5, SameHolders DEF MainFrame, HoldInv, sessionVars, callVars
<1> QED
  BY <1>1, <1>2, <1>3, <1>4, <1>5, OutsideStep DEF Next, MainStep

\* Every step overwrites exactly the capabilities that nobody needs any more.
LEMMA CapabilityStep == LifecycleInv /\ [Next]_vars => CapabilityLifetime'
<1> SUFFICES ASSUME LifecycleInv, [Next]_vars PROVE CapabilityLifetime'
  OBVIOUS
<1> USE SessionAssumption DEF LifecycleInv
<1>0. /\ CapabilityLifetime <=> \A s \in Sessions : s \in zeroed <=> s \in retired /\ Holders(s) = {}
      /\ CapabilityLifetime' <=>
           \A s \in Sessions : s \in zeroed' <=> s \in retired' /\ Holders(s)' = {}
  BY DEF CapabilityLifetime, Holders
<1>1. ASSUME \/ \E c \in Calls : DispatchJoin(c) \/ DispatchBegin(c)
             \/ EnsureReprobe \/ EnsurePoll \/ EnsureTimeout
      PROVE  CapabilityLifetime'
  <2>1. \/ retired' = retired /\ zeroed' = zeroed
        \/ \E R \in SUBSET Sessions :
             retired' = retired \cup R /\ zeroed' = zeroed \cup {s \in R : inFlight[s] = 0}
    <3> DEFINE Retires(R) ==
          R \subseteq Sessions /\ retired' = retired \cup R
            /\ zeroed' = zeroed \cup {s \in R : inFlight[s] = 0}
    <3>1. ASSUME NEW c \in Calls, DispatchJoin(c) PROVE retired' = retired /\ zeroed' = zeroed
      BY <3>1 DEF DispatchJoin, sessionVars
    <3>2. ASSUME NEW c \in Calls, DispatchBegin(c)
          PROVE  (retired' = retired /\ zeroed' = zeroed)
                   \/ Retires({}) \/ \E s \in Sessions : Retires({s})
      BY <3>2 DEF DispatchBegin, EnsureThrows, RetireWorkerSession, SpawnWorker, WorkerSession,
                  TypeOK
    <3>3. ASSUME EnsureReprobe
          PROVE  (retired' = retired /\ zeroed' = zeroed) \/ Retires({ensureSession})
                   \/ \E n \in Sessions : Retires({ensureSession, n})
      <4>1. ensureSession \in Sessions
        BY <3>3 DEF EnsureReprobe, EnsureInv, TypeOK
      <4>2. \A n : {ensureSession} \cup {n} = {ensureSession, n}
        OBVIOUS
      <4> QED BY <3>3, <4>1, <4>2 DEF EnsureReprobe, EnsureThrows, RetireWorkerSession,
                                      SpawnWorker
    <3>4. ASSUME EnsurePoll \/ EnsureTimeout
          PROVE  (retired' = retired /\ zeroed' = zeroed) \/ Retires({ensureSession})
      <4>1. ensureSession \in Sessions
        BY <3>4 DEF EnsurePoll, EnsureTimeout, EnsureInv, TypeOK
      <4> QED BY <3>4, <4>1 DEF EnsurePoll, EnsureTimeout, EnsureThrows, RetireWorkerSession
    <3>5. ASSUME NEW R, Retires(R)
          PROVE  \E Q \in SUBSET Sessions :
                   retired' = retired \cup Q /\ zeroed' = zeroed \cup {s \in Q : inFlight[s] = 0}
      BY <3>5
    <3> QED BY <1>1, <3>1, <3>2, <3>3, <3>4, <3>5
  <2> QED BY <1>0, <1>1, <2>1, EnsureHolders, NotHeld
<1>2. ASSUME NEW c \in Calls, Resume(c) PROVE CapabilityLifetime'
  <2>1. retired' = retired /\ zeroed' = zeroed
    BY <1>2 DEF Resume
  <2>2. \A s \in retired : Holders(s)' = Holders(s)
    BY <1>2 DEF Resume, Holders, DispatchSettles, AcquireWorkerSession, TypeOK
  <2> QED BY <1>0, <2>1, <2>2 DEF TypeOK
<1>3. ASSUME NEW c \in Calls, PollResult(c) \/ PollTimeout(c) PROVE CapabilityLifetime'
  <2>0. callPc[c] = "polling"
    BY <1>3 DEF PollResult, PollTimeout
  <2> PICK s \in Sessions : s = callSession[c]
    BY <2>0, HolderCounts
  <2>1. /\ c \in Holders(s)
        /\ inFlight[s] = 1 <=> Holders(s) = {c}
    BY <2>0, HolderCounts
  <2>2. /\ retired' = retired
        /\ zeroed' = IF s \in retired /\ inFlight[s] = 1 THEN zeroed \cup {s} ELSE zeroed
    BY <1>3 DEF PollResult, PollTimeout, ReleaseWorkerSession
  <2>3. s \in zeroed' <=> s \in retired' /\ Holders(s)' = {}
    BY <1>0, <1>3, <2>1, <2>2, ReleaseHolders
  <2>4. ASSUME NEW t \in Sessions \ {s}
        PROVE  t \in zeroed' <=> t \in retired' /\ Holders(t)' = {}
    <3>1. Holders(t)' = Holders(t)
      BY <1>3, ReleaseHolders
    <3>2. t \in zeroed' <=> t \in zeroed
      BY <2>2
    <3> QED BY <1>0, <2>2, <3>1, <3>2
  <2>5. \A t \in Sessions : t \in zeroed' <=> t \in retired' /\ Holders(t)' = {}
    <3> TAKE t \in Sessions
    <3>1. CASE t = s
      BY <3>1, <2>3
    <3>2. CASE t # s
      BY <3>2, <2>4
    <3> QED BY <3>1, <3>2
  <2> QED BY <1>0, <2>5
<1>4. ASSUME Restart PROVE CapabilityLifetime'
  BY <1>4 DEF Restart, CapabilityLifetime
<1>5. ASSUME MainFrame PROVE CapabilityLifetime'
  BY <1>5 DEF MainFrame, CapabilityLifetime, sessionVars, callVars
<1> QED
  BY <1>1, <1>2, <1>3, <1>4, <1>5, OutsideStep DEF Next, MainStep

\* A result file never turns into a missing answer, and only the action's own result
\* is reported as the action's success or failure.
LEMMA OutcomeOfResult ==
  ASSUME NEW r \in Results
  PROVE  /\ ResultOutcome(r) \in Outcomes \ {"none", "timeout"}
         /\ ResultOutcome(r) = "success" => r = "ok"
         /\ ResultOutcome(r) = "actionError" => r = "failed"
BY SMTT(30) DEF ResultOutcome, Results, Outcomes

\* Every step keeps commands, nonces, results and reports consistent with what ran.
LEMMA ExecutionStep == LifecycleInv /\ ExecutionInv /\ [Next]_vars => ExecutionInv'
<1> SUFFICES ASSUME LifecycleInv, ExecutionInv, [Next]_vars PROVE ExecutionInv'
  OBVIOUS
<1> USE SessionAssumption, TimeAssumption
    DEF LifecycleInv, TypeOK, SessionInv, EnsureInv, OneSessionInUse, ExecutionInv, CommandInv,
        NonceInv, ResultInv, ReportsAreTrue, TimeoutInv, sessionVars, ensureVars, callVars,
        queueVars, workerVars, historyVars
<1>1. ASSUME NEW c \in Calls, DispatchJoin(c) PROVE ExecutionInv'
  BY <1>1 DEF DispatchJoin
<1>2. ASSUME NEW c \in Calls, DispatchBegin(c) PROVE ExecutionInv'
  BY <1>2 DEF DispatchBegin, EnsureThrows, EnsureRejects, RetireWorkerSession, EnsureResolves,
              EnsureAwaits, SpawnWorker, WorkerSession, ReadyAfter, EventLoopFree, Waiting
<1>3. ASSUME EnsureReprobe PROVE ExecutionInv'
  BY <1>3 DEF EnsureReprobe, EnsureThrows, EnsureRejects, RetireWorkerSession, EnsureResolves,
              EnsureAwaits, SpawnWorker, ReadyAfter, EventLoopFree, Waiting
<1>4. ASSUME EnsurePoll PROVE ExecutionInv'
  BY <1>4 DEF EnsurePoll, EnsureThrows, EnsureRejects, RetireWorkerSession, EnsureResolves,
              ReadyAfter, EventLoopFree, Waiting
<1>5. ASSUME EnsureTimeout PROVE ExecutionInv'
  BY <1>5 DEF EnsureTimeout, EnsureThrows, EnsureRejects, RetireWorkerSession, EventLoopFree,
              Waiting
<1>6. ASSUME NEW c \in Calls, Resume(c) PROVE ExecutionInv'
  <2>1. callPc[c] = "resumed" /\ UNCHANGED <<resultFile, workerVars, historyVars>>
    BY <1>6 DEF Resume
  <2>2. CASE /\ callPc' = [callPc EXCEPT ![c] = "settled"]
             /\ \E what \in {"sessionFault", "queueUntrusted", "writeFailed"} :
                  outcome' = [outcome EXCEPT ![c] = what]
             /\ UNCHANGED <<callSession, cmdFile, cmdAge>>
    <3>1. CommandInv'
      BY <2>1, <2>2
    <3>2. NonceInv' /\ ResultInv'
      BY <2>1, <2>2
    <3>3. ReportsAreTrue' /\ TimeoutInv'
      BY <2>1, <2>2
    <3> QED BY <3>1, <3>2, <3>3
  <2>3. CASE /\ callPc' = [callPc EXCEPT ![c] = "polling"]
             /\ \E s \in Sessions : callSession' = [callSession EXCEPT ![c] = s]
             /\ cmdFile' = cmdFile \cup {c}
             /\ cmdAge' = [cmdAge EXCEPT ![c] = 0]
             /\ UNCHANGED outcome
    <3>1. CommandInv'
      BY <2>1, <2>3
    <3>2. NonceInv' /\ ResultInv'
      BY <2>1, <2>3
    <3>3. ReportsAreTrue' /\ TimeoutInv'
      BY <2>1, <2>3
    <3> QED BY <3>1, <3>2, <3>3
  <2> QED BY <1>6, <2>2, <2>3 DEF Resume, WorkerSession, DispatchSettles
<1>7. ASSUME NEW c \in Calls, PollResult(c) PROVE ExecutionInv'
  <2>1. PICK what \in Outcomes : outcome' = [outcome EXCEPT ![c] = what]
                                /\ what \notin {"none", "timeout"}
                                /\ (what = "success" => resultFile[c] = "ok")
                                /\ (what = "actionError" => resultFile[c] = "failed")
    <3>1. /\ ResultOutcome(resultFile[c]) \in Outcomes \ {"none", "timeout"}
          /\ ResultOutcome(resultFile[c]) = "success" => resultFile[c] = "ok"
          /\ ResultOutcome(resultFile[c]) = "actionError" => resultFile[c] = "failed"
      <4>1. resultFile[c] \in Results
        BY <1>7 DEF PollResult
      <4> QED BY <4>1, OutcomeOfResult
    <3> QED BY <1>7, <3>1 DEF PollResult, DispatchSettles, Outcomes
  <2>2. callPc' = [callPc EXCEPT ![c] = "settled"] /\ cmdFile' \subseteq cmdFile
    BY <1>7 DEF PollResult, DispatchSettles, AfterCommandDelete
  <2>3. \A d \in Calls : resultFile'[d] \in {resultFile[d], "none"}
    BY <1>7 DEF PollResult, AfterResultDelete
  <2>4. CommandInv'
    BY <1>7, <2>1, <2>2 DEF PollResult
  <2>5. NonceInv'
    BY <1>7 DEF PollResult
  <2>6. ResultInv'
    BY <1>7, <2>3 DEF PollResult
  <2>7. ReportsAreTrue' /\ TimeoutInv'
    BY <1>7, <2>1 DEF PollResult
  <2> QED BY <2>4, <2>5, <2>6, <2>7
<1>8. ASSUME NEW c \in Calls, PollTimeout(c) PROVE ExecutionInv'
  BY <1>8 DEF PollTimeout, DispatchSettles, ReleaseWorkerSession, AfterCommandDelete
<1>9. ASSUME Restart PROVE ExecutionInv'
  BY <1>9 DEF Restart
<1>10. ASSUME NEW s \in Sessions, WorkerBoot(s) PROVE ExecutionInv'
  BY <1>10 DEF WorkerBoot, UpdateHeartbeat
<1>11. ASSUME NEW s \in Sessions, WorkerLoop(s) PROVE ExecutionInv'
  BY <1>11 DEF WorkerLoop, UpdateHeartbeat
<1>12. ASSUME NEW s \in Sessions, WorkerIdleExit(s) PROVE ExecutionInv'
  BY <1>12 DEF WorkerIdleExit
<1>13. ASSUME NEW s \in Sessions, WorkerScanned(s) PROVE ExecutionInv'
  BY <1>13 DEF WorkerScanned
<1>14. ASSUME NEW s \in Sessions, WorkerCannotRead(s) PROVE ExecutionInv'
  <2>1. CommandInv'
    BY <1>14 DEF WorkerCannotRead
  <2>2. NonceInv'
    BY <1>14 DEF WorkerCannotRead
  <2>3. ReportsAreTrue' /\ TimeoutInv'
    BY <1>14 DEF WorkerCannotRead
  <2>4. ASSUME NEW t \in Sessions, workerPc'[t] \in {"start", "exec"}
        PROVE  /\ workerCmd'[t] \in acceptedNonces'[t]
               /\ workerPc'[t] = "start" => effect'[workerCmd'[t]] = "accepted"
               /\ workerPc'[t] = "exec" => effect'[workerCmd'[t]] = "running"
    <3>1. t # s /\ workerPc[t] = workerPc'[t]
      BY <1>14, <2>4 DEF WorkerCannotRead
    <3>2. CASE workerPc[t] = "start"
      BY <1>14, <3>1, <3>2 DEF WorkerCannotRead
    <3>3. CASE workerPc[t] = "exec"
      BY <1>14, <3>1, <3>3 DEF WorkerCannotRead
    <3> QED BY <2>4, <3>1, <3>2, <3>3
  <2>5. ASSUME NEW t \in Sessions, workerPc'[t] = "publish"
        PROVE  /\ workerResult'[t] \in Results
               /\ workerResult'[t] = "ok" => effect'[workerCmd'[t]] = "ok"
               /\ workerResult'[t] = "failed" => effect'[workerCmd'[t]] = "failed"
    <3>1. CASE t = s
      <4>1. workerResult'[s] = "unreadable"
        BY <1>14 DEF WorkerCannotRead
      <4> QED BY <3>1, <4>1 DEF Results
    <3>2. CASE t # s
      BY <1>14, <2>5, <3>2 DEF WorkerCannotRead
    <3> QED BY <3>1, <3>2
  <2>6. /\ \A c \in Calls : resultFile'[c] = "ok" => effect'[c] = "ok"
        /\ \A c \in Calls : resultFile'[c] = "failed" => effect'[c] = "failed"
    BY <1>14 DEF WorkerCannotRead
  <2> QED BY <2>1, <2>2, <2>3, <2>4, <2>5, <2>6
<1>15. ASSUME NEW s \in Sessions, WorkerRejects(s) PROVE ExecutionInv'
  <2>1. CommandInv'
    BY <1>15 DEF WorkerRejects
  <2>2. NonceInv'
    BY <1>15 DEF WorkerRejects
  <2>3. ReportsAreTrue' /\ TimeoutInv'
    BY <1>15 DEF WorkerRejects
  <2>4. ASSUME NEW t \in Sessions, workerPc'[t] \in {"start", "exec"}
        PROVE  /\ workerCmd'[t] \in acceptedNonces'[t]
               /\ workerPc'[t] = "start" => effect'[workerCmd'[t]] = "accepted"
               /\ workerPc'[t] = "exec" => effect'[workerCmd'[t]] = "running"
    <3>1. t # s /\ workerPc[t] = workerPc'[t]
      BY <1>15, <2>4 DEF WorkerRejects
    <3>2. CASE workerPc[t] = "start"
      BY <1>15, <3>1, <3>2 DEF WorkerRejects
    <3>3. CASE workerPc[t] = "exec"
      BY <1>15, <3>1, <3>3 DEF WorkerRejects
    <3> QED BY <2>4, <3>1, <3>2, <3>3
  <2>5. ASSUME NEW t \in Sessions, workerPc'[t] = "publish"
        PROVE  /\ workerResult'[t] \in Results
               /\ workerResult'[t] = "ok" => effect'[workerCmd'[t]] = "ok"
               /\ workerResult'[t] = "failed" => effect'[workerCmd'[t]] = "failed"
    <3>1. CASE t = s
      <4>1. workerResult'[s] = "rejected"
        BY <1>15 DEF WorkerRejects
      <4> QED BY <3>1, <4>1 DEF Results
    <3>2. CASE t # s
      BY <1>15, <2>5, <3>2 DEF WorkerRejects
    <3> QED BY <3>1, <3>2
  <2>6. /\ \A c \in Calls : resultFile'[c] = "ok" => effect'[c] = "ok"
        /\ \A c \in Calls : resultFile'[c] = "failed" => effect'[c] = "failed"
    BY <1>15 DEF WorkerRejects
  <2> QED BY <2>1, <2>2, <2>3, <2>4, <2>5, <2>6
<1>16. ASSUME NEW s \in Sessions, WorkerReads(s) PROVE ExecutionInv'
  BY <1>16 DEF WorkerReads
<1>27. ASSUME NEW s \in Sessions, WorkerAccepts(s) PROVE ExecutionInv'
  BY <1>27 DEF WorkerAccepts, EnvelopeAccepted
<1>28. ASSUME NEW s \in Sessions, WorkerStarts(s) PROVE ExecutionInv'
  BY <1>28 DEF WorkerStarts
<1>29. ASSUME NEW s \in Sessions, WorkerCannotStart(s) PROVE ExecutionInv'
  <2>1. CommandInv'
    BY <1>29 DEF WorkerCannotStart
  <2>2. NonceInv'
    BY <1>29 DEF WorkerCannotStart
  <2>3. ReportsAreTrue' /\ TimeoutInv'
    BY <1>29 DEF WorkerCannotStart
  <2>4. ASSUME NEW t \in Sessions, workerPc'[t] \in {"start", "exec"}
        PROVE  /\ workerCmd'[t] \in acceptedNonces'[t]
               /\ workerPc'[t] = "start" => effect'[workerCmd'[t]] = "accepted"
               /\ workerPc'[t] = "exec" => effect'[workerCmd'[t]] = "running"
    <3>1. t # s /\ workerPc[t] = workerPc'[t]
      BY <1>29, <2>4 DEF WorkerCannotStart
    <3>2. CASE workerPc[t] = "start"
      BY <1>29, <3>1, <3>2 DEF WorkerCannotStart
    <3>3. CASE workerPc[t] = "exec"
      BY <1>29, <3>1, <3>3 DEF WorkerCannotStart
    <3> QED BY <2>4, <3>1, <3>2, <3>3
  <2>5. ASSUME NEW t \in Sessions, workerPc'[t] = "publish"
        PROVE  /\ workerResult'[t] \in Results
               /\ workerResult'[t] = "ok" => effect'[workerCmd'[t]] = "ok"
               /\ workerResult'[t] = "failed" => effect'[workerCmd'[t]] = "failed"
    <3>1. CASE t = s
      <4>1. workerResult'[s] = "failed" /\ effect'[workerCmd'[s]] = "failed"
        BY <1>29 DEF WorkerCannotStart
      <4> QED BY <3>1, <4>1 DEF Results
    <3>2. CASE t # s
      BY <1>29, <2>5, <3>2 DEF WorkerCannotStart
    <3> QED BY <3>1, <3>2
  <2>6. /\ \A c \in Calls : resultFile'[c] = "ok" => effect'[c] = "ok"
        /\ \A c \in Calls : resultFile'[c] = "failed" => effect'[c] = "failed"
    BY <1>29 DEF WorkerCannotStart
  <2> QED BY <2>1, <2>2, <2>3, <2>4, <2>5, <2>6
<1>17. ASSUME NEW s \in Sessions, WorkerBusyHeartbeat(s) PROVE ExecutionInv'
  BY <1>17 DEF WorkerBusyHeartbeat, UpdateHeartbeat
<1>18. ASSUME NEW s \in Sessions, WorkerActionEnds(s) PROVE ExecutionInv'
  <2>1. CommandInv'
    BY <1>18 DEF WorkerActionEnds
  <2>2. NonceInv'
    BY <1>18 DEF WorkerActionEnds
  <2>3. ReportsAreTrue' /\ TimeoutInv'
    BY <1>18 DEF WorkerActionEnds
  <2>4. ASSUME NEW t \in Sessions, workerPc'[t] \in {"start", "exec"}
        PROVE  /\ workerCmd'[t] \in acceptedNonces'[t]
               /\ workerPc'[t] = "start" => effect'[workerCmd'[t]] = "accepted"
               /\ workerPc'[t] = "exec" => effect'[workerCmd'[t]] = "running"
    <3>1. t # s /\ workerPc[t] = workerPc'[t]
      BY <1>18, <2>4 DEF WorkerActionEnds
    <3>2. CASE workerPc[t] = "start"
      BY <1>18, <3>1, <3>2 DEF WorkerActionEnds
    <3>3. CASE workerPc[t] = "exec"
      BY <1>18, <3>1, <3>3 DEF WorkerActionEnds
    <3> QED BY <2>4, <3>1, <3>2, <3>3
  <2>5. ASSUME NEW t \in Sessions, workerPc'[t] = "publish"
        PROVE  /\ workerResult'[t] \in Results
               /\ workerResult'[t] = "ok" => effect'[workerCmd'[t]] = "ok"
               /\ workerResult'[t] = "failed" => effect'[workerCmd'[t]] = "failed"
    <3>1. CASE t = s
      <4>1. workerResult'[s] \in {"ok", "failed"} /\ effect'[workerCmd'[s]] = workerResult'[s]
        BY <1>18 DEF WorkerActionEnds
      <4> QED BY <3>1, <4>1 DEF Results
    <3>2. CASE t # s
      BY <1>18, <2>5, <3>2 DEF WorkerActionEnds
    <3> QED BY <3>1, <3>2
  <2>6. /\ \A c \in Calls : resultFile'[c] = "ok" => effect'[c] = "ok"
        /\ \A c \in Calls : resultFile'[c] = "failed" => effect'[c] = "failed"
    BY <1>18 DEF WorkerActionEnds
  <2> QED BY <2>1, <2>2, <2>3, <2>4, <2>5, <2>6
<1>19. ASSUME NEW s \in Sessions, WorkerPublishes(s) PROVE ExecutionInv'
  BY <1>19 DEF WorkerPublishes, AfterResultWrite
<1>20. ASSUME NEW s \in Sessions, WorkerDeletes(s) PROVE ExecutionInv'
  BY <1>20 DEF WorkerDeletes, AfterCommandDelete, CountsAsActivity
<1>21. ASSUME NEW s \in Sessions, NEW c \in Calls, WorkerTake(s, c) PROVE ExecutionInv'
  BY <1>21 DEF WorkerTake, Commands
<1>22. ASSUME NEW s \in Sessions, UacAccept(s) PROVE ExecutionInv'
  BY <1>22 DEF UacAccept
<1>23. ASSUME NEW s \in Sessions, UacDecline(s) PROVE ExecutionInv'
  BY <1>23 DEF UacDecline
<1>24. ASSUME NEW s \in Sessions, WorkerCrash(s) PROVE ExecutionInv'
  BY <1>24 DEF WorkerCrash
<1>25. ASSUME Tick PROVE ExecutionInv'
  BY <1>25 DEF Tick, Bump, CmdAgeCap, Max2
<1>26. CASE UNCHANGED vars
  BY <1>26 DEF vars
<1> QED
  BY <1>1, <1>2, <1>3, <1>4, <1>5, <1>6, <1>7, <1>8, <1>9, <1>10, <1>11, <1>12, <1>13, <1>14,
     <1>15, <1>16, <1>17, <1>18, <1>19, <1>20, <1>21, <1>22, <1>23, <1>24, <1>25, <1>26, <1>27, <1>28, <1>29 DEF
     Next, MainStep, WorkerStep

\* No step runs into one of the internal checks on a session.
LEMMA FaultStep == LifecycleInv /\ ExecutionInv /\ NoSessionFault /\ [Next]_vars => NoSessionFault'
<1> SUFFICES ASSUME LifecycleInv, ExecutionInv, NoSessionFault, [Next]_vars PROVE NoSessionFault'
  OBVIOUS
<1> USE SessionAssumption
    DEF LifecycleInv, TypeOK, SessionInv, EnsureInv, OneSessionInUse, NoSessionFault,
        sessionVars, callVars
<1>1. ASSUME NEW c \in Calls, DispatchJoin(c) PROVE NoSessionFault'
  BY <1>1 DEF DispatchJoin
<1>2. ASSUME NEW c \in Calls, DispatchBegin(c) PROVE NoSessionFault'
  BY <1>2 DEF DispatchBegin, EnsureThrows, EnsureRejects, EnsureResolves, EnsureAwaits,
              SpawnWorker, WorkerSession, ReadyAfter
<1>3. ASSUME EnsureReprobe PROVE NoSessionFault'
  <2>1. ensureSession \in created
    BY <1>3 DEF EnsureReprobe
  <2>2. \A n \in Sessions \ created : n \notin ReadyAfter(ensureSession, "notReady")
    BY <2>1 DEF ReadyAfter
  <2>3. \/ outcome' = outcome
        \/ outcome' = [c \in Calls |-> IF c \in Waiting THEN "ensureFailed" ELSE outcome[c]]
    BY <1>3, <2>2 DEF EnsureReprobe, EnsureThrows, EnsureRejects, EnsureResolves, EnsureAwaits,
                      SpawnWorker
  <2> QED BY <2>3
<1>4. ASSUME EnsurePoll PROVE NoSessionFault'
  BY <1>4 DEF EnsurePoll, EnsureThrows, EnsureRejects, EnsureResolves
<1>5. ASSUME EnsureTimeout PROVE NoSessionFault'
  BY <1>5 DEF EnsureTimeout, EnsureThrows, EnsureRejects
<1>6. ASSUME NEW c \in Calls, Resume(c) PROVE NoSessionFault'
  <2>1. activeSession \in queueReady /\ activeSession \notin retired /\ activeSession # NoSession
    BY <1>6 DEF Resume
  <2> QED BY <1>6, <2>1 DEF Resume, WorkerSession, DispatchSettles
<1>7. ASSUME NEW c \in Calls, PollResult(c) PROVE NoSessionFault'
  <2>1. resultFile[c] \in Results
    BY <1>7 DEF PollResult
  <2>2. ResultOutcome(resultFile[c]) # "sessionFault"
    BY <2>1 DEF ResultOutcome, Results
  <2> QED BY <1>7, <2>2 DEF PollResult, DispatchSettles
<1>8. ASSUME NEW c \in Calls, PollTimeout(c) PROVE NoSessionFault'
  BY <1>8 DEF PollTimeout, DispatchSettles
<1>9. ASSUME Restart PROVE NoSessionFault'
  BY <1>9 DEF Restart
<1>10. ASSUME MainFrame PROVE NoSessionFault'
  BY <1>10 DEF MainFrame
<1> QED
  BY <1>1, <1>2, <1>3, <1>4, <1>5, <1>6, <1>7, <1>8, <1>9, <1>10, OutsideStep DEF Next, MainStep

\* No step leaves a UAC prompt behind for a session that is still in use.
LEMMA PromptStep == LifecycleInv /\ PromptIsAwaited /\ [Next]_vars => PromptIsAwaited'
<1> SUFFICES ASSUME LifecycleInv, PromptIsAwaited, [Next]_vars PROVE PromptIsAwaited'
  OBVIOUS
<1> USE SessionAssumption
    DEF LifecycleInv, TypeOK, SessionInv, EnsureInv, OneSessionInUse, PromptIsAwaited,
        sessionVars, ensureVars, callVars, queueVars, workerVars, historyVars
<1>1. ASSUME NEW c \in Calls, DispatchJoin(c) PROVE PromptIsAwaited'
  BY <1>1 DEF DispatchJoin
<1>2. ASSUME NEW c \in Calls, DispatchBegin(c) PROVE PromptIsAwaited'
  BY <1>2 DEF DispatchBegin, EnsureThrows, EnsureRejects, RetireWorkerSession, EnsureResolves,
              EnsureAwaits, SpawnWorker, WorkerSession, ReadyAfter, Probe, IsWorkerSessionAlive
<1>3. ASSUME EnsureReprobe PROVE PromptIsAwaited'
  BY <1>3 DEF EnsureReprobe, EnsureThrows, EnsureRejects, RetireWorkerSession, EnsureResolves,
              EnsureAwaits, SpawnWorker, ReadyAfter, Probe, IsWorkerSessionAlive
<1>4. ASSUME EnsurePoll PROVE PromptIsAwaited'
  BY <1>4 DEF EnsurePoll, EnsureThrows, EnsureRejects, RetireWorkerSession, EnsureResolves,
              ReadyAfter, Probe, IsWorkerSessionAlive
<1>5. ASSUME EnsureTimeout PROVE PromptIsAwaited'
  BY <1>5 DEF EnsureTimeout, EnsureThrows, EnsureRejects, RetireWorkerSession
<1>6. ASSUME NEW c \in Calls, Resume(c) PROVE PromptIsAwaited'
  BY <1>6 DEF Resume, WorkerSession, DispatchSettles, AcquireWorkerSession
<1>7. ASSUME NEW c \in Calls, PollResult(c) PROVE PromptIsAwaited'
  BY <1>7 DEF PollResult, DispatchSettles, ReleaseWorkerSession, AfterResultDelete,
              AfterCommandDelete, ResultOutcome
<1>8. ASSUME NEW c \in Calls, PollTimeout(c) PROVE PromptIsAwaited'
  BY <1>8 DEF PollTimeout, DispatchSettles, ReleaseWorkerSession, AfterCommandDelete
<1>9. ASSUME Restart PROVE PromptIsAwaited'
  BY <1>9 DEF Restart
<1>10. ASSUME MainFrame, launcher' = launcher PROVE PromptIsAwaited'
  BY <1>10 DEF MainFrame
<1>11. ASSUME NEW s \in Sessions, UacAccept(s) \/ UacDecline(s) PROVE PromptIsAwaited'
  BY <1>11 DEF UacAccept, UacDecline
<1> QED
  BY <1>1, <1>2, <1>3, <1>4, <1>5, <1>6, <1>7, <1>8, <1>9, <1>10, <1>11, OutsideStep
     DEF Next, MainStep

-----------------------------------------------------------------------------
(* The theorems.                                                           *)

\* Nothing exists initially.
LEMMA InitLifecycle == Init => LifecycleInv
<1> SUFFICES ASSUME Init PROVE LifecycleInv
  OBVIOUS
<1>1. TypeOK
  BY TimeAssumption DEF Init, TypeOK, CallPcs, Outcomes, WorkerPcs, Effects, CmdAgeCap, Max2
<1>2. SessionInv /\ EnsureInv /\ CapabilityLifetime
  BY SessionAssumption DEF Init, SessionInv, EnsureInv, CapabilityLifetime, OneSessionInUse
<1>3. \A s \in Sessions : Holders(s) = {}
  BY DEF Init, Holders
<1>4. HoldInv
  BY <1>3, FS_EmptySet DEF Init, HoldInv
<1> QED BY <1>1, <1>2, <1>4 DEF LifecycleInv

\* Nothing has run initially.
LEMMA InitExecution == Init => ExecutionInv
BY DEF Init, ExecutionInv, CommandInv, NonceInv, ResultInv, ReportsAreTrue, TimeoutInv

\* The inductive invariant of the whole system.
THEOREM Invariance == Spec => [](LifecycleInv /\ ExecutionInv)
<1>1. Init => LifecycleInv /\ ExecutionInv
  BY InitLifecycle, InitExecution
<1>2. LifecycleInv /\ ExecutionInv /\ [Next]_vars => (LifecycleInv /\ ExecutionInv)'
  BY TypeStep, SessionStep, EnsureStep, HoldStep, CapabilityStep, ExecutionStep
     DEF LifecycleInv, ExecutionInv
<1> QED BY <1>1, <1>2, PTL DEF Spec

\* The variables of the main process, the queue and the workers keep their types.
THEOREM TypeCorrect == Spec => []TypeOK
BY Invariance, PTL DEF LifecycleInv

\* retireWorkerSession and releaseWorkerSession zero a capability exactly when the
\* session is retired and no dispatch is still waiting for a result it authenticates.
THEOREM CapabilityLives == Spec => []CapabilityLifetime
BY Invariance, PTL DEF LifecycleInv

\* createWorkerSession, rotateWorkerSession and retireWorkerSession never leave two
\* sessions in use, nor one that is in use but forgotten.
THEOREM SingleSession == Spec => []OneSessionInUse
<1>1. LifecycleInv => OneSessionInUse
  BY DEF LifecycleInv, SessionInv
<1> QED BY <1>1, Invariance, PTL

\* However often a command file is read again, its action is started at most once.
THEOREM NeverRunsTwice == Spec => []AtMostOnce
<1>1. ExecutionInv => AtMostOnce
  BY DEF ExecutionInv, NonceInv, AtMostOnce
<1> QED BY <1>1, Invariance, PTL

\* What dispatchCommand reports of an action is what the action did.
THEOREM Truthful == Spec => []ReportsAreTrue
BY Invariance, PTL DEF ExecutionInv

\* The E_WORKER_SESSION and E_QUEUE_ACL checks of dispatchCommand and spawnWorker
\* never fail in any interleaving.
THEOREM SessionChecksHold == Spec => []NoSessionFault
<1>1. Init => NoSessionFault
  BY DEF Init, NoSessionFault
<1> QED BY <1>1, FaultStep, Invariance, PTL DEF Spec

\* An open UAC prompt belongs to a retired session or to the one being waited for.
THEOREM PromptsAreAwaited == Spec => []PromptIsAwaited
<1>1. Init => PromptIsAwaited
  BY DEF Init, PromptIsAwaited
<1>2. LifecycleInv /\ ExecutionInv => LifecycleInv
  OBVIOUS
<1> QED BY <1>1, PromptStep, Invariance, PTL DEF Spec

\* What an action came to changes only in the hands of a worker that accepts its envelope,
\* or that accepted it before.
LEMMA EffectSteps ==
  ASSUME LifecycleInv, ExecutionInv, [Next]_vars, NEW c \in Calls, effect'[c] # effect[c]
  PROVE  \/ \E s \in Sessions : WorkerAccepts(s) /\ workerCmd[s] = c
         \/ effect[c] # "none"
<1>1. PICK s \in Sessions : \/ WorkerAccepts(s) \/ WorkerStarts(s)
                            \/ WorkerCannotStart(s) \/ WorkerActionEnds(s)
  BY DEF Next, MainStep, WorkerStep, DispatchJoin, DispatchBegin, EnsureReprobe, EnsurePoll,
         EnsureTimeout, Resume, PollResult, PollTimeout, Restart, UacAccept, UacDecline,
         WorkerBoot, WorkerLoop, WorkerIdleExit, WorkerTake, WorkerScanned, WorkerCannotRead,
         WorkerReads, WorkerRejects, WorkerBusyHeartbeat, WorkerPublishes, WorkerDeletes,
         WorkerCrash, Tick, historyVars, vars
<1>2. workerCmd[s] = c
  BY <1>1 DEF WorkerAccepts, WorkerStarts, WorkerCannotStart, WorkerActionEnds, LifecycleInv,
              TypeOK
<1>3. CASE WorkerAccepts(s)
  BY <1>2, <1>3
<1>4. CASE WorkerStarts(s) \/ WorkerCannotStart(s)
  <2>1. workerPc[s] = "start"
    BY <1>4 DEF WorkerStarts, WorkerCannotStart
  <2> QED BY <1>2, <2>1 DEF ExecutionInv, ResultInv
<1>5. CASE WorkerActionEnds(s)
  <2>1. workerPc[s] = "exec"
    BY <1>5 DEF WorkerActionEnds
  <2> QED BY <1>2, <2>1 DEF ExecutionInv, ResultInv
<1> QED BY <1>1, <1>3, <1>4, <1>5

\* The envelope of a dispatch that timed out has expired, so no worker accepts it.
LEMMA TimedOutStep ==
  ASSUME EnvelopeLifetime <= CmdTimeout, LifecycleInv, ExecutionInv, [Next]_vars,
         NEW c \in Calls, outcome[c] = "timeout", effect[c] = "none"
  PROVE  effect'[c] = "none"
<1> SUFFICES ASSUME effect'[c] # effect[c] PROVE FALSE
  OBVIOUS
<1>1. PICK s \in Sessions : WorkerAccepts(s) /\ workerCmd[s] = c
  BY EffectSteps
<1>2. cmdAge[c] < EnvelopeLifetime /\ cmdAge[c] \in Nat
  BY <1>1 DEF WorkerAccepts, EnvelopeAccepted, LifecycleInv, TypeOK
<1> QED BY <1>2, TimeAssumption DEF ExecutionInv, TimeoutInv

\* If commands expire no later than their dispatch times out, a command that was not accepted
\* when its dispatch reported E_CMD_TIMEOUT is never accepted or started afterwards.
THEOREM TimeoutIsFinal ==
  ASSUME EnvelopeLifetime <= CmdTimeout
  PROVE  Spec => TimedOutIsNotAccepted
<1>1. LifecycleInv /\ ExecutionInv /\ [Next]_vars =>
        [\A c \in Calls :
           outcome[c] = "timeout" /\ effect[c] = "none" => effect'[c] = "none"]_vars
  BY TimedOutStep
<1> QED BY <1>1, Invariance, PTL DEF Spec, TimedOutIsNotAccepted

-----------------------------------------------------------------------------
(* The refusals, and the promise of dispatchCommand, unless deletes fail too. *)

\* Where a command is in the hands of a worker, it is one of that worker's session.
LEMMA InHand ==
  ASSUME LifecycleInv, ExecutionInv, NEW s \in Sessions,
         workerPc[s] \in {"read", "check", "start", "exec", "publish", "delete"}
  PROVE  /\ workerCmd[s] \in Calls /\ callSession[workerCmd[s]] = s
         /\ callPc[workerCmd[s]] \in {"polling", "settled"}
         /\ effect[workerCmd[s]] # "none" <=> workerCmd[s] \in acceptedNonces[s]
<1>1. workerCmd[s] \in Calls /\ callSession[workerCmd[s]] = s
  BY DEF ExecutionInv, CommandInv
<1>2. callPc[workerCmd[s]] \in {"polling", "settled"}
  BY <1>1, SessionAssumption DEF LifecycleInv, TypeOK, CallPcs, ExecutionInv, CommandInv
<1>3. effect[workerCmd[s]] # "none" <=> workerCmd[s] \in acceptedNonces[s]
  BY <1>1, SMTT(30) DEF LifecycleInv, TypeOK, ExecutionInv, NonceInv
<1> QED BY <1>1, <1>2, <1>3

\* A command that was not signed yet was not accepted.
LEMMA Unsigned ==
  ASSUME LifecycleInv, ExecutionInv, NEW c \in Calls, callSession[c] = NoSession
  PROVE  effect[c] = "none" /\ executions[c] = 0 /\ c \notin cmdFile
BY SessionAssumption DEF ExecutionInv, CommandInv, NonceInv

LEMMA RefusalStep ==
  ASSUME ~({"resultWrite", "delete"} \subseteq Faults),
         LifecycleInv, ExecutionInv, RefusalInv, [Next]_vars
  PROVE  RefusalInv'
<1> USE SessionAssumption, TimeAssumption
    DEF LifecycleInv, TypeOK, RefusalInv, Expired, Unanswered, WorkerIsGone, ExecutionInv,
        CommandInv,
        sessionVars, ensureVars, callVars, queueVars, workerVars, historyVars
<1>1. ASSUME NEW c \in Calls, DispatchJoin(c) PROVE RefusalInv'
  BY <1>1 DEF DispatchJoin
<1>2. ASSUME NEW c \in Calls, DispatchBegin(c) PROVE RefusalInv'
  BY <1>2 DEF DispatchBegin, EnsureThrows, EnsureRejects, RetireWorkerSession, EnsureResolves,
              EnsureAwaits, SpawnWorker, WorkerSession, ReadyAfter, EventLoopFree, Waiting
<1>3. ASSUME EnsureReprobe PROVE RefusalInv'
  BY <1>3 DEF EnsureReprobe, EnsureThrows, EnsureRejects, RetireWorkerSession, EnsureResolves,
              EnsureAwaits, SpawnWorker, ReadyAfter, EventLoopFree, Waiting
<1>4. ASSUME EnsurePoll PROVE RefusalInv'
  BY <1>4 DEF EnsurePoll, EnsureThrows, EnsureRejects, RetireWorkerSession, EnsureResolves,
              ReadyAfter, EventLoopFree, Waiting
<1>5. ASSUME EnsureTimeout PROVE RefusalInv'
  BY <1>5 DEF EnsureTimeout, EnsureThrows, EnsureRejects, RetireWorkerSession, EventLoopFree,
              Waiting
<1>6. ASSUME NEW c \in Calls, Resume(c) PROVE RefusalInv'
  <2>1. /\ callPc[c] = "resumed" /\ callPc'[c] \in {"polling", "settled"}
        /\ \A d \in Calls : d # c => /\ callPc'[d] = callPc[d] /\ outcome'[d] = outcome[d]
                                     /\ callSession'[d] = callSession[d]
                                     /\ cmdAge'[d] = cmdAge[d]
        /\ outcome'[c] # "rejected"
        /\ callSession'[c] = NoSession => callPc'[c] = "settled"
        /\ cmdFile' \in {cmdFile, cmdFile \cup {c}}
        /\ UNCHANGED <<resultFile, workerVars, historyVars>>
    BY <1>6 DEF Resume, DispatchSettles, WorkerSession
  <2>2. callSession[c] = NoSession /\ effect[c] = "none" /\ resultFile[c] = "none"
    BY <2>1, Unsigned
  <2>3. \A s \in Sessions : workerPc[s] \in {"check", "publish"} => workerCmd[s] # c
    BY <2>2
  <2> QED BY <2>1, <2>2, <2>3
<1>7. ASSUME NEW c \in Calls, PollResult(c) PROVE RefusalInv'
  <2>1. \E what : /\ outcome' = [outcome EXCEPT ![c] = what]
                  /\ what = "rejected" => resultFile[c] = "rejected"
    <3>1. resultFile[c] \in Results
      BY <1>7 DEF PollResult
    <3>2. ResultOutcome(resultFile[c]) = "rejected" => resultFile[c] = "rejected"
      BY <3>1 DEF Results, ResultOutcome
    <3> QED BY <1>7, <3>2 DEF PollResult, DispatchSettles
  <2>2. /\ callPc' = [callPc EXCEPT ![c] = "settled"] /\ cmdFile' \subseteq cmdFile
        /\ \A d \in Calls : d # c => resultFile'[d] = resultFile[d]
        /\ resultFile'[c] \in {resultFile[c], "none"}
        /\ callPc[c] = "polling"
        /\ UNCHANGED <<callSession, cmdAge, workerVars, historyVars>>
    BY <1>7 DEF PollResult, DispatchSettles, AfterCommandDelete, AfterResultDelete
  <2> QED BY <2>1, <2>2
<1>8. ASSUME NEW c \in Calls, PollTimeout(c) PROVE RefusalInv'
  BY <1>8 DEF PollTimeout, DispatchSettles, ReleaseWorkerSession, AfterCommandDelete
<1>9. ASSUME Restart PROVE RefusalInv'
  BY <1>9 DEF Restart
<1>10. ASSUME NEW s \in Sessions, WorkerBoot(s) PROVE RefusalInv'
  BY <1>10 DEF WorkerBoot, UpdateHeartbeat
<1>11. ASSUME NEW s \in Sessions, WorkerLoop(s) PROVE RefusalInv'
  BY <1>11 DEF WorkerLoop, UpdateHeartbeat
<1>12. ASSUME NEW s \in Sessions, WorkerIdleExit(s) PROVE RefusalInv'
  BY <1>12 DEF WorkerIdleExit
<1>13. ASSUME NEW s \in Sessions, WorkerScanned(s) PROVE RefusalInv'
  BY <1>13 DEF WorkerScanned
<1>14. ASSUME NEW s \in Sessions, WorkerCannotRead(s) PROVE RefusalInv'
  BY <1>14 DEF WorkerCannotRead
<1>15. ASSUME NEW s \in Sessions, WorkerRejects(s) PROVE RefusalInv'
  BY <1>15, Unsigned, InHand DEF WorkerRejects, EnvelopeAccepted
<1>16. ASSUME NEW s \in Sessions, WorkerReads(s) PROVE RefusalInv'
  BY <1>16, Unsigned, InHand DEF WorkerReads
<1>27. ASSUME NEW s \in Sessions, WorkerAccepts(s) PROVE RefusalInv'
  BY <1>27, Unsigned, InHand DEF WorkerAccepts, EnvelopeAccepted
<1>28. ASSUME NEW s \in Sessions, WorkerStarts(s) PROVE RefusalInv'
  <2> DEFINE c == workerCmd[s]
  <2>1. /\ c \in Calls /\ callSession[c] = s /\ effect[c] # "none" /\ effect'[c] # "none"
        /\ \A d \in Calls : d # c => effect'[d] = effect[d]
    BY <1>28, InHand DEF WorkerStarts, ResultInv
  <2>2. \A t \in Sessions : workerPc'[t] = "check" => workerPc[t] = "check"
    BY <1>28 DEF WorkerStarts
  <2>3. \A t \in Sessions : workerPc'[t] = "publish" /\ workerResult'[t] = "rejected" =>
          workerPc[t] = "publish" /\ workerResult[t] = "rejected"
    BY <1>28 DEF WorkerStarts
  <2>4. \A d \in Calls : Unanswered(d) => Unanswered(d)'
    BY <1>28 DEF WorkerStarts
  <2>5. UNCHANGED <<callVars, cmdFile, cmdAge, resultFile, workerCmd>>
        /\ \A t \in Sessions : workerPc[t] = "exited" => workerPc'[t] = "exited"
    BY <1>28 DEF WorkerStarts
  <2> HIDE DEF c
  <2> QED BY <2>1, <2>2, <2>3, <2>4, <2>5
<1>29. ASSUME NEW s \in Sessions, WorkerCannotStart(s) PROVE RefusalInv'
  <2> DEFINE c == workerCmd[s]
  <2>1. /\ c \in Calls /\ callSession[c] = s /\ effect[c] # "none" /\ effect'[c] # "none"
        /\ \A d \in Calls : d # c => effect'[d] = effect[d]
    BY <1>29, InHand DEF WorkerCannotStart, ResultInv
  <2>2. \A t \in Sessions : workerPc'[t] = "check" => workerPc[t] = "check"
    BY <1>29 DEF WorkerCannotStart
  <2>3. \A t \in Sessions : workerPc'[t] = "publish" /\ workerResult'[t] = "rejected" =>
          workerPc[t] = "publish" /\ workerResult[t] = "rejected"
    BY <1>29 DEF WorkerCannotStart
  <2>4. \A d \in Calls : Unanswered(d) => Unanswered(d)'
    BY <1>29 DEF WorkerCannotStart
  <2>5. UNCHANGED <<callVars, cmdFile, cmdAge, resultFile, workerCmd>>
        /\ \A t \in Sessions : workerPc[t] = "exited" => workerPc'[t] = "exited"
    BY <1>29 DEF WorkerCannotStart
  <2> HIDE DEF c
  <2> QED BY <2>1, <2>2, <2>3, <2>4, <2>5
<1>17. ASSUME NEW s \in Sessions, WorkerBusyHeartbeat(s) PROVE RefusalInv'
  BY <1>17 DEF WorkerBusyHeartbeat, UpdateHeartbeat
<1>18. ASSUME NEW s \in Sessions, WorkerActionEnds(s) PROVE RefusalInv'
  <2> DEFINE c == workerCmd[s]
  <2>1. /\ c \in Calls /\ callSession[c] = s /\ effect[c] # "none" /\ effect'[c] # "none"
        /\ \A d \in Calls : d # c => effect'[d] = effect[d]
    BY <1>18, InHand DEF WorkerActionEnds, ResultInv
  <2>2. \A t \in Sessions : workerPc'[t] = "check" => workerPc[t] = "check"
    BY <1>18 DEF WorkerActionEnds
  <2>3. \A t \in Sessions : workerPc'[t] = "publish" /\ workerResult'[t] = "rejected" =>
          workerPc[t] = "publish" /\ workerResult[t] = "rejected"
    BY <1>18 DEF WorkerActionEnds
  <2>4. \A d \in Calls : Unanswered(d) => Unanswered(d)'
    BY <1>18 DEF WorkerActionEnds
  <2>5. UNCHANGED <<callVars, cmdFile, cmdAge, resultFile, workerCmd>>
        /\ \A t \in Sessions : workerPc[t] = "exited" => workerPc'[t] = "exited"
    BY <1>18 DEF WorkerActionEnds
  <2> HIDE DEF c
  <2> QED BY <2>1, <2>2, <2>3, <2>4, <2>5
<1>19. ASSUME NEW s \in Sessions, WorkerPublishes(s) PROVE RefusalInv'
  BY <1>19, Unsigned, InHand DEF WorkerPublishes, AfterResultWrite
<1>20. ASSUME NEW s \in Sessions, WorkerDeletes(s) PROVE RefusalInv'
  BY <1>20, Unsigned, InHand DEF WorkerDeletes, AfterCommandDelete
<1>21. ASSUME NEW s \in Sessions, NEW c \in Calls, WorkerTake(s, c) PROVE RefusalInv'
  BY <1>21 DEF WorkerTake, Commands
<1>22. ASSUME NEW s \in Sessions, UacAccept(s) PROVE RefusalInv'
  BY <1>22 DEF UacAccept, SessionInv
<1>23. ASSUME NEW s \in Sessions, UacDecline(s) PROVE RefusalInv'
  BY <1>23 DEF UacDecline
<1>24. ASSUME NEW s \in Sessions, WorkerCrash(s) PROVE RefusalInv'
  BY <1>24 DEF WorkerCrash
<1>25. ASSUME Tick PROVE RefusalInv'
  BY <1>25 DEF Tick, Bump, CmdAgeCap, Max2
<1>26. CASE UNCHANGED vars
  BY <1>26 DEF vars
<1> QED
  BY <1>1, <1>2, <1>3, <1>4, <1>5, <1>6, <1>7, <1>8, <1>9, <1>10, <1>11, <1>12, <1>13, <1>14,
     <1>15, <1>16, <1>17, <1>18, <1>19, <1>20, <1>21, <1>22, <1>23, <1>24, <1>25, <1>26, <1>27, <1>28, <1>29 DEF
     Next, MainStep, WorkerStep

LEMMA WithdrawalStep ==
  ASSUME "delete" \notin Faults, LifecycleInv, ExecutionInv, RefusalInv, WithdrawalInv, [Next]_vars
  PROVE  WithdrawalInv'
<1> USE SessionAssumption
    DEF LifecycleInv, TypeOK, WithdrawalInv, ExecutionInv, CommandInv,
        sessionVars, ensureVars, callVars, queueVars, workerVars, historyVars
<1>1. ASSUME NEW c \in Calls, DispatchJoin(c) PROVE WithdrawalInv'
  BY <1>1 DEF DispatchJoin
<1>2. ASSUME NEW c \in Calls, DispatchBegin(c) PROVE WithdrawalInv'
  BY <1>2 DEF DispatchBegin, EnsureThrows, EnsureRejects, RetireWorkerSession, EnsureResolves,
              EnsureAwaits, SpawnWorker, WorkerSession, ReadyAfter, EventLoopFree, Waiting
<1>3. ASSUME EnsureReprobe PROVE WithdrawalInv'
  BY <1>3 DEF EnsureReprobe, EnsureThrows, EnsureRejects, RetireWorkerSession, EnsureResolves,
              EnsureAwaits, SpawnWorker, ReadyAfter, EventLoopFree, Waiting
<1>4. ASSUME EnsurePoll PROVE WithdrawalInv'
  BY <1>4 DEF EnsurePoll, EnsureThrows, EnsureRejects, RetireWorkerSession, EnsureResolves,
              ReadyAfter, EventLoopFree, Waiting
<1>5. ASSUME EnsureTimeout PROVE WithdrawalInv'
  BY <1>5 DEF EnsureTimeout, EnsureThrows, EnsureRejects, RetireWorkerSession, EventLoopFree,
              Waiting
<1>6. ASSUME NEW c \in Calls, Resume(c) PROVE WithdrawalInv'
  <2>1. /\ callPc[c] = "resumed" /\ callPc'[c] \in {"polling", "settled"}
        /\ \A d \in Calls : d # c => /\ callPc'[d] = callPc[d] /\ outcome'[d] = outcome[d]
                                     /\ callSession'[d] = callSession[d]
        /\ callPc'[c] = "settled" => cmdFile' = cmdFile
        /\ cmdFile' \in {cmdFile, cmdFile \cup {c}}
        /\ UNCHANGED <<resultFile, workerVars>>
    BY <1>6 DEF Resume, DispatchSettles
  <2>2. callSession[c] = NoSession /\ c \notin cmdFile /\ resultFile[c] = "none"
    BY <2>1, Unsigned DEF RefusalInv
  <2> QED BY <2>1, <2>2
<1>7. ASSUME NEW c \in Calls, PollResult(c) PROVE WithdrawalInv'
  <2>1. /\ callPc' = [callPc EXCEPT ![c] = "settled"]
        /\ \A d \in Calls : d # c => outcome'[d] = outcome[d]
        /\ \A d \in Calls : d # c => resultFile'[d] = resultFile[d]
        /\ resultFile[c] # "none" /\ cmdFile' \in {cmdFile, cmdFile \ {c}}
        /\ UNCHANGED <<callSession, workerVars>>
    BY <1>7 DEF PollResult, DispatchSettles, AfterCommandDelete, AfterResultDelete
  <2>2. c \notin cmdFile' \/ resultFile' = resultFile
    BY <1>7 DEF PollResult, AfterCommandDelete
  <2> QED BY <2>1, <2>2
<1>8. ASSUME NEW c \in Calls, PollTimeout(c) PROVE WithdrawalInv'
  BY <1>8 DEF PollTimeout, DispatchSettles, ReleaseWorkerSession, AfterCommandDelete
<1>9. ASSUME Restart PROVE WithdrawalInv'
  BY <1>9 DEF Restart
<1>10. ASSUME NEW s \in Sessions, WorkerBoot(s) PROVE WithdrawalInv'
  BY <1>10 DEF WorkerBoot, UpdateHeartbeat
<1>11. ASSUME NEW s \in Sessions, WorkerLoop(s) PROVE WithdrawalInv'
  BY <1>11 DEF WorkerLoop, UpdateHeartbeat
<1>12. ASSUME NEW s \in Sessions, WorkerIdleExit(s) PROVE WithdrawalInv'
  BY <1>12 DEF WorkerIdleExit
<1>13. ASSUME NEW s \in Sessions, WorkerScanned(s) PROVE WithdrawalInv'
  BY <1>13 DEF WorkerScanned
<1>14. ASSUME NEW s \in Sessions, WorkerCannotRead(s) PROVE WithdrawalInv'
  BY <1>14, InHand DEF WorkerCannotRead
<1>15. ASSUME NEW s \in Sessions, WorkerRejects(s) PROVE WithdrawalInv'
  BY <1>15, InHand DEF WorkerRejects
<1>16. ASSUME NEW s \in Sessions, WorkerReads(s) PROVE WithdrawalInv'
  BY <1>16, InHand DEF WorkerReads
<1>27. ASSUME NEW s \in Sessions, WorkerAccepts(s) PROVE WithdrawalInv'
  BY <1>27, InHand DEF WorkerAccepts
<1>28. ASSUME NEW s \in Sessions, WorkerStarts(s) PROVE WithdrawalInv'
  BY <1>28, InHand DEF WorkerStarts
<1>29. ASSUME NEW s \in Sessions, WorkerCannotStart(s) PROVE WithdrawalInv'
  BY <1>29, InHand DEF WorkerCannotStart
<1>17. ASSUME NEW s \in Sessions, WorkerBusyHeartbeat(s) PROVE WithdrawalInv'
  BY <1>17 DEF WorkerBusyHeartbeat, UpdateHeartbeat
<1>18. ASSUME NEW s \in Sessions, WorkerActionEnds(s) PROVE WithdrawalInv'
  BY <1>18, InHand DEF WorkerActionEnds
<1>19. ASSUME NEW s \in Sessions, WorkerPublishes(s) PROVE WithdrawalInv'
  BY <1>19, InHand DEF WorkerPublishes, AfterResultWrite
<1>20. ASSUME NEW s \in Sessions, WorkerDeletes(s) PROVE WithdrawalInv'
  BY <1>20, InHand DEF WorkerDeletes, AfterCommandDelete
<1>21. ASSUME NEW s \in Sessions, NEW c \in Calls, WorkerTake(s, c) PROVE WithdrawalInv'
  BY <1>21 DEF WorkerTake, Commands
<1>22. ASSUME NEW s \in Sessions, UacAccept(s) PROVE WithdrawalInv'
  BY <1>22 DEF UacAccept, SessionInv
<1>23. ASSUME NEW s \in Sessions, UacDecline(s) PROVE WithdrawalInv'
  BY <1>23 DEF UacDecline
<1>24. ASSUME NEW s \in Sessions, WorkerCrash(s) PROVE WithdrawalInv'
  BY <1>24 DEF WorkerCrash
<1>25. ASSUME Tick PROVE WithdrawalInv'
  BY <1>25 DEF Tick
<1>26. ASSUME UNCHANGED vars PROVE WithdrawalInv'
  BY <1>26, SMTT(30) DEF vars
<1> QED
  BY <1>1, <1>2, <1>3, <1>4, <1>5, <1>6, <1>7, <1>8, <1>9, <1>10, <1>11, <1>12, <1>13,
     <1>14, <1>15, <1>16, <1>17, <1>18, <1>19, <1>20, <1>21, <1>22, <1>23, <1>24, <1>25, <1>26, <1>27, <1>28, <1>29 DEF
     Next, MainStep, WorkerStep

Asked == {"ensuring", "resumed", "polling"}

\* A step of the main process for a call, and one of its action.
Told(c) ==
  /\ effect'[c] = effect[c]
  /\ \/ callPc[c] = "idle" /\ callPc'[c] \in {"idle"} \cup Asked
     \/ /\ callPc[c] = "idle" /\ callPc'[c] = "settled"
        /\ outcome'[c] \in {"ensureFailed", "sessionFault"}
     \/ callPc[c] \in Asked /\ callPc'[c] \in Asked
     \/ /\ callPc[c] \in Asked /\ callPc'[c] = "settled"
        /\ outcome'[c] = "success" => effect[c] = "ok"
        /\ outcome'[c] = "actionError" => effect[c] = "failed"
        /\ outcome'[c] = "rejected" => effect[c] = "none"
     \/ callPc[c] = "settled" /\ callPc'[c] = "settled" /\ outcome'[c] = outcome[c]

Acted(c) ==
  /\ callPc'[c] = callPc[c] /\ outcome'[c] = outcome[c]
  /\ \/ /\ effect[c] = "none" /\ effect'[c] = "accepted"
        /\ callPc[c] \in Asked \/ (callPc[c] = "settled" /\ outcome[c] = "lost")
     \/ /\ effect[c] = "accepted" /\ effect'[c] = "running"
        /\ \/ callPc[c] \in Asked
           \/ callPc[c] = "settled" /\ outcome[c] \notin {"success", "actionError", "rejected"}
     \/ effect[c] = "accepted" /\ effect'[c] = "failed"
     \/ effect[c] = "running" /\ effect'[c] \in {"ok", "failed"}

LEMMA PromiseSteps ==
  ASSUME "delete" \notin Faults, EnvelopeLifetime <= CmdTimeout,
         LifecycleInv, ExecutionInv, RefusalInv, WithdrawalInv, [Next]_vars
  PROVE  \A d \in Calls : Told(d) \/ Acted(d)
<1> USE SessionAssumption
    DEF LifecycleInv, TypeOK, CallPcs, ExecutionInv, CommandInv, Told, Acted, Asked,
        sessionVars, ensureVars, callVars, queueVars, workerVars, historyVars
<1> DEFINE Kept == \A d \in Calls : Told(d) \/ Acted(d)
<1>1. ASSUME NEW c \in Calls, DispatchJoin(c) PROVE Kept
  BY <1>1 DEF DispatchJoin
<1>2. ASSUME NEW c \in Calls, DispatchBegin(c) PROVE Kept
  BY <1>2 DEF DispatchBegin, EnsureThrows, EnsureRejects, RetireWorkerSession, EnsureResolves,
              EnsureAwaits, SpawnWorker, WorkerSession, ReadyAfter, EventLoopFree, Waiting
<1>3. ASSUME EnsureReprobe PROVE Kept
  BY <1>3 DEF EnsureReprobe, EnsureThrows, EnsureRejects, RetireWorkerSession, EnsureResolves,
              EnsureAwaits, SpawnWorker, ReadyAfter, EventLoopFree, Waiting
<1>4. ASSUME EnsurePoll PROVE Kept
  BY <1>4 DEF EnsurePoll, EnsureThrows, EnsureRejects, RetireWorkerSession, EnsureResolves,
              ReadyAfter, EventLoopFree, Waiting
<1>5. ASSUME EnsureTimeout PROVE Kept
  BY <1>5 DEF EnsureTimeout, EnsureThrows, EnsureRejects, RetireWorkerSession, EventLoopFree,
              Waiting
<1>6. ASSUME NEW c \in Calls, Resume(c) PROVE Kept
  BY <1>6, Unsigned DEF Resume, WorkerSession, DispatchSettles, NonceInv
<1>7. ASSUME NEW c \in Calls, PollResult(c) PROVE Kept
  <2>1. /\ callPc' = [callPc EXCEPT ![c] = "settled"] /\ callPc[c] = "polling"
        /\ \A d \in Calls : d # c => outcome'[d] = outcome[d]
        /\ UNCHANGED effect
    BY <1>7 DEF PollResult, DispatchSettles
  <2>2. /\ outcome'[c] = "success" => effect[c] = "ok"
        /\ outcome'[c] = "actionError" => effect[c] = "failed"
        /\ outcome'[c] = "rejected" => effect[c] = "none"
    <3>1. resultFile[c] \in Results
      BY <1>7 DEF PollResult
    <3>2. /\ ResultOutcome(resultFile[c]) = "success" => resultFile[c] = "ok"
          /\ ResultOutcome(resultFile[c]) = "actionError" => resultFile[c] = "failed"
          /\ ResultOutcome(resultFile[c]) = "rejected" => resultFile[c] = "rejected"
      BY <3>1 DEF Results, ResultOutcome
    <3>3. outcome'[c] \in {"badResult", ResultOutcome(resultFile[c])}
      BY <1>7 DEF PollResult, DispatchSettles
    <3>4. resultFile[c] = "rejected" => effect[c] = "none"
      BY <2>1 DEF RefusalInv, Expired, NonceInv
    <3> QED BY <3>2, <3>3, <3>4 DEF ResultInv
  <2> QED BY <2>1, <2>2
<1>8. ASSUME NEW c \in Calls, PollTimeout(c) PROVE Kept
  BY <1>8 DEF PollTimeout, DispatchSettles, ReleaseWorkerSession, AfterCommandDelete
<1>9. ASSUME Restart PROVE Kept
  BY <1>9 DEF Restart
<1>10. ASSUME NEW s \in Sessions, WorkerBoot(s) PROVE Kept
  BY <1>10 DEF WorkerBoot, UpdateHeartbeat
<1>11. ASSUME NEW s \in Sessions, WorkerLoop(s) PROVE Kept
  BY <1>11 DEF WorkerLoop, UpdateHeartbeat
<1>12. ASSUME NEW s \in Sessions, WorkerIdleExit(s) PROVE Kept
  BY <1>12 DEF WorkerIdleExit
<1>13. ASSUME NEW s \in Sessions, WorkerScanned(s) PROVE Kept
  BY <1>13 DEF WorkerScanned
<1>14. ASSUME NEW s \in Sessions, WorkerCannotRead(s) PROVE Kept
  BY <1>14, InHand DEF WorkerCannotRead
<1>15. ASSUME NEW s \in Sessions, WorkerRejects(s) PROVE Kept
  BY <1>15, InHand DEF WorkerRejects
<1>16. ASSUME NEW s \in Sessions, WorkerReads(s) PROVE Kept
  BY <1>16 DEF WorkerReads
<1>27. ASSUME NEW s \in Sessions, WorkerAccepts(s) PROVE Kept
  <2> DEFINE c == workerCmd[s]
  <2>1. /\ workerPc[s] = "check" /\ c \notin acceptedNonces[s]
        /\ effect' = [effect EXCEPT ![c] = "accepted"] /\ UNCHANGED callVars
        /\ cmdAge[c] < EnvelopeLifetime
    BY <1>27 DEF WorkerAccepts, EnvelopeAccepted
  <2>2. /\ c \in Calls /\ callSession[c] = s /\ callPc[c] \in {"polling", "settled"}
        /\ effect[c] = "none"
    BY <2>1, InHand
  <2>3. outcome[c] # "timeout"
    BY <2>1, <2>2, TimeAssumption DEF TimeoutInv
  <2>4. callPc[c] = "settled" => outcome[c] = "lost"
    BY <2>1, <2>2, <2>3 DEF WithdrawalInv
  <2> HIDE DEF c
  <2> QED BY <2>1, <2>2, <2>4
<1>28. ASSUME NEW s \in Sessions, WorkerStarts(s) PROVE Kept
  <2> DEFINE c == workerCmd[s]
  <2>1. workerPc[s] = "start" /\ effect' = [effect EXCEPT ![c] = "running"] /\ UNCHANGED callVars
    BY <1>28 DEF WorkerStarts
  <2>2. c \in Calls /\ callPc[c] \in {"polling", "settled"} /\ effect[c] = "accepted"
    BY <2>1, InHand DEF ResultInv
  <2>3. outcome[c] \notin {"success", "actionError"}
    BY <2>2 DEF ReportsAreTrue
  <2>4. outcome[c] # "rejected"
    BY <2>2 DEF RefusalInv, Expired
  <2> HIDE DEF c
  <2> QED BY <2>1, <2>2, <2>3, <2>4
<1>29. ASSUME NEW s \in Sessions, WorkerCannotStart(s) PROVE Kept
  <2> DEFINE c == workerCmd[s]
  <2>1. workerPc[s] = "start" /\ effect' = [effect EXCEPT ![c] = "failed"] /\ UNCHANGED callVars
    BY <1>29 DEF WorkerCannotStart
  <2>2. c \in Calls /\ effect[c] = "accepted"
    BY <2>1, InHand DEF ResultInv
  <2> HIDE DEF c
  <2> QED BY <2>1, <2>2
<1>17. ASSUME NEW s \in Sessions, WorkerBusyHeartbeat(s) PROVE Kept
  BY <1>17 DEF WorkerBusyHeartbeat, UpdateHeartbeat
<1>18. ASSUME NEW s \in Sessions, WorkerActionEnds(s) PROVE Kept
  <2> DEFINE c == workerCmd[s]
  <2>1. workerPc[s] = "exec" /\ UNCHANGED callVars
        /\ \E r \in {"ok", "failed"} : effect' = [effect EXCEPT ![c] = r]
    BY <1>18 DEF WorkerActionEnds
  <2>2. c \in Calls /\ effect[c] = "running"
    BY <2>1, InHand DEF ResultInv
  <2> HIDE DEF c
  <2> QED BY <2>1, <2>2
<1>19. ASSUME NEW s \in Sessions, WorkerPublishes(s) PROVE Kept
  BY <1>19, InHand DEF WorkerPublishes, AfterResultWrite
<1>20. ASSUME NEW s \in Sessions, WorkerDeletes(s) PROVE Kept
  BY <1>20, InHand DEF WorkerDeletes, AfterCommandDelete
<1>21. ASSUME NEW s \in Sessions, NEW c \in Calls, WorkerTake(s, c) PROVE Kept
  BY <1>21 DEF WorkerTake, Commands
<1>22. ASSUME NEW s \in Sessions, UacAccept(s) PROVE Kept
  BY <1>22 DEF UacAccept, SessionInv
<1>23. ASSUME NEW s \in Sessions, UacDecline(s) PROVE Kept
  BY <1>23 DEF UacDecline
<1>24. ASSUME NEW s \in Sessions, WorkerCrash(s) PROVE Kept
  BY <1>24 DEF WorkerCrash
<1>25. ASSUME Tick PROVE Kept
  BY <1>25 DEF Tick
<1>26. ASSUME UNCHANGED vars PROVE Kept
  BY <1>26 DEF vars
<1> QED
  BY <1>1, <1>2, <1>3, <1>4, <1>5, <1>6, <1>7, <1>8, <1>9, <1>10, <1>11, <1>12, <1>13,
     <1>14, <1>15, <1>16, <1>17, <1>18, <1>19, <1>20, <1>21, <1>22, <1>23, <1>24, <1>25, <1>26, <1>27, <1>28, <1>29 DEF
     Next, MainStep, WorkerStep

\* What the caller of a dispatch knows, read from the dispatch.
LEMMA RequestIs ==
  ASSUME TypeOK, NEW c \in Calls
  PROVE  /\ callPc[c] = "idle" => RequestState[c] = "none"
         /\ callPc[c] \in Asked => RequestState[c] = "asked"
         /\ callPc[c] = "settled" =>
              RequestState[c] = IF outcome[c] \in {"success", "actionError", "rejected", "lost"}
                                THEN outcome[c] ELSE "unknown"
BY DEF TypeOK, CallPcs, RequestState, Asked

LEMMA PromiseStep ==
  ASSUME "delete" \notin Faults, EnvelopeLifetime <= CmdTimeout,
         LifecycleInv, ExecutionInv, RefusalInv, WithdrawalInv, [Next]_vars
  PROVE  Promise!Next
<1>1. TypeOK /\ TypeOK'
  BY TypeStep DEF LifecycleInv, ExecutionInv
<1>2. DOMAIN RequestState' = Calls /\ DOMAIN effect' = Calls
  BY <1>1 DEF RequestState, TypeOK
<1>3. ASSUME NEW c \in Calls
      PROVE  \/ Promise!Ask(c) \/ Promise!Refuse(c) \/ Promise!Accept(c)
             \/ Promise!Start(c) \/ Promise!Finish(c) \/ Promise!Answer(c) \/ Promise!Stay(c)
  <2>1. /\ callPc[c] = "idle" => RequestState[c] = "none"
        /\ callPc[c] \in Asked => RequestState[c] = "asked"
        /\ callPc[c] = "settled" =>
             RequestState[c] = IF outcome[c] \in {"success", "actionError", "rejected", "lost"}
                               THEN outcome[c] ELSE "unknown"
    BY <1>1, RequestIs
  <2>2. /\ callPc'[c] = "idle" => RequestState'[c] = "none"
        /\ callPc'[c] \in Asked => RequestState'[c] = "asked"
        /\ callPc'[c] = "settled" =>
             RequestState'[c] = IF outcome'[c] \in {"success", "actionError", "rejected", "lost"}
                                THEN outcome'[c] ELSE "unknown"
    BY <1>1 DEF TypeOK, CallPcs, RequestState, Asked
  <2>3. CASE Told(c)
    BY <2>1, <2>2, <2>3 DEF Told, Promise!Ask, Promise!Refuse, Promise!Answer, Promise!Answers,
       Promise!Stay
  <2>4. CASE Acted(c)
    <3>1. callPc[c] \in {"idle"} \cup Asked \cup {"settled"}
      BY <1>1 DEF TypeOK, CallPcs, Asked
    <3>2. RequestState'[c] = RequestState[c]
      BY <2>1, <2>2, <2>4, <3>1 DEF Acted
    <3> QED BY <2>1, <2>4, <3>2 DEF Acted, Promise!Accept, Promise!Start, Promise!Finish
  <2> QED BY <2>3, <2>4, PromiseSteps
<1> QED BY <1>2, <1>3 DEF Promise!Next

\* Unless a result cannot be written and a command cannot be deleted either, a dispatch that
\* the worker refused did not run: the refusal that a second reading of the command file
\* produces never takes the place of the answer to the first.
THEOREM RefusedDidNotRun ==
  ASSUME ~({"resultWrite", "delete"} \subseteq Faults)
  PROVE  Spec => []RefusedNeverRan
<1>1. Init => RefusalInv
  BY DEF Init, RefusalInv
<1>2. LifecycleInv /\ ExecutionInv /\ RefusalInv /\ [Next]_vars => RefusalInv'
  BY RefusalStep
<1>3. ExecutionInv /\ RefusalInv => RefusedNeverRan
  BY DEF ExecutionInv, NonceInv, RefusalInv, Expired, RefusedNeverRan
<1> QED BY <1>1, <1>2, <1>3, Invariance, PTL DEF Spec

\* While deletes in the queue succeed and commands expire no later than they time out, every call of dispatchCommand keeps the promise of
\* ElevatedDispatch, through crashes of the workers and restarts of the Workbench: its action
\* is accepted only while nobody was answered, and every answer is true.
THEOREM PromiseIsKept ==
  ASSUME "delete" \notin Faults, EnvelopeLifetime <= CmdTimeout
  PROVE  Spec => DispatchPromise
<1>1. Init => RefusalInv /\ WithdrawalInv /\ Promise!Init
  BY DEF Init, RefusalInv, WithdrawalInv, Promise!Init, RequestState
<1>2. LifecycleInv /\ ExecutionInv /\ RefusalInv /\ WithdrawalInv /\ [Next]_vars
        => RefusalInv' /\ WithdrawalInv' /\ [Promise!Next]_(Promise!vars)
  BY RefusalStep, WithdrawalStep, PromiseStep
<1> QED BY <1>1, <1>2, Invariance, PTL DEF Spec, DispatchPromise, Promise!Spec
=============================================================================
