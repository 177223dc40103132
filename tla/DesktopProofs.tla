---------------------------- MODULE DesktopProofs ----------------------------
(* That the parts of Desktop are apart, so that what a part keeps is kept, and *)
(* what each of the parts keeps, the start of the application first.        *)
EXTENDS Desktop, FiniteSetTheorems, Sequences, TLAPS

(***************************************************************************)
(* The start of the application.                                           *)
(***************************************************************************)

(* Types, one group of variables at a time. *)

LEMMA StartupTypesInit == StInit => StTypeOK
  BY TaskAssumption, VersionAssumption DEF StInit, StTypeOK, Files, Versions

LEMMA StartupTypesStep ==
  ASSUME StTypeOK, [StNext]_stVars
  PROVE  StTypeOK'
<1> USE TaskAssumption, VersionAssumption
        DEF StTypeOK, Versions, disk, markers, legs, Fault, Mostly, Version
<1>1. CASE SyncProbes
  BY <1>1 DEF SyncProbes
<1>2. CASE SyncCopies
  BY <1>2 DEF SyncCopies, Mismatches
<1>3. CASE MigrationStarts
  BY <1>3 DEF MigrationStarts
<1>4. CASE RegistersElevated
  BY <1>4 DEF RegistersElevated, CanRegister
<1>5. CASE RegistersTooLate
  BY <1>5 DEF RegistersTooLate
<1>6. CASE RegistersPlain
  BY <1>6 DEF RegistersPlain
<1>7. CASE MarksTasks
  BY <1>7 DEF MarksTasks
<1>8. CASE RepairProbes
  BY <1>8 DEF RepairProbes
<1>9. CASE RepairsElevated
  BY <1>9 DEF RepairsElevated
<1>10. CASE MarksRepair
  BY <1>10 DEF MarksRepair
<1>11. CASE HealProbes
  BY <1>11 DEF HealProbes
<1>12. CASE HealsElevated
  BY <1>12 DEF HealsElevated
<1>13. CASE Launch
  BY <1>13 DEF Launch
<1>14. CASE Stop
  BY <1>14 DEF Stop
<1>15. CASE LateRow
  BY <1>15 DEF LateRow
<1>16. CASE Upgrade
  BY <1>16 DEF Upgrade
<1>17. CASE AclBreaks
  BY <1>17 DEF AclBreaks
<1>18. CASE TaskDeleted
  BY <1>18 DEF TaskDeleted
<1>19. CASE UNCHANGED stVars
  BY <1>19 DEF stVars
<1> QED
  BY <1>1, <1>2, <1>3, <1>4, <1>5, <1>6, <1>7, <1>8, <1>9, <1>10, <1>11, <1>12, <1>13,
     <1>14, <1>15, <1>16, <1>17, <1>18, <1>19 DEF StNext, Legs

(* What a step does to the tasks and to the marker. *)

\* No step but the elevated registration, as long as the bundle is the same, leaves a task
\* behind: whoever else changes one is remembered, and a late row of this very bundle
\* registers its task.
LEMMA RegisteredStays ==
  ASSUME StTypeOK, [StNext]_stVars, ~RegistersElevated, bundle' = bundle, Registered
  PROVE  Registered'
<1> USE TaskAssumption, VersionAssumption DEF Registered, StTypeOK, Versions, disk, markers, legs
<1>1. CASE UNCHANGED <<tasks, disturbed>>
  BY <1>1
<1>2. CASE RegistersPlain
  BY <1>2 DEF RegistersPlain
<1>3. CASE LateRow
  <2>1. PICK row \in late :
          IF CanRegister(row[1])
          THEN /\ tasks' = [tasks EXCEPT ![row[1]] = row[2]]
               /\ disturbed' = IF row[2] = bundle THEN disturbed \ {row[1]}
                                ELSE disturbed \cup {row[1]}
          ELSE UNCHANGED <<tasks, disturbed>>
    BY <1>3 DEF LateRow
  <2> QED BY <1>3, <2>1
<1>4. CASE TaskDeleted
  BY <1>4 DEF TaskDeleted
<1>5. TaskDeleted \/ LateRow \/ RegistersPlain \/ UNCHANGED <<tasks, disturbed>>
  <2>1. CASE SyncProbes \/ SyncCopies \/ MigrationStarts \/ RegistersTooLate \/ MarksTasks
    BY <2>1 DEF SyncProbes, SyncCopies, MigrationStarts, RegistersTooLate, MarksTasks
  <2>2. CASE RepairProbes \/ RepairsElevated \/ MarksRepair \/ HealProbes \/ HealsElevated
    BY <2>2 DEF RepairProbes, RepairsElevated, MarksRepair, HealProbes, HealsElevated
  <2>3. CASE Launch \/ Stop \/ Upgrade \/ AclBreaks \/ UNCHANGED stVars
    BY <2>3 DEF Launch, Stop, Upgrade, AclBreaks, stVars
  <2> QED BY <2>1, <2>2, <2>3 DEF StNext, Legs
<1> QED
  BY <1>1, <1>2, <1>3, <1>4, <1>5

\* The elevated registration happens under an old marker only, and what it leaves as verified
\* is registered to the last row.
LEMMA ElevatedRegisters ==
  ASSUME StTypeOK, RegistersElevated
  PROVE  /\ migration' = "verified" => Registered'
         /\ taskMarker' # bundle'
         /\ migration = "register" /\ UNCHANGED <<bundle, taskMarker, sync>>
<1>1. migration' = "verified" => Registered'
  <2>1. PICK applied \in SUBSET Tasks, left \in SUBSET Tasks :
          /\ tasks' = [t \in Tasks |-> CASE t \in applied -> bundle
                                         [] t \in left -> 0
                                         [] OTHER -> tasks[t]]
          /\ migration' = IF Verified(applied) THEN "verified" ELSE "done"
    BY DEF RegistersElevated
  <2> QED BY <2>1 DEF RegistersElevated, Registered, Verified, StTypeOK, Versions
<1> QED
  BY <1>1 DEF RegistersElevated, IsUpgrade, Version, markers

\* The legs of a launch, and what each of the other steps does to the marker.
LEMMA MarkerStep ==
  ASSUME StTypeOK, [StNext]_stVars, ~RegistersElevated, sync = "off" => migration = "off"
  PROVE  /\ sync' = "off" => migration' = "off"
         /\ migration' = "verified" => migration = "verified" /\ bundle' = bundle
         /\ \/ UNCHANGED <<bundle, taskMarker>>
            \/ /\ migration = "verified" /\ bundle' = bundle /\ taskMarker' = bundle
            \/ /\ sync = "off" /\ bundle' = bundle + 1 /\ taskMarker' = taskMarker
<1> USE TaskAssumption, VersionAssumption DEF Versions, disk, markers, legs
<1>1. CASE SyncProbes \/ SyncCopies
  BY <1>1 DEF SyncProbes, SyncCopies
<1>2. CASE MigrationStarts \/ RegistersTooLate \/ RegistersPlain
  BY <1>2 DEF MigrationStarts, RegistersTooLate, RegistersPlain
<1>3. CASE MarksTasks
  BY <1>3 DEF MarksTasks, Version
<1>4. CASE RepairProbes \/ RepairsElevated \/ MarksRepair \/ HealProbes \/ HealsElevated
  BY <1>4 DEF RepairProbes, RepairsElevated, MarksRepair, HealProbes, HealsElevated
<1>5. CASE Launch \/ Stop
  BY <1>5 DEF Launch, Stop
<1>6. CASE Upgrade
  BY <1>6 DEF Upgrade
<1>7. CASE LateRow \/ AclBreaks \/ TaskDeleted \/ UNCHANGED stVars
  BY <1>7 DEF LateRow, AclBreaks, TaskDeleted, stVars
<1> QED
  BY <1>1, <1>2, <1>3, <1>4, <1>5, <1>6, <1>7 DEF StNext, Legs

\* The invariant holds when the application was installed for the first time.
THEOREM MigrationInit == StInit => MigrationInv
<1> SUFFICES ASSUME StInit PROVE MigrationInv
  OBVIOUS
<1>1. StTypeOK
  BY StartupTypesInit
<1> QED
  BY <1>1 DEF StInit, MigrationInv, MarkerIsHonest

\* Every step of the legs, of scripts that outlived their launch, of the installer and of the
\* user keeps the invariant.
THEOREM MigrationStep == MigrationInv /\ [StNext]_stVars => MigrationInv'
<1> SUFFICES ASSUME MigrationInv, [StNext]_stVars PROVE MigrationInv'
  OBVIOUS
<1>0. StTypeOK /\ StTypeOK'
  BY StartupTypesStep DEF MigrationInv
<1>1. CASE RegistersElevated
  <2>1. /\ migration' = "verified" => Registered'
        /\ taskMarker' # bundle'
        /\ migration = "register" /\ UNCHANGED <<bundle, taskMarker, sync>>
    BY <1>0, <1>1, ElevatedRegisters
  <2> QED BY <1>0, <2>1 DEF MigrationInv, MarkerIsHonest
<1>2. CASE ~RegistersElevated
  <2>1. /\ sync' = "off" => migration' = "off"
        /\ migration' = "verified" => migration = "verified" /\ bundle' = bundle
        /\ \/ UNCHANGED <<bundle, taskMarker>>
           \/ /\ migration = "verified" /\ bundle' = bundle /\ taskMarker' = bundle
           \/ /\ sync = "off" /\ bundle' = bundle + 1 /\ taskMarker' = taskMarker
    BY <1>0, <1>2, MarkerStep DEF MigrationInv
  <2>2. bundle \in Int /\ taskMarker \in Int
    BY <1>0 DEF StTypeOK, Versions
  <2>3. taskMarker' <= bundle'
    BY <2>1, <2>2 DEF MigrationInv
  <2>4. bundle' = bundle /\ Registered => Registered'
    BY <1>0, <1>2, RegisteredStays
  <2>5. migration' = "verified" => Registered'
    BY <2>1, <2>4 DEF MigrationInv
  <2>6. taskMarker' = bundle' => Registered'
    BY <2>1, <2>2, <2>4 DEF MigrationInv, MarkerIsHonest, Registered
  <2> QED BY <1>0, <2>1, <2>3, <2>5, <2>6 DEF MigrationInv, MarkerIsHonest, Registered
<1> QED
  BY <1>1, <1>2

\* So it holds throughout.
THEOREM MigrationInvariance == StSpec => []MigrationInv
  BY MigrationInit, MigrationStep, PTL DEF StSpec

\* The launches, their markers and what elevated scripts do later stay within their types.
THEOREM StartupTypes == StSpec => []StTypeOK
<1>1. MigrationInv => StTypeOK
  BY DEF MigrationInv
<1> QED BY <1>1, MigrationInvariance, PTL

\* last_task_migration_version is honest (main.ts, verifyTaskManifestMigration): whichever leg
\* of a launch is cut short and whenever an elevated script ends, a launch that skips the
\* elevated registration finds every task at the manifest of its bundle, but for what others
\* changed since.
THEOREM MarkersAreHonest == StSpec => []MarkerIsHonest
<1>1. MigrationInv => MarkerIsHonest
  BY DEF MigrationInv
<1> QED BY <1>1, MigrationInvariance, PTL

(***************************************************************************)
(* The parts are apart.                                                    *)
(***************************************************************************)

LEMMA Stutters ==
  ASSUME UNCHANGED vars
  PROVE  /\ UNCHANGED <<stVars, wizardVars, servicesVars, processVars, actionVars>>
         /\ UNCHANGED <<terminalVars, installVars, toolVars, rulesVars, updateVars>>
         /\ UNCHANGED <<settingVars, nasVars, pickerVars, updatesVars, reviewVars>>
  BY DEF vars

\* A step of the window is a step of the part it looks at, and leaves each other part alone.
LEMMA Apart ==
  ASSUME [Next]_vars
  PROVE  /\ [StNext]_stVars
         /\ [Wizard!Next]_wizardVars
         /\ [Undo!Next]_servicesVars
         /\ [Process!Next]_processVars
         /\ [Action!Next]_actionVars
         /\ [Terminal!Next]_terminalVars
         /\ [Install!Next]_installVars
         /\ [Tool!Next]_toolVars
         /\ [Rules!Next]_rulesVars
         /\ [Update!Next]_updateVars
         /\ [Setting!Next]_settingVars
         /\ [Nas!Next]_nasVars
         /\ [Picker!Next]_pickerVars
         /\ [Updates!Next]_updatesVars
         /\ [Review!Next]_reviewVars
<1> USE DEF Frame
<1>1. CASE UNCHANGED vars
  BY <1>1, Stutters
<1>2. CASE OfStartup
  BY <1>2, Zenon DEF OfStartup
<1>3. CASE OfWizard
  BY <1>3, Zenon DEF OfWizard
<1>4. CASE OfServices
  BY <1>4, Zenon DEF OfServices
<1>5. CASE OfProcesses
  BY <1>5, Zenon DEF OfProcesses
<1>6. CASE OfActions
  BY <1>6, Zenon DEF OfActions
<1>7. CASE OfTerminals
  BY <1>7, Zenon DEF OfTerminals
<1>8. CASE OfInstalls
  BY <1>8, Zenon DEF OfInstalls
<1>9. CASE OfTools
  BY <1>9, Zenon DEF OfTools
<1>10. CASE OfRules
  BY <1>10, Zenon DEF OfRules
<1>11. CASE OfUpdater
  BY <1>11, Zenon DEF OfUpdater
<1>12. CASE OfSettings
  BY <1>12, Zenon DEF OfSettings
<1>13. CASE OfNas
  BY <1>13, Zenon DEF OfNas
<1>14. CASE OfPicker
  BY <1>14, Zenon DEF OfPicker
<1>15. CASE OfUpdates
  BY <1>15, Zenon DEF OfUpdates
<1>16. CASE OfReview
  BY <1>16, Zenon DEF OfReview
<1> QED
  BY <1>1, <1>2, <1>3, <1>4, <1>5, <1>6, <1>7, <1>8, <1>9, <1>10, <1>11, <1>12, <1>13, <1>14,
     <1>15, <1>16 DEF Next

(***************************************************************************)
(* Terminals.                                                              *)
(***************************************************************************)

LEMMA TerminalInit == Terminal!Init => Terminal!TerminalsInv
<1> SUFFICES ASSUME Terminal!Init PROVE Terminal!TerminalsInv
  OBVIOUS
<1> USE DEF Terminal!Init
<1>1. begun \in 0..MaxTerminals /\ mounted \in 0..begun
  BY BoundAssumption
<1>2. Terminal!TypeOK
  BY <1>1 DEF Terminal!TypeOK
<1>3. Terminal!ContextGoesHome /\ Terminal!OwnSession /\ Terminal!Reachable
  BY DEF Terminal!ContextGoesHome, Terminal!OwnSession, Terminal!Reachable
<1> QED
  BY <1>2, <1>3 DEF Terminal!TerminalsInv

LEMMA TerminalStep ==
  ASSUME Terminal!TerminalsInv, [Terminal!Next]_terminalVars
  PROVE  Terminal!TerminalsInv'
<1>0. MaxTerminals \in Nat
  BY BoundAssumption
<1> USE <1>0 DEF Terminal!TerminalsInv, Terminal!Starts
<1>1. CASE Terminal!Mount
  <2>1. Terminal!TypeOK'
    BY <1>1 DEF Terminal!Mount, Terminal!TypeOK
  <2>2. Terminal!ContextGoesHome'
    BY <1>1 DEF Terminal!Mount, Terminal!ContextGoesHome
  <2>3. Terminal!OwnSession'
    BY <1>1 DEF Terminal!Mount, Terminal!TypeOK, Terminal!OwnSession
  <2>4. Terminal!Reachable'
    BY <1>1 DEF Terminal!Mount, Terminal!TypeOK, Terminal!Reachable, Terminal!IdOf
  <2> QED
    BY <2>1, <2>2, <2>3, <2>4
<1>2. CASE Terminal!Unmount
  <2>1. Terminal!TypeOK'
    <3>1. begun' \in 0..MaxTerminals /\ mounted' \in 0..begun'
      BY <1>2 DEF Terminal!Unmount, Terminal!TypeOK
    <3>2. sessions' \in [Terminal!Starts -> {0} \cup Terminal!Starts]
      BY <1>2 DEF Terminal!Unmount, Terminal!TypeOK, Terminal!Killed
    <3>3. procs' \subseteq Terminal!Starts /\ exits' \subseteq Terminal!Starts
      BY <1>2 DEF Terminal!Unmount, Terminal!TypeOK, Terminal!Killed
    <3>4. leftEarly' \subseteq Terminal!Starts
      BY <1>2 DEF Terminal!Unmount, Terminal!TypeOK
    <3> QED
      BY <1>2, <3>1, <3>2, <3>3, <3>4, Zenon DEF Terminal!Unmount, Terminal!TypeOK
  <2>2. Terminal!ContextGoesHome'
    BY <1>2 DEF Terminal!Unmount, Terminal!ContextGoesHome
  <2>3. Terminal!OwnSession'
    BY <1>2 DEF Terminal!Unmount, Terminal!TypeOK, Terminal!OwnSession, Terminal!Killed
  <2>4. Terminal!Reachable'
    BY <1>2 DEF Terminal!Unmount, Terminal!TypeOK, Terminal!Reachable, Terminal!IdOf,
       Terminal!Killed, Terminal!OwnSession
  <2> QED
    BY <2>1, <2>2, <2>3, <2>4
<1>3. CASE Terminal!Quit
  <2>1. Terminal!TypeOK'
    <3>1. begun' \in 0..MaxTerminals /\ mounted' \in 0..begun'
      BY <1>3 DEF Terminal!Quit, Terminal!TypeOK
    <3>2. /\ sessions' \in [Terminal!Starts -> {0} \cup Terminal!Starts]
          /\ procs' \subseteq Terminal!Starts
      BY <1>3 DEF Terminal!Quit, Terminal!TypeOK
    <3>3. quit' \in BOOLEAN
      BY <1>3 DEF Terminal!Quit
    <3> QED
      BY <1>3, <3>1, <3>2, <3>3, Zenon DEF Terminal!Quit, Terminal!TypeOK
  <2>2. Terminal!ContextGoesHome'
    BY <1>3 DEF Terminal!Quit, Terminal!ContextGoesHome
  <2>3. Terminal!OwnSession'
    BY <1>3 DEF Terminal!Quit, Terminal!TypeOK, Terminal!OwnSession
  <2>4. Terminal!Reachable'
    BY <1>3 DEF Terminal!Quit, Terminal!TypeOK, Terminal!Reachable, Terminal!IdOf
  <2> QED
    BY <2>1, <2>2, <2>3, <2>4
<1>4. ASSUME NEW e \in Terminal!Starts, Terminal!Checks(e) PROVE Terminal!TerminalsInv'
  <2>1. Terminal!TypeOK'
    BY <1>4 DEF Terminal!Checks, Terminal!TypeOK
  <2>2. Terminal!ContextGoesHome'
    BY <1>4 DEF Terminal!Checks, Terminal!ContextGoesHome
  <2>3. Terminal!OwnSession'
    BY <1>4 DEF Terminal!Checks, Terminal!TypeOK, Terminal!OwnSession, Terminal!IdOf
  <2>4. Terminal!Reachable'
    BY <1>4 DEF Terminal!Checks, Terminal!TypeOK, Terminal!Reachable, Terminal!IdOf,
       Terminal!OwnSession
  <2> QED
    BY <2>1, <2>2, <2>3, <2>4
<1>5. ASSUME NEW e \in Terminal!Starts, Terminal!Spawns(e) PROVE Terminal!TerminalsInv'
  <2>1. Terminal!TypeOK'
    <3>1. starts' \in [Terminal!Starts -> {"new", "asked", "building", "up", "failed"}]
      BY <1>5 DEF Terminal!Spawns, Terminal!TypeOK
    <3>2. sessions' \in [Terminal!Starts -> {0} \cup Terminal!Starts]
      BY <1>5 DEF Terminal!Spawns, Terminal!TypeOK
    <3>3. procs' \subseteq Terminal!Starts /\ timers' \subseteq Terminal!Starts
      BY <1>5 DEF Terminal!Spawns, Terminal!TypeOK
    <3> QED
      BY <1>5, <3>1, <3>2, <3>3, Zenon DEF Terminal!Spawns, Terminal!TypeOK
  <2>2. Terminal!ContextGoesHome'
    BY <1>5 DEF Terminal!Spawns, Terminal!ContextGoesHome
  <2>3. Terminal!OwnSession'
    <3> SUFFICES ASSUME ~strict PROVE Terminal!OwnSession'
      BY <1>5 DEF Terminal!Spawns, Terminal!OwnSession
    <3>0. e \notin procs \cup exits /\ ~(begun < e) /\ Terminal!IdOf(e) = e
      BY <1>5 DEF Terminal!Spawns, Terminal!OwnSession, Terminal!IdOf
    <3>1. CASE starts' = [starts EXCEPT ![e] = "failed"] /\ UNCHANGED <<procs, sessions, timers>>
      BY <1>5, <3>0, <3>1 DEF Terminal!Spawns, Terminal!TypeOK, Terminal!OwnSession
    <3>2. CASE /\ starts' = [starts EXCEPT ![e] = "up"] /\ procs' = procs \cup {e}
               /\ sessions' = [sessions EXCEPT ![e] = e]
      <4>1. \A id \in Terminal!Starts : sessions'[id] \in {0, id}
        BY <3>2 DEF Terminal!TypeOK, Terminal!OwnSession
      <4>2. \A d \in Terminal!Starts : begun < d => starts'[d] = "new"
        BY <3>0, <3>2 DEF Terminal!TypeOK, Terminal!OwnSession
      <4>3. \A d \in procs' \cup exits : starts'[d] = "up"
        BY <3>0, <3>2 DEF Terminal!TypeOK, Terminal!OwnSession
      <4>4. procs' \cap exits = {}
        BY <3>0, <3>2 DEF Terminal!OwnSession
      <4> QED
        BY <1>5, <4>1, <4>2, <4>3, <4>4, Zenon DEF Terminal!Spawns, Terminal!OwnSession
    <3> QED
      BY <1>5, <3>0, <3>1, <3>2 DEF Terminal!Spawns
  <2>4. Terminal!Reachable'
    <3> SUFFICES ASSUME ~strict PROVE Terminal!Reachable'
      BY <1>5 DEF Terminal!Spawns, Terminal!Reachable
    <3>0. \A d \in Terminal!Starts : Terminal!IdOf(d) = d /\ Terminal!IdOf(d)' = d
      BY <1>5 DEF Terminal!Spawns, Terminal!IdOf
    <3>1. CASE UNCHANGED <<procs, sessions, timers>>
      BY <1>5, <3>0, <3>1 DEF Terminal!Spawns, Terminal!TypeOK, Terminal!Reachable
    <3>2. CASE procs' = procs \cup {e} /\ sessions' = [sessions EXCEPT ![e] = e]
      BY <1>5, <3>0, <3>2 DEF Terminal!Spawns, Terminal!TypeOK, Terminal!Reachable
    <3> QED
      BY <1>5, <3>0, <3>1, <3>2 DEF Terminal!Spawns
  <2> QED
    BY <2>1, <2>2, <2>3, <2>4
<1>6. ASSUME NEW e \in Terminal!Starts, Terminal!Injects(e) PROVE Terminal!TerminalsInv'
  <2>1. Terminal!TypeOK'
    BY <1>6 DEF Terminal!Injects, Terminal!TypeOK, Terminal!Target
  <2>2. Terminal!ContextGoesHome'
    BY <1>6 DEF Terminal!Injects, Terminal!ContextGoesHome, Terminal!Target
  <2>3. Terminal!OwnSession'
    BY <1>6 DEF Terminal!Injects, Terminal!TypeOK, Terminal!OwnSession, Terminal!IdOf
  <2>4. Terminal!Reachable'
    BY <1>6 DEF Terminal!Injects, Terminal!TypeOK, Terminal!Reachable, Terminal!IdOf,
       Terminal!OwnSession
  <2> QED
    BY <2>1, <2>2, <2>3, <2>4
<1>7. ASSUME NEW e \in Terminal!Starts, Terminal!ProcessEnds(e) PROVE Terminal!TerminalsInv'
  <2>1. Terminal!TypeOK'
    BY <1>7 DEF Terminal!ProcessEnds, Terminal!TypeOK
  <2>2. Terminal!ContextGoesHome'
    BY <1>7 DEF Terminal!ProcessEnds, Terminal!ContextGoesHome
  <2>3. Terminal!OwnSession'
    BY <1>7 DEF Terminal!ProcessEnds, Terminal!TypeOK, Terminal!OwnSession, Terminal!IdOf
  <2>4. Terminal!Reachable'
    BY <1>7 DEF Terminal!ProcessEnds, Terminal!TypeOK, Terminal!Reachable, Terminal!IdOf,
       Terminal!OwnSession
  <2> QED
    BY <2>1, <2>2, <2>3, <2>4
<1>8. ASSUME NEW e \in Terminal!Starts, Terminal!Exited(e) PROVE Terminal!TerminalsInv'
  <2>1. Terminal!TypeOK'
    <3>1. begun' \in 0..MaxTerminals /\ mounted' \in 0..begun'
      BY <1>8 DEF Terminal!Exited, Terminal!TypeOK
    <3>2. sessions' \in [Terminal!Starts -> {0} \cup Terminal!Starts]
      BY <1>8 DEF Terminal!Exited, Terminal!TypeOK
    <3>3. exits' \subseteq Terminal!Starts
      BY <1>8 DEF Terminal!Exited, Terminal!TypeOK
    <3>4. leftEarly' \subseteq Terminal!Starts
      <4>1. mounted = 0 \/ mounted \in Terminal!Starts
        BY DEF Terminal!TypeOK
      <4>2. leftEarly' \in {leftEarly, leftEarly \cup {mounted}} /\ (mounted = 0 => leftEarly' = leftEarly)
        BY <1>8 DEF Terminal!Exited
      <4> QED
        BY <4>1, <4>2 DEF Terminal!TypeOK
    <3> QED
      BY <1>8, <3>1, <3>2, <3>3, <3>4, Zenon DEF Terminal!Exited, Terminal!TypeOK
  <2>2. Terminal!ContextGoesHome'
    BY <1>8 DEF Terminal!Exited, Terminal!ContextGoesHome
  <2>3. Terminal!OwnSession'
    BY <1>8 DEF Terminal!Exited, Terminal!TypeOK, Terminal!OwnSession, Terminal!IdOf
  <2>4. Terminal!Reachable'
    BY <1>8 DEF Terminal!Exited, Terminal!TypeOK, Terminal!Reachable, Terminal!IdOf,
       Terminal!OwnSession
  <2> QED
    BY <2>1, <2>2, <2>3, <2>4
<1>9. CASE UNCHANGED terminalVars
  BY <1>9 DEF terminalVars, Terminal!TypeOK, Terminal!ContextGoesHome, Terminal!OwnSession,
     Terminal!Reachable, Terminal!IdOf
<1> QED
  BY <1>1, <1>2, <1>3, <1>4, <1>5, <1>6, <1>7, <1>8, <1>9 DEF Terminal!Next

(***************************************************************************)
(* Installs.                                                               *)
(***************************************************************************)

LEMMA InstallInit == Install!Init => Install!InstallsInv
<1> SUFFICES ASSUME Install!Init PROVE Install!InstallsInv
  OBVIOUS
<1> USE DEF Install!Init
<1>1. Install!NoJob \in Install!JobType
  BY DEF Install!NoJob, Install!JobType, Install!JobFields, Install!Installs
<1>2. outside \in 0..MaxChanges
  BY BoundAssumption
<1>3. Install!TypeOK
  BY <1>1, <1>2 DEF Install!TypeOK
<1>4. Install!OneIsActive
  BY DEF Install!OneIsActive, Install!Active, Install!NoJob
<1> QED
  BY <1>3, <1>4 DEF Install!InstallsInv

\* What begins is a job that was none.
LEMMA InstallBegins ==
  ASSUME Install!TypeOK, NEW by \in {"row", "all", "upgrade", "upgrade all"},
         NEW t \in Tools \cup {"none"}, NEW rest \in SUBSET Tools, Install!Begin(by, t, rest),
         by \in {"row", "all"} => t \in Tools
  PROVE  /\ jobs' \in [Install!Jobs -> Install!JobType]
         /\ \E j \in Install!Jobs :
              /\ ~jobs[j].here
              /\ jobs'[j].here /\ jobs'[j].by = by /\ jobs'[j].from = place /\ jobs'[j].tool = t
              /\ \A i \in Install!Jobs \ {j} : jobs'[i] = jobs[i]
<1>1. PICK j \in Install!Jobs :
        /\ jobs[j] = Install!NoJob
        /\ jobs' = [jobs EXCEPT ![j] = [by |-> by, from |-> place, tool |-> t, rest |-> rest,
                                        phase |-> "installer", here |-> TRUE]]
  BY DEF Install!Begin
<1>2. [by |-> by, from |-> place, tool |-> t, rest |-> rest, phase |-> "installer", here |-> TRUE]
        \in Install!JobType
  BY DEF Install!TypeOK, Install!JobType, Install!JobFields, Install!Installs
<1>3. jobs' \in [Install!Jobs -> Install!JobType]
  BY <1>1, <1>2 DEF Install!TypeOK
<1>4. ~jobs[j].here
  <2>1. ~Install!NoJob.here
    BY DEF Install!NoJob
  <2> QED
    BY <1>1, <2>1
<1>5. jobs'[j].here /\ jobs'[j].by = by /\ jobs'[j].from = place /\ jobs'[j].tool = t
  BY <1>1 DEF Install!TypeOK
<1>6. \A i \in Install!Jobs \ {j} : jobs'[i] = jobs[i]
  BY <1>1 DEF Install!TypeOK
<1> QED
  BY <1>3, <1>4, <1>5, <1>6

\* An install begins on the Tools page when none is active.
LEMMA InstallKeepsOne ==
  ASSUME Install!InstallsInv, NEW by \in {"row", "all", "upgrade", "upgrade all"},
         NEW t \in Tools \cup {"none"}, NEW rest \in SUBSET Tools, Install!Begin(by, t, rest),
         by \in {"row", "all"} => t \in Tools, UNCHANGED place,
         \/ by \in {"upgrade", "upgrade all"} /\ UNCHANGED installing
         \/ place = "splash"
         \/ installing = {} /\ installing' = {t}
  PROVE  Install!OneIsActive'
<1>1. PICK j \in Install!Jobs :
        /\ ~jobs[j].here
        /\ jobs'[j].here /\ jobs'[j].by = by /\ jobs'[j].from = place /\ jobs'[j].tool = t
        /\ \A i \in Install!Jobs \ {j} : jobs'[i] = jobs[i]
  <2>1. Install!TypeOK
    BY DEF Install!InstallsInv
  <2> QED
    BY <2>1, InstallBegins, ZenonT(90)
<1>2. \A i \in Install!Jobs : jobs'[i].here => jobs'[i].from = place'
  BY <1>1 DEF Install!InstallsInv, Install!OneIsActive
<1>3. \A i \in Install!Jobs \ {j} : Install!Active(i)' <=> Install!Active(i)
  BY <1>1 DEF Install!Active, Install!Installs
<1>4. CASE by \in {"upgrade", "upgrade all"} /\ UNCHANGED installing
  <2>1. ~Install!Active(j)'
    BY <1>1, <1>4 DEF Install!Active, Install!Installs
  <2> QED
    BY <1>1, <1>2, <1>3, <1>4, <2>1 DEF Install!InstallsInv, Install!OneIsActive
<1>5. CASE place = "splash"
  BY <1>2, <1>5 DEF Install!OneIsActive
<1>6. CASE installing = {} /\ installing' = {t} /\ place = "tools"
  <2>1. \A i \in Install!Jobs : ~Install!Active(i)
    BY <1>6 DEF Install!InstallsInv, Install!OneIsActive
  <2>2. \A i \in Install!Jobs : Install!Active(i)' => i = j
    BY <1>3, <2>1
  <2> QED
    BY <1>1, <1>2, <1>6, <2>2 DEF Install!OneIsActive
<1>7. CASE place = "away"
  BY <1>2, <1>7 DEF Install!OneIsActive
<1> QED
  BY <1>4, <1>5, <1>6, <1>7 DEF Install!InstallsInv, Install!TypeOK

\* A mount forgets the jobs of the one before.
LEMMA InstallMounts ==
  ASSUME Install!InstallsInv, NEW p \in {"away", "splash", "tools"}, Install!Mounted(p),
         Install!Forgotten, UNCHANGED <<present, outside>>
  PROVE  Install!InstallsInv'
<1>1. \A j \in Install!Jobs : [jobs[j] EXCEPT !.here = FALSE] \in Install!JobType
  BY ZenonT(60) DEF Install!InstallsInv, Install!TypeOK, Install!JobType, Install!JobFields,
     Install!Installs
<1>2. jobs' \in [Install!Jobs -> Install!JobType]
  BY <1>1 DEF Install!Forgotten
<1>3. \A j \in Install!Jobs : ~jobs'[j].here
  BY DEF Install!Forgotten, Install!InstallsInv, Install!TypeOK, Install!JobType,
     Install!JobFields, Install!Installs
<1>4. Install!TypeOK'
  BY <1>2 DEF Install!InstallsInv, Install!TypeOK, Install!Mounted
<1>5. Install!OneIsActive'
  BY <1>3 DEF Install!OneIsActive, Install!Active, Install!Installs
<1> QED
  BY <1>4, <1>5 DEF Install!InstallsInv

\* One job at most is active, and its mark is there.
LEMMA InstallAlone ==
  ASSUME \A i \in Install!Jobs : jobs'[i].here => jobs'[i].from = place',
         NEW j,
         \A i \in Install!Jobs : Install!Active(i)' => i = j /\ jobs'[i].tool \in installing'
  PROVE  Install!OneIsActive'
  BY DEF Install!OneIsActive

\* A round goes on, or an install is over.
LEMMA InstallGoes ==
  ASSUME Install!InstallsInv, NEW j \in Install!Jobs, jobs[j].by \in {"row", "all"},
         Install!Goes(j), UNCHANGED place
  PROVE  /\ jobs' \in [Install!Jobs -> Install!JobType]
         /\ installing' \subseteq Tools \cup {"none"} /\ bulkInstalling' \in BOOLEAN
         /\ Install!OneIsActive'
<1>1. CASE jobs[j].rest # {}
  <2>1. PICK t \in jobs[j].rest :
          /\ jobs' = [jobs EXCEPT ![j].tool = t, ![j].rest = jobs[j].rest \ {t},
                                  ![j].phase = "installer"]
          /\ installing' = IF jobs[j].here THEN (installing \ {jobs[j].tool}) \cup {t} ELSE installing
    BY <1>1 DEF Install!Goes
  <2>2. bulkInstalling' \in BOOLEAN
    BY <1>1 DEF Install!Goes, Install!InstallsInv, Install!TypeOK
  <2>3. jobs[j] \in Install!JobType /\ t \in Tools
    BY <2>1 DEF Install!InstallsInv, Install!TypeOK, Install!JobType, Install!JobFields,
       Install!Installs
  <2>4. [jobs[j] EXCEPT !.tool = t, !.rest = jobs[j].rest \ {t}, !.phase = "installer"]
          \in Install!JobType
    BY <2>3 DEF Install!JobType, Install!JobFields, Install!Installs
  <2>5. jobs' = [jobs EXCEPT ![j] = [jobs[j] EXCEPT !.tool = t, !.rest = jobs[j].rest \ {t},
                                                   !.phase = "installer"]]
    BY <2>1 DEF Install!InstallsInv, Install!TypeOK, Install!JobType, Install!JobFields,
       Install!Installs
  <2>6. jobs' \in [Install!Jobs -> Install!JobType]
    BY <2>4, <2>5 DEF Install!InstallsInv, Install!TypeOK
  <2>7. installing' \subseteq Tools \cup {"none"}
    BY <2>1, <2>3 DEF Install!InstallsInv, Install!TypeOK
  <2>8. /\ jobs'[j].here = jobs[j].here /\ jobs'[j].from = jobs[j].from
        /\ jobs'[j].by = jobs[j].by /\ jobs'[j].tool = t
        /\ \A i \in Install!Jobs \ {j} : jobs'[i] = jobs[i]
    BY <2>3, <2>5 DEF Install!InstallsInv, Install!TypeOK, Install!JobType, Install!JobFields,
       Install!Installs
  <2>9. \A i \in Install!Jobs : jobs'[i].here => jobs'[i].from = place'
    BY <2>8 DEF Install!InstallsInv, Install!OneIsActive
  <2>10. \A i \in Install!Jobs : Install!Active(i)' <=> Install!Active(i)
    BY <2>8 DEF Install!Active, Install!Installs
  <2>11. ASSUME jobs[j].here /\ place = "tools" PROVE Install!OneIsActive'
    <3>1. \A i \in Install!Jobs : Install!Active(i) => i = j
      BY <2>11 DEF Install!InstallsInv, Install!OneIsActive, Install!Active, Install!Installs
    <3>2. t \in installing'
      BY <2>1, <2>11
    <3>3. \A i \in Install!Jobs : Install!Active(i)' => i = j /\ jobs'[i].tool \in installing'
      BY <2>8, <2>10, <3>1, <3>2, Zenon
    <3> QED
      BY <2>9, <3>3, Zenon DEF Install!OneIsActive
  <2>12. ASSUME ~jobs[j].here PROVE Install!OneIsActive'
    <3>1. ~Install!Active(j) /\ installing' = installing
      BY <2>1, <2>12 DEF Install!Active, Install!Installs
    <3>2. \A i \in Install!Jobs : Install!Active(i)' => jobs'[i] = jobs[i]
      BY <2>8, <2>10, <3>1, Zenon
    <3> QED
      BY <2>9, <2>10, <3>1, <3>2 DEF Install!InstallsInv, Install!OneIsActive
  <2>13. place # "tools" => Install!OneIsActive'
    BY <2>9 DEF Install!OneIsActive
  <2>14. Install!OneIsActive'
    <3>1. CASE jobs[j].here /\ place = "tools"
      BY ONLY <2>11, <3>1
    <3>2. CASE ~jobs[j].here
      BY ONLY <2>12, <3>2
    <3>3. CASE place # "tools"
      BY ONLY <2>13, <3>3
    <3> QED
      BY ONLY <3>1, <3>2, <3>3, Zenon
  <2> QED
    BY ONLY <2>2, <2>6, <2>7, <2>14, ZenonT(60)
<1>2. CASE jobs[j].rest = {}
  <2>1. /\ jobs' = [jobs EXCEPT ![j] = Install!Over]
        /\ installing' = IF jobs[j].here THEN installing \ {jobs[j].tool} ELSE installing
    BY <1>2 DEF Install!Goes, Install!Unmark
  <2>2. bulkInstalling' \in BOOLEAN
    BY <1>2 DEF Install!Goes, Install!InstallsInv, Install!TypeOK
  <2>3. Install!Over \in Install!JobType /\ ~Install!Over.here
    BY DEF Install!Over, Install!NoJob, Install!JobType, Install!JobFields, Install!Installs
  <2>4. jobs' \in [Install!Jobs -> Install!JobType]
    BY <2>1, <2>3 DEF Install!InstallsInv, Install!TypeOK
  <2>5. installing' \subseteq Tools \cup {"none"}
    BY <2>1 DEF Install!InstallsInv, Install!TypeOK
  <2>6. ~jobs'[j].here /\ \A i \in Install!Jobs \ {j} : jobs'[i] = jobs[i]
    BY <2>1, <2>3 DEF Install!InstallsInv, Install!TypeOK
  <2>7. \A i \in Install!Jobs : jobs'[i].here => jobs'[i].from = place'
    BY <2>6 DEF Install!InstallsInv, Install!OneIsActive
  <2>8. \A i \in Install!Jobs : Install!Active(i)' <=> (i # j /\ Install!Active(i))
    BY <2>6 DEF Install!Active, Install!Installs
  <2>9. ASSUME jobs[j].here /\ place = "tools" PROVE Install!OneIsActive'
    <3>1. \A i \in Install!Jobs : Install!Active(i) => i = j
      BY <2>9 DEF Install!InstallsInv, Install!OneIsActive, Install!Active, Install!Installs
    <3>2. \A i \in Install!Jobs : ~Install!Active(i)'
      BY <2>8, <3>1, Zenon
    <3> QED
      BY <2>7, <3>2, InstallAlone, Zenon
  <2>10. ASSUME ~jobs[j].here PROVE Install!OneIsActive'
    <3>1. installing' = installing
      BY <2>1, <2>10
    <3>2. \A i \in Install!Jobs : Install!Active(i)' => Install!Active(i) /\ jobs'[i] = jobs[i]
      BY <2>6, <2>8, Zenon
    <3> QED
      BY <2>7, <3>1, <3>2 DEF Install!InstallsInv, Install!OneIsActive
  <2>11. place # "tools" => Install!OneIsActive'
    BY <2>7 DEF Install!OneIsActive
  <2> QED
    BY <2>2, <2>4, <2>5, <2>9, <2>10, <2>11
<1> QED
  BY <1>1, <1>2

\* Where neither the jobs nor the marks change, nor the place.
LEMMA InstallStays ==
  ASSUME Install!InstallsInv, UNCHANGED <<place, jobs, installing>>
  PROVE  Install!OneIsActive'
  BY DEF Install!InstallsInv, Install!OneIsActive, Install!Active, Install!Installs

LEMMA InstallAnswers ==
  ASSUME Install!InstallsInv, NEW j \in Install!Jobs, NEW ok \in BOOLEAN, Install!Installed(j, ok)
  PROVE  Install!InstallsInv'
<1>1. /\ jobs[j].by \in {"row", "all"}
      /\ UNCHANGED <<place, statuses, marked, upgrading, bulkUpgrading, warned, outside>>
  BY DEF Install!Installed
<1>2. jobs[j] \in Install!JobType
  BY DEF Install!InstallsInv, Install!TypeOK
<1>3. present' \subseteq Tools
  <2>1. jobs[j].tool \in Tools
    BY <1>1, <1>2 DEF Install!JobType, Install!JobFields, Install!Installs
  <2>2. present' \subseteq present \cup {jobs[j].tool}
    BY DEF Install!Installed
  <2> QED
    BY <2>1, <2>2 DEF Install!InstallsInv, Install!TypeOK
<1>4. /\ jobs' \in [Install!Jobs -> Install!JobType]
      /\ installing' \subseteq Tools \cup {"none"} /\ bulkInstalling' \in BOOLEAN
      /\ Install!OneIsActive'
  <2>1. CASE ~ok
    <3>1. Install!Goes(j)
      BY <2>1 DEF Install!Installed
    <3> QED
      BY <1>1, <3>1, InstallGoes
  <2>2. CASE ok
    <3>1. /\ jobs' = [jobs EXCEPT ![j].phase = "looks"]
          /\ \/ jobs[j].from = "splash" /\ jobs[j].here /\ installing' = installing \ {jobs[j].tool}
             \/ installing' = installing
          /\ bulkInstalling' = bulkInstalling
      BY <2>2 DEF Install!Installed, Install!Unmark
    <3>2. jobs' \in [Install!Jobs -> Install!JobType]
      <4>1. [jobs[j] EXCEPT !.phase = "looks"] \in Install!JobType
        BY <1>1, <1>2 DEF Install!JobType, Install!JobFields, Install!Installs
      <4> QED
        BY <3>1, <4>1 DEF Install!InstallsInv, Install!TypeOK
    <3>3. installing' \subseteq Tools \cup {"none"} /\ bulkInstalling' \in BOOLEAN
      BY <3>1 DEF Install!InstallsInv, Install!TypeOK
    <3>4. \A i \in Install!Jobs :
            /\ jobs'[i].here = jobs[i].here /\ jobs'[i].from = jobs[i].from
            /\ jobs'[i].by = jobs[i].by /\ jobs'[i].tool = jobs[i].tool
      BY <3>1 DEF Install!InstallsInv, Install!TypeOK, Install!JobType, Install!JobFields,
         Install!Installs
    <3>5. place = "tools" => installing' = installing
      BY <3>1 DEF Install!InstallsInv, Install!OneIsActive
    <3>6. Install!OneIsActive'
      BY <1>1, <3>4, <3>5 DEF Install!InstallsInv, Install!OneIsActive, Install!Active,
         Install!Installs
    <3> QED
      BY <3>2, <3>3, <3>6
  <2> QED
    BY <2>1, <2>2
<1>5. Install!TypeOK'
  BY <1>1, <1>3, <1>4, Zenon DEF Install!InstallsInv, Install!TypeOK
<1> QED
  BY <1>4, <1>5 DEF Install!InstallsInv

\* A step that leaves the marks and the jobs as they are.
LEMMA InstallTypes ==
  ASSUME Install!InstallsInv, Install!OneIsActive',
         UNCHANGED place, jobs' \in [Install!Jobs -> Install!JobType],
         present' \subseteq Tools, statuses' \subseteq Tools,
         installing' \subseteq Tools \cup {"none"}, upgrading' \subseteq Tools \cup {"none"},
         marked' \subseteq Required,
         bulkInstalling' \in BOOLEAN, bulkUpgrading' \in BOOLEAN, warned' \in BOOLEAN,
         outside' \in 0..MaxChanges
  PROVE  Install!InstallsInv'
  BY Zenon DEF Install!InstallsInv, Install!TypeOK

LEMMA InstallTypesHave ==
  ASSUME Install!InstallsInv
  PROVE  /\ present \subseteq Tools /\ statuses \subseteq Tools
         /\ installing \subseteq Tools \cup {"none"} /\ upgrading \subseteq Tools \cup {"none"}
         /\ marked \subseteq Required
         /\ bulkInstalling \in BOOLEAN /\ bulkUpgrading \in BOOLEAN /\ warned \in BOOLEAN
         /\ jobs \in [Install!Jobs -> Install!JobType]
         /\ outside \in 0..MaxChanges
  BY DEF Install!InstallsInv, Install!TypeOK

LEMMA InstallOfOne ==
  ASSUME Install!InstallsInv, NEW t \in Tools,
         Install!SplashInstall(t) \/ Install!TileInstall(t) \/ Install!Upgrade(t)
  PROVE  Install!InstallsInv'
<1>1. CASE Install!SplashInstall(t)
  <2>0. t \in Tools \cup {"none"} /\ {} \in SUBSET Tools
    OBVIOUS
  <2>1. /\ Install!Begin("row", t, {}) /\ place = "splash" /\ installing' = installing \cup {t}
        /\ UNCHANGED <<place, present, statuses, marked, bulkInstalling, upgrading,
                       bulkUpgrading, warned, outside>>
    BY <1>1 DEF Install!SplashInstall
  <2>2. Install!OneIsActive'
    BY <2>0, <2>1, InstallKeepsOne
  <2>3. jobs' \in [Install!Jobs -> Install!JobType]
    BY <2>0, <2>1, InstallBegins DEF Install!InstallsInv
  <2> QED
    BY <2>1, <2>2, <2>3, InstallTypesHave, InstallTypes
<1>2. CASE Install!TileInstall(t)
  <2>0. t \in Tools \cup {"none"} /\ {} \in SUBSET Tools
    OBVIOUS
  <2>1. /\ Install!Begin("row", t, {}) /\ installing = {} /\ installing' = installing \cup {t}
        /\ UNCHANGED <<place, present, statuses, marked, bulkInstalling, upgrading,
                       bulkUpgrading, warned, outside>>
    BY <1>2 DEF Install!TileInstall, Install!Working
  <2>2. Install!OneIsActive'
    BY <2>0, <2>1, InstallKeepsOne
  <2>3. jobs' \in [Install!Jobs -> Install!JobType]
    BY <2>0, <2>1, InstallBegins DEF Install!InstallsInv
  <2> QED
    BY <2>1, <2>2, <2>3, InstallTypesHave, InstallTypes
<1>3. CASE Install!Upgrade(t)
  <2>0. t \in Tools \cup {"none"} /\ {} \in SUBSET Tools
    OBVIOUS
  <2>1. /\ Install!Begin("upgrade", t, {}) /\ upgrading' = upgrading \cup {t}
        /\ UNCHANGED <<place, present, statuses, installing, marked, bulkInstalling,
                       bulkUpgrading, warned, outside>>
    BY <1>3 DEF Install!Upgrade
  <2>2. Install!OneIsActive'
    BY <2>0, <2>1, InstallKeepsOne
  <2>3. jobs' \in [Install!Jobs -> Install!JobType]
    BY <2>0, <2>1, InstallBegins DEF Install!InstallsInv
  <2> QED
    BY <2>1, <2>2, <2>3, InstallTypesHave, InstallTypes
<1> QED
  BY <1>1, <1>2, <1>3

LEMMA InstallOfAll ==
  ASSUME Install!InstallsInv,
         Install!SplashInstallAll \/ Install!InstallAllMissing \/ Install!UpgradeAll
  PROVE  Install!InstallsInv'
<1>1. CASE Install!SplashInstallAll
  <2>1. /\ place = "splash" /\ Install!BeginAll(((Required \cap Winget) \ statuses) \ marked)
        /\ UNCHANGED <<place, present, statuses, marked, upgrading, bulkUpgrading, warned,
                       outside>>
    BY <1>1 DEF Install!SplashInstallAll
  <2>2. PICK t \in ((Required \cap Winget) \ statuses) \ marked :
          /\ Install!Begin("all", t, (((Required \cap Winget) \ statuses) \ marked) \ {t})
          /\ installing' = installing \cup {t} /\ bulkInstalling' = TRUE
    BY <2>1 DEF Install!BeginAll
  <2>3. t \in Tools /\ (((Required \cap Winget) \ statuses) \ marked) \ {t} \in SUBSET Tools
    BY ToolAssumption
  <2>4. Install!OneIsActive'
    BY <2>1, <2>2, <2>3, InstallKeepsOne
  <2>5. jobs' \in [Install!Jobs -> Install!JobType]
    BY <2>2, <2>3, InstallBegins DEF Install!InstallsInv
  <2>6. installing' \subseteq Tools \cup {"none"} /\ bulkInstalling' \in BOOLEAN
    BY <2>2, <2>3, InstallTypesHave
  <2> QED
    BY <2>1, <2>4, <2>5, <2>6, InstallTypesHave, InstallTypes
<1>2. CASE Install!InstallAllMissing
  <2>1. /\ installing = {} /\ Install!BeginAll(Tools \ statuses)
        /\ UNCHANGED <<place, present, statuses, marked, upgrading, bulkUpgrading, warned,
                       outside>>
    BY <1>2 DEF Install!InstallAllMissing
  <2>2. PICK t \in Tools \ statuses :
          /\ Install!Begin("all", t, (Tools \ statuses) \ {t})
          /\ installing' = installing \cup {t} /\ bulkInstalling' = TRUE
    BY <2>1 DEF Install!BeginAll
  <2>3. t \in Tools /\ (Tools \ statuses) \ {t} \in SUBSET Tools /\ installing' = {t}
    BY <2>1, <2>2
  <2>4. Install!OneIsActive'
    BY <2>1, <2>2, <2>3, InstallKeepsOne
  <2>5. jobs' \in [Install!Jobs -> Install!JobType]
    BY <2>2, <2>3, InstallBegins DEF Install!InstallsInv
  <2>6. installing' \subseteq Tools \cup {"none"} /\ bulkInstalling' \in BOOLEAN
    BY <2>2, <2>3
  <2> QED
    BY <2>1, <2>4, <2>5, <2>6, InstallTypesHave, InstallTypes
<1>3. CASE Install!UpgradeAll
  <2>0. "none" \in Tools \cup {"none"} /\ {} \in SUBSET Tools
    OBVIOUS
  <2>1. /\ Install!Begin("upgrade all", "none", {}) /\ bulkUpgrading' = TRUE
        /\ UNCHANGED <<place, present, statuses, installing, marked, bulkInstalling, upgrading,
                       warned, outside>>
    BY <1>3 DEF Install!UpgradeAll
  <2>2. Install!OneIsActive'
    BY <2>0, <2>1, InstallKeepsOne
  <2>3. jobs' \in [Install!Jobs -> Install!JobType]
    BY <2>0, <2>1, InstallBegins DEF Install!InstallsInv
  <2> QED
    BY <2>1, <2>2, <2>3, InstallTypesHave, InstallTypes
<1> QED
  BY <1>1, <1>2, <1>3

LEMMA InstallJobs ==
  ASSUME Install!InstallsInv, NEW j \in Install!Jobs, Install!JobStep(j)
  PROVE  Install!InstallsInv'
<1>1. ASSUME NEW ok \in BOOLEAN, Install!Installed(j, ok) PROVE Install!InstallsInv'
  BY <1>1, InstallAnswers
<1>2. CASE Install!Looks(j)
  <2>1. /\ UNCHANGED <<place, present, marked, upgrading, bulkUpgrading, warned, outside>>
        /\ statuses' \in {present, statuses}
    BY <1>2 DEF Install!Looks
  <2>2. CASE Install!Goes(j)
    <3>1. jobs[j].by \in {"row", "all"}
      BY <1>2, InstallTypesHave DEF Install!Looks, Install!JobType, Install!Installs
    <3>2. /\ jobs' \in [Install!Jobs -> Install!JobType]
          /\ installing' \subseteq Tools \cup {"none"} /\ bulkInstalling' \in BOOLEAN
          /\ Install!OneIsActive'
      BY <2>1, <2>2, <3>1, InstallGoes
    <3> QED
      BY <2>1, <3>2, InstallTypesHave, InstallTypes
  <2>3. CASE UNCHANGED <<jobs, installing, bulkInstalling>>
    <3>1. Install!OneIsActive'
      BY <2>1, <2>3, InstallStays
    <3> QED
      BY <2>1, <2>3, <3>1, InstallTypesHave, InstallTypes
  <2> QED
    BY <1>2, <2>2, <2>3 DEF Install!Looks
<1>3. ASSUME NEW ok \in BOOLEAN, Install!Upgraded(j, ok) PROVE Install!InstallsInv'
  <2>1. /\ jobs[j].by \in {"upgrade", "upgrade all"} /\ jobs' = [jobs EXCEPT ![j] = Install!Over]
        /\ UNCHANGED <<place, present, installing, marked, bulkInstalling, warned, outside>>
    BY <1>3 DEF Install!Upgraded
  <2>2. /\ upgrading' \in {upgrading, upgrading \ {jobs[j].tool}}
        /\ bulkUpgrading' \in {FALSE, bulkUpgrading} /\ statuses' \in {present, statuses}
    BY <1>3 DEF Install!Upgraded
  <2>3. Install!Over \in Install!JobType /\ ~Install!Over.here
    BY DEF Install!Over, Install!NoJob, Install!JobType, Install!JobFields, Install!Installs
  <2>4. jobs' \in [Install!Jobs -> Install!JobType]
    BY <2>1, <2>3 DEF Install!InstallsInv, Install!TypeOK
  <2>5. ~jobs'[j].here /\ \A i \in Install!Jobs \ {j} : jobs'[i] = jobs[i]
    BY <2>1, <2>3 DEF Install!InstallsInv, Install!TypeOK
  <2>6. Install!OneIsActive'
    <3>1. \A i \in Install!Jobs : jobs'[i].here => jobs'[i].from = place'
      BY <2>1, <2>5 DEF Install!InstallsInv, Install!OneIsActive
    <3>2. \A i \in Install!Jobs : Install!Active(i)' => Install!Active(i) /\ jobs'[i] = jobs[i]
      BY <2>5 DEF Install!Active
    <3>3. UNCHANGED <<place, installing>>
      BY <2>1
    <3> QED
      BY <3>1, <3>2, <3>3 DEF Install!InstallsInv, Install!OneIsActive
  <2> QED
    BY <2>1, <2>2, <2>4, <2>6, InstallTypesHave, InstallTypes
<1> QED
  BY <1>1, <1>2, <1>3 DEF Install!JobStep

LEMMA InstallUser ==
  ASSUME Install!InstallsInv,
         \/ \E t \in Tools : Install!Outside(t) \/ Install!ToggleMarked(t)
         \/ Install!Refresh \/ Install!Skip \/ UNCHANGED installVars
  PROVE  Install!InstallsInv'
<1>1. UNCHANGED <<place, jobs, installing, bulkInstalling, upgrading, bulkUpgrading>>
  BY DEF Install!Outside, Install!ToggleMarked, Install!Refresh, Install!Skip, installVars,
     Install!marks
<1>2. /\ present' \subseteq Tools /\ statuses' \subseteq Tools
      /\ marked' \subseteq Required /\ warned' \in BOOLEAN /\ outside' \in 0..MaxChanges
  <2>1. CASE \E t \in Tools : Install!Outside(t)
    BY <2>1, InstallTypesHave, BoundAssumption DEF Install!Outside, Install!marks
  <2>2. CASE \E t \in Tools : Install!ToggleMarked(t)
    BY <2>2, InstallTypesHave DEF Install!ToggleMarked
  <2>3. CASE Install!Refresh
    BY <2>3, InstallTypesHave DEF Install!Refresh, Install!marks
  <2>4. CASE Install!Skip
    BY <2>4, InstallTypesHave DEF Install!Skip
  <2>5. CASE UNCHANGED installVars
    BY <2>5, InstallTypesHave DEF installVars
  <2> QED
    BY <2>1, <2>2, <2>3, <2>4, <2>5
<1>3. Install!OneIsActive'
  BY <1>1, InstallStays
<1> QED
  BY <1>1, <1>2, <1>3, InstallTypesHave, InstallTypes

LEMMA InstallStep ==
  ASSUME Install!InstallsInv, [Install!Next]_installVars
  PROVE  Install!InstallsInv'
<1>1. CASE Install!Finish
  BY <1>1, InstallMounts DEF Install!Finish
<1>2. CASE Install!Navigate
  BY <1>2, InstallMounts DEF Install!Navigate
<1> QED
  BY <1>1, <1>2, InstallOfOne, InstallOfAll, InstallJobs, InstallUser DEF Install!Next

\* At most one job is active on the page, so at most one runs.
LEMMA InstallsOneByOne == Install!InstallsInv => Install!OneInstallOfThePage
<1> SUFFICES ASSUME Install!InstallsInv PROVE Cardinality(Install!Running("tools")) <= 1
  BY DEF Install!OneInstallOfThePage, Install!Cardinality, Cardinality
<1>1. CASE Install!Running("tools") = {}
  BY <1>1, FS_EmptySet
<1>2. ASSUME NEW j \in Install!Running("tools") PROVE Install!Running("tools") = {j}
  BY <1>2 DEF Install!Running, Install!InstallsInv, Install!OneIsActive, Install!Active,
     Install!Installs
<1>3. ASSUME NEW j \in Install!Running("tools")
      PROVE  Cardinality(Install!Running("tools")) <= 1
  <2>1. Install!Running("tools") = {j}
    BY <1>2
  <2>2. Cardinality({j}) = 1
    BY FS_Singleton
  <2> QED
    BY <2>1, <2>2
<1> QED
  BY <1>1, <1>3

(***************************************************************************)
(* The NAS panel of the Settings page.                                      *)
(***************************************************************************)

LEMMA NasInit == Nas!Init => Nas!NasInv
<1> SUFFICES ASSUME Nas!Init PROVE Nas!NasInv
  OBVIOUS
<1> USE DEF Nas!Init, Nas!Nothing
<1>1. Nas!TypeOK
  <2>1. Nas!Nothing \in Nas!NasType
    BY DEF Nas!NasType, Nas!Hosts
  <2>2. nasAnswers \in Seq(Nas!AnswerType) /\ rowsOf \in Seq(Nas!RowSet) /\ host \in Nas!Hosts
    BY DEF Nas!Hosts
  <2> QED
    BY <2>1, <2>2 DEF Nas!TypeOK
<1>2. Nas!OneShareOfADrive
  BY DEF Nas!OneShareOfADrive
<1>3. Nas!MirrorIsStored /\ Nas!CleanIsStored /\ Nas!AnswerIsCurrent
  BY DEF Nas!MirrorIsStored, Nas!CleanIsStored, Nas!AnswerIsCurrent
<1> QED
  BY <1>1, <1>2, <1>3 DEF Nas!NasInv

\* What an edit of the page changes.
LEMMA NasEdits ==
  ASSUME Nas!NasInv, NEW h \in Nas!Hosts, NEW list \in Seq(Nas!RowSet), Nas!NasEdit(h, list)
  PROVE  Nas!NasInv'
<1>1. /\ host' = h /\ rowsOf' = list /\ nasDirty' = TRUE /\ nasClicks' = nasClicks + 1
      /\ crossed' = (crossed \/ nasAnswers # <<>>)
      /\ UNCHANGED <<nasAnswers, nasStored, mirror, amiss, wizardRows, outdated, nasFaults>>
  BY DEF Nas!NasEdit, Nas!Click
<1>2. Nas!TypeOK'
  BY <1>1 DEF Nas!NasInv, Nas!TypeOK
<1>3. Nas!OneShareOfADrive'
  BY <1>1 DEF Nas!NasInv, Nas!OneShareOfADrive
<1>4. Nas!MirrorIsStored' /\ Nas!CleanIsStored' /\ Nas!AnswerIsCurrent'
  BY <1>1 DEF Nas!NasInv, Nas!MirrorIsStored, Nas!CleanIsStored, Nas!AnswerIsCurrent
<1> QED
  BY <1>2, <1>3, <1>4 DEF Nas!NasInv

LEMMA NasRaws == Nas!Mappings \subseteq Seq(Nas!RowSet)
<1> SUFFICES ASSUME NEW n \in 0..MaxRows, NEW list \in [1..n -> Nas!RowSet]
             PROVE  list \in Seq(Nas!RowSet)
  BY DEF Nas!Mappings
<1>1. n \in Nat
  BY BoundAssumption
<1> QED
  BY <1>1

LEMMA NasRemoves ==
  ASSUME NEW R, NEW list \in Seq(R), NEW i \in DOMAIN list
  PROVE  [j \in 1..(Len(list) - 1) |-> IF j < i THEN list[j] ELSE list[j + 1]] \in Seq(R)
<1> DEFINE n == Len(list) - 1
           less == [j \in 1..n |-> IF j < i THEN list[j] ELSE list[j + 1]]
<1>1. n \in Nat
  OBVIOUS
<1>2. \A j \in 1..n : (IF j < i THEN list[j] ELSE list[j + 1]) \in R
  OBVIOUS
<1>3. less \in [1..n -> R]
  BY <1>2
<1> QED
  BY <1>1, <1>3

LEMMA NasEdited ==
  ASSUME Nas!NasInv,
         \/ Nas!EditHost \/ Nas!AddRow \/ Nas!ApplyRaw
         \/ \E i \in DOMAIN rowsOf : Nas!UpdateRow(i) \/ Nas!RemoveRow(i)
  PROVE  Nas!NasInv'
<1>0. host \in Nas!Hosts /\ rowsOf \in Seq(Nas!RowSet)
  BY DEF Nas!NasInv, Nas!TypeOK
<1>1. CASE Nas!EditHost
  BY <1>0, <1>1, NasEdits DEF Nas!EditHost
<1>2. CASE Nas!AddRow
  <2>1. PICK d \in Nas!FirstFree : Nas!NasEdit(host, Append(rowsOf, [drive |-> d, share |-> ""]))
    BY <1>2 DEF Nas!AddRow
  <2>2. [drive |-> d, share |-> ""] \in Nas!RowSet
    BY DEF Nas!FirstFree, Nas!RowSet, Nas!Shares
  <2>3. \A r \in Nas!RowSet : Append(rowsOf, r) \in Seq(Nas!RowSet)
    BY <1>0
  <2> QED
    BY <1>0, <2>1, <2>2, <2>3, NasEdits
<1>3. CASE Nas!ApplyRaw
  BY <1>0, <1>3, NasRaws, NasEdits DEF Nas!ApplyRaw
<1>4. ASSUME NEW i \in DOMAIN rowsOf, Nas!UpdateRow(i) PROVE Nas!NasInv'
  <2>1. PICK r \in Nas!RowSet : Nas!NasEdit(host, [rowsOf EXCEPT ![i] = r])
    BY <1>4 DEF Nas!UpdateRow
  <2>2. [rowsOf EXCEPT ![i] = r] \in Seq(Nas!RowSet)
    BY <1>0
  <2> QED
    BY <1>0, <2>1, <2>2, NasEdits
<1>5. ASSUME NEW i \in DOMAIN rowsOf, Nas!RemoveRow(i) PROVE Nas!NasInv'
  BY <1>0, <1>5, NasRemoves, NasEdits DEF Nas!RemoveRow
<1> QED
  BY <1>1, <1>2, <1>3, <1>4, <1>5

LEMMA NasReverts ==
  ASSUME Nas!NasInv, Nas!RevertNas
  PROVE  Nas!NasInv'
<1> DEFINE answer == [is |-> "revert", ok |-> TRUE, now |-> nasStored]
<1>1. /\ nasAnswers' = Append(nasAnswers, answer) /\ crossed' = (nasAnswers # <<>>)
      /\ nasClicks' = nasClicks + 1 /\ outdated' = FALSE
      /\ UNCHANGED <<host, rowsOf, nasDirty, nasStored, mirror, amiss, wizardRows, nasFaults>>
  BY DEF Nas!RevertNas, Nas!Click, Nas!Crossing
<1>2. answer \in Nas!AnswerType
  BY DEF Nas!NasInv, Nas!TypeOK, Nas!AnswerType
<1>3. nasAnswers \in Seq(Nas!AnswerType)
  BY DEF Nas!NasInv, Nas!TypeOK
<1> HIDE DEF answer
<1>4. nasAnswers' \in Seq(Nas!AnswerType) /\ nasAnswers' # <<>>
  BY <1>1, <1>2, <1>3
<1>5. nasAnswers = <<>> => Len(nasAnswers') = 1 /\ Head(nasAnswers') = answer
  BY <1>1, <1>2, <1>3
<1>6. Nas!TypeOK'
  <2>1. nasClicks' \in Nat
    BY <1>1 DEF Nas!NasInv, Nas!TypeOK
  <2>2. crossed' \in BOOLEAN /\ outdated' \in BOOLEAN
    BY <1>1
  <2> QED
    BY <1>1, <1>4, <2>1, <2>2, Zenon DEF Nas!NasInv, Nas!TypeOK
<1>7. Nas!OneShareOfADrive' /\ Nas!MirrorIsStored'
  BY <1>1 DEF Nas!NasInv, Nas!OneShareOfADrive, Nas!MirrorIsStored
<1>8. Nas!CleanIsStored'
  BY <1>4 DEF Nas!CleanIsStored
<1>9. Nas!AnswerIsCurrent'
  <2>1. answer.is = "revert" /\ answer.ok /\ answer.now = nasStored
    BY DEF answer
  <2> QED
    BY <1>1, <1>5, <2>1 DEF Nas!AnswerIsCurrent
<1> QED
  BY <1>6, <1>7, <1>8, <1>9 DEF Nas!NasInv

\* What writeNasConfig leaves, whoever called it.
LEMMA NasWritten ==
  ASSUME Nas!NasInv, NEW new \in Nas!NasType, NEW outcome \in Nas!Outcomes,
         Nas!WriteNasConfig(new, outcome)
  PROVE  /\ nasStored' \in Nas!NasType /\ mirror' \in Nas!NasType
         /\ amiss' \in BOOLEAN /\ nasFaults' \in Nat
         /\ outcome \in Nas!Accepted => nasStored' = new
         /\ outcome = "refused" => UNCHANGED <<nasStored, amiss>>
         /\ outcome = "halfway" => amiss' /\ nasStored'.rows = nasStored.rows
         /\ Nas!MirrorIsStored'
<1>0. /\ nasStored \in Nas!NasType /\ mirror \in Nas!NasType /\ amiss \in BOOLEAN
      /\ nasFaults \in Nat
  BY DEF Nas!NasInv, Nas!TypeOK
<1>1. \/ outcome = "refused" /\ UNCHANGED <<nasStored, mirror, amiss>>
      \/ /\ outcome = "halfway" /\ amiss' = TRUE
         /\ nasStored' = [nasStored EXCEPT !.host = new.host] /\ UNCHANGED mirror
      \/ outcome = "unmirrored" /\ amiss' = TRUE /\ nasStored' = new /\ UNCHANGED mirror
      \/ outcome = "done" /\ amiss' = FALSE /\ nasStored' = new /\ mirror' = new
  BY DEF Nas!WriteNasConfig, Nas!Outcomes
<1>2. nasFaults' \in Nat
  BY <1>0 DEF Nas!WriteNasConfig
<1>3. CASE outcome = "refused"
  BY <1>0, <1>1, <1>2, <1>3 DEF Nas!Accepted, Nas!NasInv, Nas!MirrorIsStored
<1>4. CASE outcome = "halfway"
  <2>1. nasStored' \in Nas!NasType /\ nasStored'.rows = nasStored.rows
    BY <1>0, <1>1, <1>4 DEF Nas!NasType
  <2> QED
    BY <1>0, <1>1, <1>2, <1>4, <2>1 DEF Nas!Accepted, Nas!MirrorIsStored
<1>5. CASE outcome \in {"done", "unmirrored"}
  BY <1>0, <1>1, <1>2, <1>5 DEF Nas!Accepted, Nas!MirrorIsStored
<1> QED
  BY <1>3, <1>4, <1>5 DEF Nas!Outcomes

LEMMA NasSaves ==
  ASSUME Nas!NasInv, NEW outcome \in Nas!Outcomes, Nas!SaveNas(outcome)
  PROVE  Nas!NasInv'
<1> DEFINE new == [host |-> host, rows |-> rowsOf]
           answer == [is |-> "save", ok |-> outcome \in Nas!Accepted, now |-> nasStored']
<1>0. /\ new \in Nas!NasType /\ new.host = host /\ new.rows = rowsOf
      /\ nasAnswers \in Seq(Nas!AnswerType) /\ nasClicks \in Nat
  BY DEF Nas!NasInv, Nas!TypeOK, Nas!NasType
<1>1. /\ nasAnswers' = Append(nasAnswers, answer) /\ crossed' = (nasAnswers # <<>>)
      /\ nasDirty /\ Nas!EditorValid(rowsOf) /\ nasClicks' = nasClicks + 1
      /\ wizardRows' = (wizardRows /\ outcome \notin Nas!Accepted)
      /\ outdated' = (outdated /\ outcome \notin Nas!Accepted)
      /\ UNCHANGED <<host, rowsOf, nasDirty>>
      /\ Nas!WriteNasConfig(new, outcome)
  BY DEF Nas!SaveNas, Nas!Crossing, Nas!Click
<1> HIDE DEF new
<1>2. /\ nasStored' \in Nas!NasType /\ mirror' \in Nas!NasType
      /\ amiss' \in BOOLEAN /\ nasFaults' \in Nat
      /\ outcome \in Nas!Accepted => nasStored' = new
      /\ outcome = "refused" => UNCHANGED <<nasStored, amiss>>
      /\ outcome = "halfway" => amiss' /\ nasStored'.rows = nasStored.rows
      /\ Nas!MirrorIsStored'
  BY <1>0, <1>1, NasWritten
<1>3. outcome \notin Nas!Accepted => nasStored'.rows = nasStored.rows
  BY <1>2 DEF Nas!Outcomes, Nas!Accepted
<1>4. answer \in Nas!AnswerType
  BY <1>2 DEF Nas!AnswerType
<1>5. /\ answer.is = "save" /\ answer.ok = (outcome \in Nas!Accepted)
      /\ answer.ok => host' = nasStored'.host /\ rowsOf' = nasStored'.rows
  BY <1>0, <1>1, <1>2
<1> HIDE DEF answer
<1>6. nasAnswers' \in Seq(Nas!AnswerType) /\ nasAnswers' # <<>>
  BY <1>0, <1>1, <1>4
<1>7. nasAnswers = <<>> => Len(nasAnswers') = 1 /\ Head(nasAnswers') = answer
  BY <1>0, <1>1, <1>4
<1>8. Nas!TypeOK'
  <2>1. nasClicks' \in Nat
    BY <1>0, <1>1
  <2>2. crossed' \in BOOLEAN /\ wizardRows' \in BOOLEAN /\ outdated' \in BOOLEAN
    BY <1>1
  <2> QED
    BY <1>1, <1>2, <1>6, <2>1, <2>2, Zenon DEF Nas!NasInv, Nas!TypeOK
<1>9. Nas!OneShareOfADrive'
  <2>1. CASE outcome \in Nas!Accepted
    <3>1. nasStored'.rows = rowsOf
      BY <1>0, <1>2, <2>1
    <3> QED
      BY <1>1, <3>1 DEF Nas!OneShareOfADrive, Nas!EditorValid
  <2>2. CASE outcome \notin Nas!Accepted
    BY <1>1, <1>3, <2>2 DEF Nas!NasInv, Nas!OneShareOfADrive
  <2> QED
    BY <2>1, <2>2
<1>11. Nas!CleanIsStored'
  BY <1>6 DEF Nas!CleanIsStored
<1>12. Nas!AnswerIsCurrent'
  <2> SUFFICES ASSUME ~crossed', ~amiss', nasAnswers' # <<>> PROVE Nas!AnswerIsCurrent'
    BY DEF Nas!AnswerIsCurrent
  <2>1. Len(nasAnswers') = 1 /\ Head(nasAnswers') = answer
    BY <1>1, <1>7
  <2>2. Nas!PageIs(nasStored)' \/ ~answer.ok
    BY <1>5 DEF Nas!PageIs
  <2> QED
    BY <1>1, <1>5, <2>1, <2>2 DEF Nas!AnswerIsCurrent
<1> QED
  BY <1>2, <1>8, <1>9, <1>11, <1>12 DEF Nas!NasInv

\* The wizard writes under the page: the page is out of date from then on.
LEMMA NasWizards ==
  ASSUME Nas!NasInv, NEW h \in Nas!Hosts, NEW list \in Nas!Mappings,
         NEW outcome \in Nas!Outcomes, Nas!WizardSavesNas(h, list, outcome)
  PROVE  Nas!NasInv'
<1> DEFINE new == [host |-> h, rows |-> list]
<1>0. new \in Nas!NasType
  BY NasRaws DEF Nas!NasType
<1>1. /\ nasClicks' = nasClicks + 1 /\ Nas!WriteNasConfig(new, outcome)
      /\ wizardRows' = (wizardRows \/ outcome \in Nas!Accepted)
      /\ outdated' = (outdated \/ outcome # "refused")
      /\ UNCHANGED <<host, rowsOf, nasDirty, nasAnswers, crossed>>
  BY DEF Nas!WizardSavesNas, Nas!Click
<1> HIDE DEF new
<1>2. /\ nasStored' \in Nas!NasType /\ mirror' \in Nas!NasType
      /\ amiss' \in BOOLEAN /\ nasFaults' \in Nat
      /\ outcome = "refused" => UNCHANGED <<nasStored, amiss>>
      /\ outcome = "halfway" => nasStored'.rows = nasStored.rows
      /\ Nas!MirrorIsStored'
  BY <1>0, <1>1, NasWritten
<1>3. Nas!TypeOK'
  <2>1. nasClicks' \in Nat
    BY <1>1 DEF Nas!NasInv, Nas!TypeOK
  <2>2. wizardRows' \in BOOLEAN /\ outdated' \in BOOLEAN
    BY <1>1
  <2> QED
    BY <1>1, <1>2, <2>1, <2>2, Zenon DEF Nas!NasInv, Nas!TypeOK
<1>4. Nas!OneShareOfADrive'
  <2>1. wizardRows' \/ nasStored'.rows = nasStored.rows
    BY <1>1, <1>2 DEF Nas!Outcomes, Nas!Accepted
  <2>2. wizardRows => wizardRows'
    BY <1>1
  <2> QED
    BY <2>1, <2>2 DEF Nas!NasInv, Nas!OneShareOfADrive
<1>5. CASE outcome = "refused"
  <2>1. outdated => outdated'
    BY <1>1
  <2>2. UNCHANGED <<host, rowsOf, nasDirty, nasAnswers, crossed, nasStored, amiss>>
    BY <1>1, <1>2, <1>5
  <2>3. Nas!CleanIsStored'
    BY <2>1, <2>2 DEF Nas!NasInv, Nas!CleanIsStored
  <2>4. Nas!AnswerIsCurrent'
    BY <2>1, <2>2 DEF Nas!NasInv, Nas!AnswerIsCurrent, Nas!PageIs
  <2> QED
    BY <1>2, <1>3, <1>4, <2>3, <2>4 DEF Nas!NasInv
<1>6. CASE outcome # "refused"
  <2>1. Nas!CleanIsStored' /\ Nas!AnswerIsCurrent'
    BY <1>1, <1>6 DEF Nas!CleanIsStored, Nas!AnswerIsCurrent
  <2> QED
    BY <1>2, <1>3, <1>4, <2>1 DEF Nas!NasInv
<1> QED
  BY <1>5, <1>6

LEMMA NasAnswers ==
  ASSUME Nas!NasInv, Nas!NasAnswered
  PROVE  Nas!NasInv'
<1> DEFINE answer == Head(nasAnswers)
<1>0. nasAnswers \in Seq(Nas!AnswerType) /\ nasAnswers # <<>>
  BY DEF Nas!NasInv, Nas!TypeOK, Nas!NasAnswered
<1>1. /\ nasDirty' = (nasDirty /\ ~answer.ok) /\ nasAnswers' = Tail(nasAnswers)
      /\ \/ answer.is = "revert" /\ host' = answer.now.host /\ rowsOf' = answer.now.rows
         \/ answer.is # "revert" /\ UNCHANGED <<host, rowsOf>>
      /\ UNCHANGED <<nasStored, mirror, amiss, crossed, wizardRows, outdated, nasClicks,
                     nasFaults>>
  BY DEF Nas!NasAnswered, Nas!DirtyAfter
<1>2. answer \in Nas!AnswerType
  BY <1>0
<1>3. nasAnswers' \in Seq(Nas!AnswerType) /\ (Len(nasAnswers) = 1 => nasAnswers' = <<>>)
  BY <1>0, <1>1
<1>4. ~crossed /\ ~amiss /\ ~outdated =>
        /\ Len(nasAnswers) = 1
        /\ IF answer.is = "revert" THEN answer.ok /\ answer.now = nasStored
           ELSE IF answer.ok THEN Nas!PageIs(nasStored) ELSE nasDirty
  BY <1>0 DEF Nas!NasInv, Nas!AnswerIsCurrent
<1> HIDE DEF answer
<1>5. Nas!TypeOK'
  <2>1. host' \in Nas!Hosts /\ rowsOf' \in Seq(Nas!RowSet)
    BY <1>1, <1>2 DEF Nas!NasInv, Nas!TypeOK, Nas!AnswerType, Nas!NasType
  <2>2. nasDirty' \in BOOLEAN
    BY <1>1
  <2> QED
    BY <1>1, <1>3, <2>1, <2>2, Zenon DEF Nas!NasInv, Nas!TypeOK
<1>6. Nas!OneShareOfADrive' /\ Nas!MirrorIsStored'
  BY <1>1 DEF Nas!NasInv, Nas!OneShareOfADrive, Nas!MirrorIsStored
<1>7. Nas!CleanIsStored'
  BY <1>1, <1>4 DEF Nas!CleanIsStored, Nas!PageIs
<1>8. Nas!AnswerIsCurrent'
  BY <1>1, <1>3, <1>4 DEF Nas!AnswerIsCurrent
<1> QED
  BY <1>5, <1>6, <1>7, <1>8 DEF Nas!NasInv

LEMMA NasLaunches ==
  ASSUME Nas!NasInv, Nas!NasLaunch
  PROVE  Nas!NasInv'
<1>1. /\ host' = nasStored.host /\ rowsOf' = nasStored.rows /\ nasDirty' = FALSE
      /\ nasAnswers' = <<>> /\ crossed' = FALSE /\ nasClicks' = nasClicks + 1
      /\ \/ mirror' = nasStored /\ amiss' = FALSE
         \/ UNCHANGED <<mirror, amiss>>
      /\ outdated' = FALSE
      /\ UNCHANGED <<nasStored, wizardRows, nasFaults>>
  BY DEF Nas!NasLaunch, Nas!Click
<1>2. Nas!TypeOK'
  <2>1. /\ host' \in Nas!Hosts /\ rowsOf' \in Seq(Nas!RowSet) /\ mirror' \in Nas!NasType
        /\ nasStored' \in Nas!NasType
    BY <1>1 DEF Nas!NasInv, Nas!TypeOK, Nas!NasType
  <2>2. /\ nasAnswers' \in Seq(Nas!AnswerType) /\ nasClicks' \in Nat /\ nasFaults' \in Nat
    BY <1>1 DEF Nas!NasInv, Nas!TypeOK
  <2>3. /\ nasDirty' \in BOOLEAN /\ crossed' \in BOOLEAN /\ amiss' \in BOOLEAN
        /\ wizardRows' \in BOOLEAN /\ outdated' \in BOOLEAN
    BY <1>1 DEF Nas!NasInv, Nas!TypeOK
  <2> QED
    BY <2>1, <2>2, <2>3 DEF Nas!TypeOK
<1>3. Nas!OneShareOfADrive' /\ Nas!MirrorIsStored'
  BY <1>1 DEF Nas!NasInv, Nas!OneShareOfADrive, Nas!MirrorIsStored
<1>4. Nas!CleanIsStored' /\ Nas!AnswerIsCurrent'
  BY <1>1 DEF Nas!CleanIsStored, Nas!AnswerIsCurrent
<1> QED
  BY <1>2, <1>3, <1>4 DEF Nas!NasInv

LEMMA NasStep ==
  ASSUME Nas!NasInv, [Nas!Next]_nasVars
  PROVE  Nas!NasInv'
<1>1. CASE UNCHANGED nasVars
  BY <1>1 DEF nasVars, Nas!NasInv, Nas!TypeOK, Nas!OneShareOfADrive, Nas!MirrorIsStored,
     Nas!CleanIsStored, Nas!AnswerIsCurrent, Nas!PageIs
<1> QED
  BY <1>1, NasEdited, NasReverts, NasSaves, NasWizards, NasAnswers, NasLaunches DEF Nas!Next

(***************************************************************************)
(* The Settings page.                                                       *)
(***************************************************************************)

LEMMA SettingInit == Setting!Init => Setting!SettingInv
<1> SUFFICES ASSUME Setting!Init PROVE Setting!SettingInv
  OBVIOUS
<1> USE DEF Setting!Init
<1>1. Setting!TypeOK
  <2>1. kept \in Setting!SettingTable /\ copy \in Setting!SettingTable
    BY DEF Setting!SettingTable
  <2>2. tests \in [Setting!Presses -> Setting!TestType]
    BY DEF Setting!TestType
  <2>3. sends \in Seq(Setting!SendType) /\ connecting \in Setting!SettingKeys \cup {"no", "testing"}
    OBVIOUS
  <2>4. panelBusy \in BOOLEAN /\ tgTestPending \in BOOLEAN 
        /\ lost \subseteq Setting!SettingKeys /\ overwritten \subseteq Setting!SettingKeys
    OBVIOUS
  <2>5. clock \in Nat /\ lastGood \in Nat /\ presses \in Nat /\ saveFaults \in Nat
    OBVIOUS
  <2> QED
    BY <2>1, <2>2, <2>3, <2>4, <2>5, Zenon DEF Setting!TypeOK
<1>2. Setting!HandledInOrder /\ Setting!CopyFollows
  BY DEF Setting!HandledInOrder, Setting!CopyFollows, Setting!Telling
<1>3. Setting!PollsAreTrue /\ Setting!VerifiedIsTapped
  BY DEF Setting!PollsAreTrue, Setting!VerifiedIsTapped, Setting!NoTest
<1> QED
  BY <1>1, <1>2, <1>3 DEF Setting!SettingInv

\* Calls that are made are the last to be handled, and change nothing before.
LEMMA SettingSends ==
  ASSUME Setting!SettingInv, NEW more \in Seq(Setting!SendType),
         \A i \in DOMAIN more :
           more[i].at = "asked" /\ (more[i].by = "panel" <=> more[i].key = "panel"),
         sends' = sends \o more, UNCHANGED <<kept, copy, lost, overwritten>>
  PROVE  sends' \in Seq(Setting!SendType) /\ Setting!HandledInOrder' /\ Setting!CopyFollows'
<1>0. sends \in Seq(Setting!SendType) /\ Setting!HandledInOrder /\ Setting!CopyFollows
  BY DEF Setting!SettingInv, Setting!TypeOK
<1>1. sends' \in Seq(Setting!SendType)
  BY <1>0
<1>2. \A i \in DOMAIN sends : i \in DOMAIN sends' /\ sends'[i] = sends[i]
  BY <1>0
<1>3. \A i \in DOMAIN sends' : i \in DOMAIN sends \/
        (sends'[i].at = "asked" /\ (sends'[i].by = "panel" <=> sends'[i].key = "panel")
         /\ \A j \in DOMAIN sends : j < i)
  <2> SUFFICES ASSUME NEW i \in DOMAIN sends', i \notin DOMAIN sends
               PROVE  sends'[i].at = "asked" /\ (sends'[i].by = "panel" <=> sends'[i].key = "panel")
                      /\ \A j \in DOMAIN sends : j < i
    OBVIOUS
  <2>1. i - Len(sends) \in DOMAIN more /\ sends'[i] = more[i - Len(sends)]
    BY <1>0
  <2>2. \A j \in DOMAIN sends : j < i
    BY <1>0
  <2> QED
    BY <2>1, <2>2
<1>4. Setting!HandledInOrder'
  BY <1>0, <1>1, <1>2, <1>3 DEF Setting!HandledInOrder
<1>5. \A k \in Setting!SettingKeys : Setting!Telling(k)' = Setting!Telling(k)
  BY <1>2, <1>3 DEF Setting!Telling
<1>6. \A k \in Setting!SettingKeys : \A i \in Setting!Telling(k) : sends'[i] = sends[i]
  BY <1>2 DEF Setting!Telling
<1>7. Setting!CopyFollows'
  <2> SUFFICES ASSUME NEW k \in Setting!SettingKeys, Setting!Vouched(k)
               PROVE  /\ Setting!Telling(k) = {} => copy[k] = kept[k]
                      /\ \A i \in Setting!Telling(k) :
                           (\A j \in Setting!Telling(k) : j <= i) => sends'[i].value = kept[k]
    BY <1>5, Zenon DEF Setting!CopyFollows, Setting!Vouched
  <2>1. /\ Setting!Telling(k) = {} => copy[k] = kept[k]
        /\ \A i \in Setting!Telling(k) :
             (\A j \in Setting!Telling(k) : j <= i) => sends[i].value = kept[k]
    BY <1>0, Zenon DEF Setting!CopyFollows
  <2>2. \A i \in Setting!Telling(k) : sends'[i] = sends[i]
    BY <1>6, Zenon
  <2> QED
    BY ONLY <2>1, <2>2, Zenon
<1> QED
  BY <1>1, <1>4, <1>7

LEMMA SettingSendsOne ==
  ASSUME Setting!SettingInv, NEW k \in Setting!SettingKeys, NEW v \in {0, 1},
         NEW by \in {"box", "connect", "panel"}, by = "panel" <=> k = "panel",
         sends' = Append(sends, Setting!Sent(k, v, by)), UNCHANGED <<kept, copy, lost, overwritten>>
  PROVE  sends' \in Seq(Setting!SendType) /\ Setting!HandledInOrder' /\ Setting!CopyFollows'
<1> DEFINE e == Setting!Sent(k, v, by)
<1>1. e \in Setting!SendType /\ e.at = "asked" /\ (e.by = "panel" <=> e.key = "panel")
  BY DEF Setting!Sent, Setting!SendType, Setting!SettingInv, Setting!TypeOK
<1> HIDE DEF e
<1>2. <<e>> \in Seq(Setting!SendType) /\ DOMAIN <<e>> = {1} /\ <<e>>[1] = e
  BY <1>1
<1>3. sends \in Seq(Setting!SendType)
  BY DEF Setting!SettingInv, Setting!TypeOK
<1>4. sends' = sends \o <<e>>
  BY <1>1, <1>3 DEF e
<1> QED
  BY <1>1, <1>2, <1>4, SettingSends

\* What neither sends nor tests does not touch.
LEMMA SettingTests ==
  ASSUME Setting!SettingInv, UNCHANGED <<tests, lastGood>>
  PROVE  Setting!PollsAreTrue' /\ Setting!VerifiedIsTapped'
  BY DEF Setting!SettingInv, Setting!PollsAreTrue, Setting!VerifiedIsTapped

LEMMA SettingStays ==
  ASSUME Setting!SettingInv, UNCHANGED <<sends, kept, copy, lost, overwritten>>
  PROVE  Setting!HandledInOrder' /\ Setting!CopyFollows'
  BY DEF Setting!SettingInv, Setting!HandledInOrder, Setting!CopyFollows, Setting!Telling,
         Setting!Vouched

LEMMA SettingClicks ==
  ASSUME Setting!SettingInv,
         \/ Setting!ToggleSetting \/ Setting!ConnectTelegram \/ Setting!Disconnect
         \/ Setting!TogglePanel \/ \E ok \in BOOLEAN : Setting!TelegramTested(ok)
  PROVE  Setting!SettingInv'
<1>0. /\ copy \in Setting!SettingTable /\ presses \in Nat /\ Setting!TypeOK
      /\ \A k \in Setting!SettingKeys : 1 - copy[k] \in {0, 1}
  BY DEF Setting!SettingInv, Setting!TypeOK, Setting!SettingTable
<1>1. CASE Setting!ToggleSetting
  <2>1. sends' = Append(sends, Setting!Sent("tg_on", 1 - copy["tg_on"], "box"))
    BY <1>1 DEF Setting!ToggleSetting
  <2>2. /\ presses' \in Nat
        /\ UNCHANGED <<kept, copy, connecting, panelBusy, tgTestPending, tests, clock, lastGood,
                       saveFaults, lost, overwritten>>
    BY <1>0, <1>1 DEF Setting!ToggleSetting, Setting!Press
  <2>3. sends' \in Seq(Setting!SendType) /\ Setting!HandledInOrder' /\ Setting!CopyFollows'
    <3>1. "tg_on" \in Setting!SettingKeys /\ 1 - copy["tg_on"] \in {0, 1}
      BY <1>0 DEF Setting!SettingKeys
    <3> QED
      BY <2>1, <2>2, <3>1, SettingSendsOne
  <2>4. Setting!TypeOK'
    BY <1>0, <2>2, <2>3, Zenon DEF Setting!TypeOK
  <2> QED
    BY <2>2, <2>3, <2>4, SettingTests DEF Setting!SettingInv
<1>2. CASE Setting!ConnectTelegram
  <2>1. /\ presses' \in Nat /\ connecting' = "testing"
        /\ UNCHANGED <<kept, copy, sends, panelBusy, tgTestPending, tests, clock, lastGood,
                       saveFaults, lost, overwritten>>
    BY <1>0, <1>2 DEF Setting!ConnectTelegram, Setting!Press
  <2>2. Setting!TypeOK'
    BY <1>0, <2>1, Zenon DEF Setting!TypeOK
  <2> QED
    BY <2>1, <2>2, SettingTests, SettingStays DEF Setting!SettingInv
<1>3. CASE Setting!Disconnect
  <2> DEFINE more == <<Setting!Sent("tg_token", 0, "box"), Setting!Sent("tg_chat", 0, "box"),
                       Setting!Sent("tg_on", 0, "box")>>
  <2>1. /\ presses' \in Nat /\ sends' = sends \o more
        /\ UNCHANGED <<kept, copy, connecting, panelBusy, tgTestPending, tests, clock, lastGood,
                       saveFaults, lost, overwritten>>
    BY <1>0, <1>3 DEF Setting!Disconnect, Setting!Press
  <2>2. \A k \in {"tg_token", "tg_chat", "tg_on"} :
          /\ Setting!Sent(k, 0, "box") \in Setting!SendType
          /\ Setting!Sent(k, 0, "box").at = "asked"
          /\ Setting!Sent(k, 0, "box").by = "panel" <=> Setting!Sent(k, 0, "box").key = "panel"
    BY <1>0 DEF Setting!Sent, Setting!SendType, Setting!SettingKeys
  <2>3. /\ more \in Seq(Setting!SendType)
        /\ \A i \in DOMAIN more :
             more[i].at = "asked" /\ (more[i].by = "panel" <=> more[i].key = "panel")
    BY <2>2
  <2> HIDE DEF more
  <2>4. sends' \in Seq(Setting!SendType) /\ Setting!HandledInOrder' /\ Setting!CopyFollows'
    BY <2>1, <2>3, SettingSends
  <2>5. Setting!TypeOK'
    BY <1>0, <2>1, <2>4, Zenon DEF Setting!TypeOK
  <2> QED
    BY <2>1, <2>4, <2>5, SettingTests DEF Setting!SettingInv
<1>4. CASE Setting!TogglePanel
  <2>1. sends' = Append(sends, Setting!Sent("panel", 1 - copy["panel"], "panel"))
    BY <1>4 DEF Setting!TogglePanel
  <2>2. /\ presses' \in Nat /\ panelBusy' = TRUE
        /\ UNCHANGED <<kept, copy, connecting, tgTestPending, tests, clock, lastGood,
                       saveFaults, lost, overwritten>>
    BY <1>0, <1>4 DEF Setting!TogglePanel, Setting!Press
  <2>3. sends' \in Seq(Setting!SendType) /\ Setting!HandledInOrder' /\ Setting!CopyFollows'
    <3>1. "panel" \in Setting!SettingKeys /\ 1 - copy["panel"] \in {0, 1}
      BY <1>0 DEF Setting!SettingKeys
    <3> QED
      BY <2>1, <2>2, <3>1, SettingSendsOne
  <2>4. Setting!TypeOK'
    BY <1>0, <2>2, <2>3, Zenon DEF Setting!TypeOK
  <2> QED
    BY <2>2, <2>3, <2>4, SettingTests DEF Setting!SettingInv
<1>5. ASSUME NEW ok \in BOOLEAN, Setting!TelegramTested(ok) PROVE Setting!SettingInv'
  <2>1. /\ UNCHANGED <<kept, copy, panelBusy, tgTestPending, tests, clock, lastGood, presses,
                       saveFaults, lost, overwritten>>
        /\ \/ sends' = Append(sends, Setting!Sent("tg_token", 1, "connect"))
           \/ sends' = sends
    BY <1>5 DEF Setting!TelegramTested
  <2>2. connecting' \in Setting!SettingKeys \cup {"no", "testing"}
    BY <1>5 DEF Setting!TelegramTested, Setting!SettingKeys
  <2>3. sends' \in Seq(Setting!SendType) /\ Setting!HandledInOrder' /\ Setting!CopyFollows'
    <3>1. CASE sends' = sends
      BY <1>0, <2>1, <3>1, SettingStays DEF Setting!TypeOK
    <3>2. CASE sends' = Append(sends, Setting!Sent("tg_token", 1, "connect"))
      <4>1. "tg_token" \in Setting!SettingKeys
        BY DEF Setting!SettingKeys
      <4> QED
        BY <2>1, <3>2, <4>1, SettingSendsOne
    <3> QED
      BY <2>1, <3>1, <3>2
  <2>4. Setting!TypeOK'
    BY <1>0, <2>1, <2>2, <2>3, Zenon DEF Setting!TypeOK
  <2> QED
    BY <2>1, <2>3, <2>4, SettingTests DEF Setting!SettingInv
<1> QED
  BY <1>1, <1>2, <1>3, <1>4, <1>5

\* The wizard stores a key: what the page shows of it is vouched for no more.
LEMMA SettingWizard ==
  ASSUME Setting!SettingInv, NEW k \in Setting!SettingKeys, NEW v \in {0, 1},
         Setting!WizardStores(k, v)
  PROVE  Setting!SettingInv'
<1>0. /\ kept \in Setting!SettingTable /\ overwritten \subseteq Setting!SettingKeys
      /\ presses \in Nat
      /\ Setting!TypeOK /\ Setting!HandledInOrder /\ Setting!CopyFollows
  BY DEF Setting!SettingInv, Setting!TypeOK
<1>1. UNCHANGED <<copy, sends, connecting, panelBusy, tgTestPending, tests, clock, lastGood,
                  saveFaults, lost>>
  BY DEF Setting!WizardStores
<1>2. /\ kept' \in Setting!SettingTable
      /\ \A h \in Setting!SettingKeys : h # k => kept'[h] = kept[h]
  BY <1>0 DEF Setting!WizardStores, Setting!SettingTable
<1>3. overwritten' \subseteq Setting!SettingKeys /\ overwritten' = overwritten \cup {k}
  BY <1>0 DEF Setting!WizardStores
<1>4. presses' \in Nat
  BY <1>0 DEF Setting!WizardStores, Setting!Press
<1>5. Setting!TypeOK'
  BY <1>0, <1>1, <1>2, <1>3, <1>4, Zenon DEF Setting!TypeOK
<1>6. Setting!HandledInOrder'
  BY <1>0, <1>1 DEF Setting!HandledInOrder
<1>7. Setting!CopyFollows'
  <2> SUFFICES ASSUME NEW h \in Setting!SettingKeys, Setting!Vouched(h)'
               PROVE  /\ Setting!Telling(h)' = {} => copy'[h] = kept'[h]
                      /\ \A m \in Setting!Telling(h)' :
                           (\A j \in Setting!Telling(h)' : j <= m) => sends'[m].value = kept'[h]
    BY DEF Setting!CopyFollows
  <2>1. Setting!Vouched(h) /\ kept'[h] = kept[h]
    BY <1>1, <1>2, <1>3 DEF Setting!Vouched
  <2>2. Setting!Telling(h)' = Setting!Telling(h)
    BY <1>1 DEF Setting!Telling
  <2> QED
    BY <1>0, <1>1, <2>1, <2>2 DEF Setting!CopyFollows
<1> QED
  BY <1>1, <1>5, <1>6, <1>7, SettingTests DEF Setting!SettingInv

\* The oldest call that is not handled is handled: of its key it is the last that is.
LEMMA SettingHandles ==
  ASSUME Setting!SettingInv, NEW ok \in BOOLEAN, Setting!HandleSave(ok)
  PROVE  Setting!SettingInv'
<1>0. /\ sends \in Seq(Setting!SendType) /\ kept \in Setting!SettingTable /\ saveFaults \in Nat
      /\ lost \subseteq Setting!SettingKeys /\ overwritten \subseteq Setting!SettingKeys
      /\ Setting!TypeOK /\ Setting!HandledInOrder /\ Setting!CopyFollows
  BY DEF Setting!SettingInv, Setting!TypeOK
<1>1. PICK i \in DOMAIN sends :
        /\ sends[i].at = "asked"
        /\ \A j \in DOMAIN sends : sends[j].at = "asked" => i <= j
        /\ saveFaults' = IF ok THEN saveFaults ELSE saveFaults + 1
        /\ kept' = IF ok THEN [kept EXCEPT ![sends[i].key] = sends[i].value] ELSE kept
        /\ lost' = IF ok THEN lost \ {sends[i].key} ELSE lost \cup {sends[i].key}
        /\ overwritten' = IF ok THEN overwritten \ {sends[i].key} ELSE overwritten
        /\ sends' = [sends EXCEPT ![i].at = IF ok THEN "success" ELSE "error"]
        /\ UNCHANGED <<copy, connecting, panelBusy, tgTestPending, tests, clock, lastGood, presses>>
  BY DEF Setting!HandleSave, Setting!Unhandled
<1>2. PICK c \in Setting!SendType : c = sends[i]
  BY <1>0
<1>3. /\ sends' \in Seq(Setting!SendType) /\ DOMAIN sends' = DOMAIN sends
      /\ sends'[i].at = (IF ok THEN "success" ELSE "error")
      /\ sends'[i].key = c.key /\ sends'[i].value = c.value /\ sends'[i].by = c.by
      /\ \A j \in DOMAIN sends \ {i} : sends'[j] = sends[j]
  <2> DEFINE d == [c EXCEPT !.at = IF ok THEN "success" ELSE "error"]
  <2>1. sends' = [sends EXCEPT ![i] = d]
    BY <1>1, <1>2
  <2>2. d \in Setting!SendType
    BY <1>2 DEF Setting!SendType
  <2>3. /\ d.at = (IF ok THEN "success" ELSE "error")
        /\ d.key = c.key /\ d.value = c.value /\ d.by = c.by
    BY <1>2 DEF Setting!SendType
  <2> HIDE DEF d
  <2> QED
    BY <1>0, <2>1, <2>2, <2>3
<1>4. /\ kept' \in Setting!SettingTable
      /\ \A k \in Setting!SettingKeys \ {c.key} : kept'[k] = kept[k]
      /\ ok => kept'[c.key] = c.value
      /\ ~ok => kept' = kept
  BY <1>0, <1>1, <1>2 DEF Setting!SettingTable, Setting!SendType
<1>5. /\ lost' \subseteq Setting!SettingKeys
      /\ \A k \in Setting!SettingKeys \ {c.key} : k \in lost' <=> k \in lost
      /\ ~ok => c.key \in lost'
      /\ overwritten' \subseteq Setting!SettingKeys
      /\ \A k \in Setting!SettingKeys \ {c.key} : k \in overwritten' <=> k \in overwritten
      /\ ~ok => overwritten' = overwritten
  BY <1>0, <1>1, <1>2 DEF Setting!SendType
<1>6. Setting!HandledInOrder'
  BY <1>0, <1>1, <1>2, <1>3 DEF Setting!HandledInOrder
<1>7. \A j \in DOMAIN sends : sends[j].at # "asked" => j < i
  BY <1>0, <1>1 DEF Setting!HandledInOrder
<1>8. \A k \in Setting!SettingKeys \ {c.key} : Setting!Telling(k)' = Setting!Telling(k)
  BY <1>2, <1>3 DEF Setting!Telling
<1>9. ok => i \in Setting!Telling(c.key)' /\ \A j \in Setting!Telling(c.key)' : j <= i
  <2> SUFFICES ASSUME ok
               PROVE  i \in Setting!Telling(c.key)' /\ \A j \in Setting!Telling(c.key)' : j <= i
    OBVIOUS
  <2>1. i \in DOMAIN sends' /\ sends'[i].key = c.key /\ sends'[i].at = "success"
    BY <1>3
  <2>2. i \in Setting!Telling(c.key)'
    BY <2>1 DEF Setting!Telling
  <2>3. \A j \in DOMAIN sends' \ {i} : sends'[j].at # "asked" => j < i
    BY <1>3, <1>7
  <2>4. \A j \in Setting!Telling(c.key)' : j <= i
    BY <1>0, <1>3, <2>3 DEF Setting!Telling
  <2> QED
    BY <2>2, <2>4
<1>10. ~ok /\ c.key = "panel" => Setting!Telling(c.key)' = Setting!Telling(c.key)
  BY <1>1, <1>2, <1>3 DEF Setting!Telling
<1>11. \A k \in Setting!SettingKeys : \A j \in Setting!Telling(k) : j # i
  BY <1>1 DEF Setting!Telling
<1>12. Setting!CopyFollows'
  <2> SUFFICES ASSUME NEW k \in Setting!SettingKeys, Setting!Vouched(k)'
               PROVE  /\ Setting!Telling(k)' = {} => copy'[k] = kept'[k]
                      /\ \A m \in Setting!Telling(k)' :
                           (\A j \in Setting!Telling(k)' : j <= m) => sends'[m].value = kept'[k]
    BY DEF Setting!CopyFollows
  <2>1. CASE k # c.key \/ ~ok
    <3>0. k = c.key => c.key = "panel"
      BY <1>5, <2>1 DEF Setting!Vouched
    <3>1. Setting!Telling(k)' = Setting!Telling(k)
      <4>1. CASE k = c.key
        BY <1>10, <2>1, <3>0, <4>1
      <4>2. CASE k # c.key
        BY <1>8, <4>2
      <4> QED
        BY <4>1, <4>2
    <3>4. kept'[k] = kept[k] /\ copy'[k] = copy[k]
      BY <1>1, <1>4, <2>1
    <3>2. Setting!Vouched(k)
      BY <1>5, <2>1, <3>0 DEF Setting!Vouched
    <3>3. \A m \in Setting!Telling(k) : sends'[m] = sends[m]
      BY <1>3, <1>11 DEF Setting!Telling
    <3> QED
      BY <1>0, <3>1, <3>4, <3>2, <3>3 DEF Setting!CopyFollows
  <2>2. CASE k = c.key /\ ok
    <3>1. \A m \in Setting!Telling(k)' : (\A j \in Setting!Telling(k)' : j <= m) => m = i
      BY <1>0, <1>3, <1>9, <2>2 DEF Setting!Telling
    <3>2. Setting!Telling(k)' # {} /\ sends'[i].value = kept'[k]
      <4>1. i \in Setting!Telling(k)'
        BY <1>9, <2>2
      <4>2. sends'[i].value = kept'[k]
        BY <1>3, <1>4, <2>2
      <4> QED
        BY <4>1, <4>2
    <3> QED
      BY <3>1, <3>2
  <2> QED
    BY <2>1, <2>2
<1>13. Setting!TypeOK'
  <2>1. saveFaults' \in Nat
    BY <1>0, <1>1
  <2> QED
    BY <1>0, <1>1, <1>3, <1>4, <1>5, <2>1, Zenon DEF Setting!TypeOK
<1> QED
  BY <1>1, <1>6, <1>12, <1>13, SettingTests DEF Setting!SettingInv

\* The oldest answer comes to the page; the others move up, and at most one call is made.
LEMMA SettingMovesUp ==
  ASSUME NEW S, NEW old \in Seq(S), old # <<>>, NEW new, NEW e \in S,
         new = Tail(old) \/ new = Append(Tail(old), e)
  PROVE  /\ new \in Seq(S)
         /\ \A i \in DOMAIN old \ {1} : i - 1 \in DOMAIN new /\ new[i - 1] = old[i]
         /\ \A i \in DOMAIN new :
              \/ i + 1 \in DOMAIN old /\ new[i] = old[i + 1]
              \/ new[i] = e /\ \A j \in DOMAIN old : j <= i
<1>1. /\ Tail(old) \in Seq(S) /\ Len(Tail(old)) = Len(old) - 1 /\ Len(old) \in Nat \ {0}
      /\ \A i \in 1..Len(old) - 1 : Tail(old)[i] = old[i + 1]
  OBVIOUS
<1> DEFINE t == Tail(old)
<1>2. t \in Seq(S) /\ Len(t) = Len(old) - 1 /\ \A i \in 1..Len(t) : t[i] = old[i + 1]
  BY <1>1
<1> HIDE DEF t
<1>3. CASE new = t
  BY <1>1, <1>3 DEF t
<1>4. CASE new = Append(t, e)
  <2>1. new \in Seq(S) /\ Len(new) = Len(t) + 1 /\ new[Len(t) + 1] = e
        /\ \A i \in 1..Len(t) : new[i] = t[i]
    BY <1>2, <1>4
  <2>2. DOMAIN new = 1..(Len(t) + 1) /\ DOMAIN old = 1..(Len(t) + 1) /\ Len(t) \in Nat
    BY <1>1, <1>2, <2>1
  <2>3. \A i \in DOMAIN old \ {1} : i - 1 \in DOMAIN new /\ new[i - 1] = old[i]
    <3> SUFFICES ASSUME NEW i \in DOMAIN old \ {1} PROVE i - 1 \in DOMAIN new /\ new[i - 1] = old[i]
      OBVIOUS
    <3>1. i - 1 \in 1..Len(t) /\ (i - 1) + 1 = i
      BY <2>2
    <3> QED
      BY <1>2, <2>1, <2>2, <3>1
  <2>4. \A i \in DOMAIN new :
          \/ i + 1 \in DOMAIN old /\ new[i] = old[i + 1]
          \/ new[i] = e /\ \A j \in DOMAIN old : j <= i
    BY <1>2, <2>1, <2>2
  <2> QED
    BY <2>1, <2>3, <2>4
<1> QED
  BY <1>3, <1>4 DEF t

LEMMA SettingAnswers ==
  ASSUME Setting!SettingInv, Setting!SaveAnswered
  PROVE  Setting!SettingInv'
<1>0. /\ sends \in Seq(Setting!SendType) /\ sends # <<>>
      /\ kept \in Setting!SettingTable /\ copy \in Setting!SettingTable
      /\ connecting \in Setting!SettingKeys \cup {"no", "testing"}
      /\ Setting!TypeOK /\ Setting!HandledInOrder /\ Setting!CopyFollows
  BY DEF Setting!SettingInv, Setting!TypeOK, Setting!SaveAnswered
<1>1. PICK c \in Setting!SendType : c = sends[1] /\ c = Head(sends)
  BY <1>0
<1>2. /\ c.at # "asked"
      /\ copy' = IF c.by = "panel" /\ c.at # "success" THEN copy
                 ELSE [copy EXCEPT ![c.key] = c.value]
      /\ panelBusy' = (panelBusy /\ c.by # "panel")
      /\ connecting' = IF c.by = "connect" THEN Setting!AfterSave[c.key] ELSE connecting
      /\ sends' = IF c.by = "connect" /\ c.key # "tg_on"
                  THEN Append(Tail(sends), Setting!Sent(Setting!AfterSave[c.key], 1, "connect"))
                  ELSE Tail(sends)
      /\ UNCHANGED <<kept, tgTestPending, tests, clock, lastGood, presses, saveFaults, lost, overwritten>>
  BY <1>1 DEF Setting!SaveAnswered, Setting!PanelOf, Setting!Spread
<1>3. c.by = "panel" <=> c.key = "panel"
  BY <1>0, <1>1 DEF Setting!HandledInOrder
<1>4. PICK e \in Setting!SendType :
        /\ e.at = "asked" /\ (e.by = "panel" <=> e.key = "panel")
        /\ sends' = Tail(sends) \/ sends' = Append(Tail(sends), e)
  <2>1. CASE c.by = "connect" /\ c.key # "tg_on"
    <3>1. c.key \in {"tg_token", "tg_chat"}
      BY <1>3, <2>1 DEF Setting!SendType, Setting!SettingKeys
    <3>2. Setting!AfterSave[c.key] \in {"tg_chat", "tg_on"}
      BY <3>1 DEF Setting!AfterSave
    <3>3. PICK k \in {"tg_chat", "tg_on"} : k = Setting!AfterSave[c.key]
      BY <3>2
    <3>4. /\ Setting!Sent(k, 1, "connect") \in Setting!SendType
          /\ Setting!Sent(k, 1, "connect").at = "asked"
          /\ Setting!Sent(k, 1, "connect").by # "panel" /\ Setting!Sent(k, 1, "connect").key # "panel"
      BY <1>0 DEF Setting!Sent, Setting!SendType, Setting!SettingKeys
    <3>5. sends' = Append(Tail(sends), Setting!Sent(k, 1, "connect"))
      BY <1>2, <2>1, <3>3
    <3> QED
      BY <3>4, <3>5, Zenon
  <2>2. CASE ~(c.by = "connect" /\ c.key # "tg_on")
    <3>1. sends' = Tail(sends)
      BY <1>2, <2>2
    <3>2. \E e \in Setting!SendType : e.at = "asked" /\ (e.by = "panel" <=> e.key = "panel")
      <4>1. /\ Setting!Sent("tg_on", 1, "box") \in Setting!SendType
            /\ Setting!Sent("tg_on", 1, "box").at = "asked"
            /\ Setting!Sent("tg_on", 1, "box").by # "panel"
            /\ Setting!Sent("tg_on", 1, "box").key # "panel"
        BY <1>0 DEF Setting!Sent, Setting!SendType, Setting!SettingKeys
      <4> QED
        BY <4>1, Zenon
    <3> QED
      BY <3>1, <3>2, Zenon
  <2> QED
    BY <2>1, <2>2
<1>5. /\ sends' \in Seq(Setting!SendType)
      /\ \A i \in DOMAIN sends \ {1} : i - 1 \in DOMAIN sends' /\ sends'[i - 1] = sends[i]
      /\ \A i \in DOMAIN sends' :
           \/ i + 1 \in DOMAIN sends /\ sends'[i] = sends[i + 1]
           \/ sends'[i] = e /\ \A j \in DOMAIN sends : j <= i
  BY <1>0, <1>4, SettingMovesUp
<1>6. /\ copy' \in Setting!SettingTable
      /\ \A k \in Setting!SettingKeys : k # c.key => copy'[k] = copy[k]
      /\ c.key = "panel" /\ c.at # "success" => copy' = copy
      /\ c.key # "panel" \/ c.at = "success" => copy'[c.key] = c.value
  BY <1>0, <1>2, <1>3 DEF Setting!SettingTable, Setting!SendType
<1>7. /\ DOMAIN sends \subseteq Int /\ DOMAIN sends' \subseteq Int
      /\ \A i \in DOMAIN sends : i >= 1
      /\ \A i \in DOMAIN sends' : i >= 1
  BY <1>0, <1>5
<1>8. Setting!HandledInOrder'
  <2>1. \A i, j \in DOMAIN sends' : i < j /\ sends'[j].at # "asked" => sends'[i].at # "asked"
    <3> SUFFICES ASSUME NEW i \in DOMAIN sends', NEW j \in DOMAIN sends', i < j, sends'[j].at # "asked"
                 PROVE  sends'[i].at # "asked"
      OBVIOUS
    <3>1. j + 1 \in DOMAIN sends /\ sends'[j] = sends[j + 1]
      BY <1>4, <1>5
    <3>2. i + 1 \in DOMAIN sends /\ sends'[i] = sends[i + 1]
      BY <1>5, <1>7, <3>1
    <3>3. i + 1 < j + 1
      BY <1>7
    <3> QED
      BY <1>0, <3>1, <3>2, <3>3 DEF Setting!HandledInOrder
  <2>2. \A i \in DOMAIN sends' : sends'[i].by = "panel" <=> sends'[i].key = "panel"
    BY <1>0, <1>4, <1>5 DEF Setting!HandledInOrder
  <2> QED
    BY <2>1, <2>2 DEF Setting!HandledInOrder
<1>9. Setting!CopyFollows'
  <2> SUFFICES ASSUME NEW k \in Setting!SettingKeys, Setting!Vouched(k)
               PROVE  /\ Setting!Telling(k)' = {} => copy'[k] = kept[k]
                      /\ \A m \in Setting!Telling(k)' :
                           (\A j \in Setting!Telling(k)' : j <= m) => sends'[m].value = kept[k]
    BY <1>2 DEF Setting!CopyFollows, Setting!Vouched
  <2>1. /\ Setting!Telling(k) = {} => copy[k] = kept[k]
        /\ \A m \in Setting!Telling(k) :
             (\A j \in Setting!Telling(k) : j <= m) => sends[m].value = kept[k]
    BY <1>0 DEF Setting!CopyFollows
  <2>2. \A i \in Setting!Telling(k) \ {1} : i - 1 \in Setting!Telling(k)'
    BY <1>5 DEF Setting!Telling
  <2>3. \A i \in Setting!Telling(k)' : i + 1 \in Setting!Telling(k) /\ sends'[i] = sends[i + 1]
    BY <1>4, <1>5 DEF Setting!Telling
  <2>4. 1 \in Setting!Telling(k) <=> c.key = k /\ (k = "panel" => c.at = "success")
    BY <1>0, <1>1, <1>2 DEF Setting!Telling
  <2>5. ASSUME Setting!Telling(k)' = {} PROVE copy'[k] = kept[k]
    <3>1. Setting!Telling(k) \subseteq {1}
      BY <2>2, <2>5
    <3>2. CASE 1 \in Setting!Telling(k)
      <4>1. c.value = kept[k]
        BY <1>1, <2>1, <3>1, <3>2
      <4> QED
        BY <1>6, <2>4, <3>2, <4>1
    <3>3. CASE Setting!Telling(k) = {}
      <4>1. copy[k] = kept[k]
        BY <2>1, <3>3
      <4> QED
        BY <1>6, <2>4, <3>3, <4>1
    <3> QED
      BY <3>1, <3>2, <3>3
  <2>6. ASSUME NEW m \in Setting!Telling(k)', \A j \in Setting!Telling(k)' : j <= m
        PROVE  sends'[m].value = kept[k]
    <3>1. m + 1 \in Setting!Telling(k) /\ sends'[m] = sends[m + 1]
      BY <2>3, <2>6
    <3>2. m \in Int /\ m >= 1
      BY <1>7 DEF Setting!Telling
    <3>3. \A j \in Setting!Telling(k) : j <= m + 1
      <4> SUFFICES ASSUME NEW j \in Setting!Telling(k) PROVE j <= m + 1
        OBVIOUS
      <4>1. j \in Int
        BY <1>7 DEF Setting!Telling
      <4>2. CASE j = 1
        BY <3>2, <4>2
      <4>3. CASE j # 1
        BY <2>2, <2>6, <3>2, <4>1, <4>3
      <4> QED
        BY <4>2, <4>3
    <3> QED
      BY <2>1, <3>1, <3>3
  <2> QED
    BY <2>5, <2>6
<1>10. Setting!TypeOK'
  <2>1. connecting' \in Setting!SettingKeys \cup {"no", "testing"}
    <3>1. CASE c.by = "connect"
      <4>1. c.key \in {"tg_token", "tg_chat", "tg_on"}
        BY <1>3, <3>1 DEF Setting!SendType, Setting!SettingKeys
      <4> QED
        BY <1>2, <3>1, <4>1 DEF Setting!AfterSave, Setting!SettingKeys
    <3> QED
      BY <1>0, <1>2, <3>1
  <2>2. panelBusy' \in BOOLEAN
    BY <1>2
  <2> QED
    BY <1>0, <1>2, <1>5, <1>6, <2>1, <2>2, Zenon DEF Setting!TypeOK
<1> QED
  BY <1>2, <1>8, <1>9, <1>10, SettingTests DEF Setting!SettingInv

LEMMA SettingTestBegins ==
  ASSUME Setting!SettingInv,
         Setting!SendTestFull \/ \E t \in Setting!Presses, ok \in BOOLEAN : Setting!TestSent(t, ok)
  PROVE  Setting!SettingInv'
<1>0. /\ tests \in [Setting!Presses -> Setting!TestType] /\ clock \in Nat /\ presses \in Nat
      /\ tgTestPending \in BOOLEAN
      /\ Setting!TypeOK /\ Setting!PollsAreTrue /\ Setting!VerifiedIsTapped
  BY DEF Setting!SettingInv, Setting!TypeOK
<1>1. UNCHANGED <<kept, copy, sends, connecting, panelBusy, lastGood, saveFaults, lost, overwritten>>
  BY DEF Setting!SendTestFull, Setting!TestSent
<1>2. /\ presses' \in Nat /\ clock' \in Nat /\ tgTestPending' \in BOOLEAN
  <2>1. CASE Setting!SendTestFull
    BY <1>0, <2>1 DEF Setting!SendTestFull, Setting!Press
  <2>2. ASSUME NEW t \in Setting!Presses, NEW ok \in BOOLEAN, Setting!TestSent(t, ok)
        PROVE  presses' \in Nat /\ clock' \in Nat /\ tgTestPending' \in BOOLEAN
    BY <1>0, <2>2 DEF Setting!TestSent
  <2> QED
    BY <2>1, <2>2
<1>3. \E t, x : /\ tests' = [tests EXCEPT ![t] = x]
                /\ \/ x \in {[at |-> "sending"], Setting!NoTest}
                   \/ x = [at |-> "polling", sentAt |-> clock', polls |-> <<>>, verified |-> FALSE]
  <2>1. CASE Setting!SendTestFull
    BY <2>1 DEF Setting!SendTestFull
  <2>2. CASE \E t \in Setting!Presses, ok \in BOOLEAN : Setting!TestSent(t, ok)
    BY <2>2 DEF Setting!TestSent
  <2> QED
    BY <2>1, <2>2
<1>4. PICK x : /\ \A t \in Setting!Presses : tests'[t] = tests[t] \/ tests'[t] = x
               /\ tests' \in [Setting!Presses -> Setting!TestType \cup {x}]
               /\ \/ x \in {[at |-> "sending"], Setting!NoTest}
                  \/ x = [at |-> "polling", sentAt |-> clock', polls |-> <<>>, verified |-> FALSE]
  BY <1>0, <1>3
<1>5. /\ x \in Setting!TestType
      /\ x.at \in {"polling", "over"} => x.polls = <<>> /\ ~x.verified
  <2>1. CASE x \in {[at |-> "sending"], Setting!NoTest}
    BY <2>1 DEF Setting!TestType, Setting!NoTest
  <2>2. CASE x = [at |-> "polling", sentAt |-> clock', polls |-> <<>>, verified |-> FALSE]
    <3>1. x \in [at : {"polling", "over"}, sentAt : Nat, polls : Seq(Nat), verified : BOOLEAN]
      BY <1>2, <2>2
    <3>2. x.polls = <<>> /\ ~x.verified
      BY <2>2
    <3> QED
      BY <3>1, <3>2 DEF Setting!TestType
  <2> QED
    BY <1>4, <2>1, <2>2
<1>6. tests' \in [Setting!Presses -> Setting!TestType]
  BY <1>4, <1>5
<1>7. Setting!TypeOK'
  BY <1>0, <1>1, <1>2, <1>6, Zenon DEF Setting!TypeOK
<1>8. Setting!PollsAreTrue'
  BY <1>0, <1>1, <1>4, <1>5 DEF Setting!PollsAreTrue
<1>9. Setting!VerifiedIsTapped'
  BY <1>0, <1>1, <1>4, <1>5 DEF Setting!VerifiedIsTapped
<1> QED
  BY <1>1, <1>7, <1>8, <1>9, SettingStays DEF Setting!SettingInv

LEMMA SettingTaps ==
  ASSUME Setting!SettingInv, Setting!TapReceived
  PROVE  Setting!SettingInv'
<1>0. /\ clock \in Nat /\ lastGood \in Nat /\ tests \in [Setting!Presses -> Setting!TestType]
      /\ Setting!TypeOK /\ Setting!PollsAreTrue /\ Setting!VerifiedIsTapped
  BY DEF Setting!SettingInv, Setting!TypeOK
<1>1. /\ lastGood < lastGood' /\ clock' \in Nat /\ lastGood' \in Nat
      /\ UNCHANGED <<kept, copy, sends, connecting, panelBusy, tgTestPending, tests, presses,
                     saveFaults, lost, overwritten>>
  BY <1>0 DEF Setting!TapReceived
<1>2. Setting!TypeOK'
  BY <1>0, <1>1, Zenon DEF Setting!TypeOK
<1>3. \A t \in Setting!Presses : tests[t].at \in {"polling", "over"} =>
        tests[t].sentAt \in Nat /\ tests[t].polls \in Seq(Nat)
  BY <1>0 DEF Setting!TestType, Setting!NoTest
<1>4. Setting!PollsAreTrue'
  BY <1>0, <1>1, <1>3 DEF Setting!PollsAreTrue
<1>5. Setting!VerifiedIsTapped'
  BY <1>0, <1>1, <1>3 DEF Setting!VerifiedIsTapped
<1> QED
  BY <1>1, <1>2, <1>4, <1>5, SettingStays DEF Setting!SettingInv

LEMMA SettingPolls ==
  ASSUME Setting!SettingInv, NEW t \in Setting!Presses,
         Setting!Poll(t) \/ \E after \in BOOLEAN : Setting!PollAnswered(t, after)
  PROVE  Setting!SettingInv'
<1>0. /\ tests \in [Setting!Presses -> Setting!TestType] /\ lastGood \in Nat
      /\ tgTestPending \in BOOLEAN
      /\ Setting!TypeOK /\ Setting!PollsAreTrue /\ Setting!VerifiedIsTapped
  BY DEF Setting!SettingInv, Setting!TypeOK
<1>1. /\ UNCHANGED <<kept, copy, sends, connecting, panelBusy, clock, lastGood, presses,
                     saveFaults, lost, overwritten>>
      /\ tgTestPending' \in BOOLEAN
      /\ tests[t].at \in {"polling", "over"}
  BY <1>0 DEF Setting!Poll, Setting!PollAnswered
<1>2. PICK x \in [at : {"polling", "over"}, sentAt : Nat, polls : Seq(Nat), verified : BOOLEAN] :
        tests[t] = x
  BY <1>0, <1>1 DEF Setting!TestType, Setting!NoTest
<1>3. /\ \A i \in DOMAIN x.polls : x.polls[i] <= lastGood
      /\ x.verified => lastGood > x.sentAt
  BY <1>0, <1>1, <1>2 DEF Setting!PollsAreTrue, Setting!VerifiedIsTapped
<1>4. PICK y \in [at : {"polling", "over"}, sentAt : Nat, polls : Seq(Nat), verified : BOOLEAN] :
        /\ tests' = [tests EXCEPT ![t] = y]
        /\ \A i \in DOMAIN y.polls : y.polls[i] <= lastGood
        /\ y.verified => lastGood > y.sentAt
  <2>1. CASE Setting!Poll(t)
    <3> DEFINE y == [x EXCEPT !.polls = Append(x.polls, lastGood)]
    <3>1. tests' = [tests EXCEPT ![t] = y]
      BY <1>0, <1>2, <2>1 DEF Setting!Poll
    <3>2. Append(x.polls, lastGood) \in Seq(Nat)
      BY <1>0, <1>2
    <3>3. \A i \in DOMAIN Append(x.polls, lastGood) : Append(x.polls, lastGood)[i] <= lastGood
      BY <1>0, <1>2, <1>3
    <3>4. /\ y \in [at : {"polling", "over"}, sentAt : Nat, polls : Seq(Nat), verified : BOOLEAN]
          /\ y.polls = Append(x.polls, lastGood) /\ y.verified = x.verified /\ y.sentAt = x.sentAt
      BY <1>2, <3>2
    <3> HIDE DEF y
    <3> QED
      BY <1>3, <3>1, <3>3, <3>4
  <2>2. ASSUME NEW after \in BOOLEAN, Setting!PollAnswered(t, after)
        PROVE  \E y \in [at : {"polling", "over"}, sentAt : Nat, polls : Seq(Nat), verified : BOOLEAN] :
                 /\ tests' = [tests EXCEPT ![t] = y]
                 /\ \A i \in DOMAIN y.polls : y.polls[i] <= lastGood
                 /\ y.verified => lastGood > y.sentAt
    <3> DEFINE ok == Head(x.polls) > x.sentAt
               y == [x EXCEPT !.polls = Tail(x.polls),
                              !.at = IF ok \/ after THEN "over" ELSE x.at,
                              !.verified = x.verified \/ ok]
    <3>1. x.polls # <<>>
      BY <1>2, <2>2 DEF Setting!PollAnswered
    <3>2. tests' = [tests EXCEPT ![t] = y]
      BY <1>0, <1>2, <2>2 DEF Setting!PollAnswered, Setting!Confirmed
    <3>3. /\ Tail(x.polls) \in Seq(Nat) /\ \A i \in DOMAIN Tail(x.polls) : Tail(x.polls)[i] <= lastGood
          /\ Head(x.polls) \in Nat /\ Head(x.polls) <= lastGood
      BY <1>2, <1>3, <3>1
    <3>4. ok => lastGood > x.sentAt
      BY <1>0, <1>2, <3>3
    <3>5. /\ y \in [at : {"polling", "over"}, sentAt : Nat, polls : Seq(Nat), verified : BOOLEAN]
          /\ y.polls = Tail(x.polls) /\ y.sentAt = x.sentAt /\ (y.verified => x.verified \/ ok)
      BY <1>2, <3>3
    <3> HIDE DEF y, ok
    <3> QED
      BY <1>3, <3>2, <3>3, <3>4, <3>5
  <2> QED
    BY <2>1, <2>2
<1>5. tests' \in [Setting!Presses -> Setting!TestType]
  BY <1>0, <1>4 DEF Setting!TestType
<1>6. Setting!TypeOK'
  BY <1>0, <1>1, <1>5, Zenon DEF Setting!TypeOK
<1>7. tests'[t] = y /\ \A s \in Setting!Presses \ {t} : tests'[s] = tests[s]
  BY <1>0, <1>4
<1>8. Setting!PollsAreTrue'
  BY <1>0, <1>1, <1>4, <1>7 DEF Setting!PollsAreTrue
<1>9. Setting!VerifiedIsTapped'
  BY <1>0, <1>1, <1>4, <1>7 DEF Setting!VerifiedIsTapped
<1> QED
  BY <1>1, <1>6, <1>8, <1>9, SettingStays DEF Setting!SettingInv

LEMMA SettingStep ==
  ASSUME Setting!SettingInv, [Setting!Next]_settingVars
  PROVE  Setting!SettingInv'
<1>1. CASE UNCHANGED settingVars
  <2>1. UNCHANGED <<kept, copy, sends, connecting, panelBusy, tgTestPending, tests, clock, lastGood,
                    presses, saveFaults, lost, overwritten>>
    BY <1>1 DEF settingVars
  <2>2. Setting!TypeOK'
    BY <2>1, Zenon DEF Setting!SettingInv, Setting!TypeOK
  <2> QED
    BY <2>1, <2>2, SettingStays, SettingTests DEF Setting!SettingInv
<1> QED
  BY <1>1, SettingClicks, SettingWizard, SettingHandles, SettingAnswers, SettingTestBegins, SettingTaps,
     SettingPolls DEF Setting!Next

\* When no answer is on its way nothing is told that is not shown.
LEMMA SettingShown == Setting!SettingInv => Setting!ShownIsStored
  BY DEF Setting!SettingInv, Setting!CopyFollows, Setting!Telling, Setting!ShownIsStored

(***************************************************************************)
(* The setup wizard.                                                        *)
(***************************************************************************)

\* The writes of a key in a queue, and what the last of them says.
WritesOf(q, k) == {i \in DOMAIN q : q[i].key = k}
LastSays(q, k, v) == \A i \in WritesOf(q, k) : (\A j \in WritesOf(q, k) : j <= i) => q[i].value = v

\* The head of a queue goes.
LEMMA WizardQueueMoves ==
  ASSUME NEW S, NEW q \in Seq(S), q # <<>>, NEW k
  PROVE  /\ Tail(q) \in Seq(S) /\ Head(q) \in S
         /\ WritesOf(q, k) = {} => WritesOf(Tail(q), k) = {} /\ Head(q).key # k
         /\ WritesOf(Tail(q), k) = {} =>
              /\ \A i \in 2..Len(q) : q[i].key # k
              /\ WritesOf(q, k) = {} \/ Head(q).key = k
         /\ \A v : LastSays(q, k, v) =>
              /\ LastSays(Tail(q), k, v)
              /\ WritesOf(Tail(q), k) = {} /\ Head(q).key = k => Head(q).value = v
<1>1. /\ Tail(q) \in Seq(S) /\ Head(q) \in S /\ Head(q) = q[1] /\ Len(q) \in Nat \ {0}
      /\ DOMAIN q = 1..Len(q) /\ DOMAIN Tail(q) = 1..(Len(q) - 1)
      /\ \A i \in 1..(Len(q) - 1) : Tail(q)[i] = q[i + 1]
  OBVIOUS
<1> DEFINE t == Tail(q)
           h == Head(q)
<1> HIDE DEF t, h
<1>2. /\ t \in Seq(S) /\ h \in S /\ h = q[1] /\ Len(q) \in Nat \ {0}
      /\ DOMAIN q = 1..Len(q) /\ DOMAIN t = 1..(Len(q) - 1)
      /\ \A i \in 1..(Len(q) - 1) : t[i] = q[i + 1]
  BY <1>1 DEF t, h
<1>3. \A i \in WritesOf(t, k) : i + 1 \in WritesOf(q, k) /\ t[i] = q[i + 1]
  BY <1>2 DEF WritesOf
<1>4. \A i \in WritesOf(q, k) : i # 1 => i - 1 \in WritesOf(t, k) /\ t[i - 1] = q[i]
  BY <1>2 DEF WritesOf
<1>5. 1 \in WritesOf(q, k) <=> h.key = k
  BY <1>2 DEF WritesOf
<1>6. WritesOf(t, k) = {} =>
        /\ \A i \in 2..Len(q) : q[i].key # k
        /\ WritesOf(q, k) = {} \/ h.key = k
  <2> SUFFICES ASSUME WritesOf(t, k) = {}
               PROVE  /\ \A i \in 2..Len(q) : q[i].key # k
                      /\ WritesOf(q, k) = {} \/ h.key = k
    OBVIOUS
  <2>1. \A i \in WritesOf(q, k) : i = 1
    BY <1>4
  <2>2. \A i \in 2..Len(q) : q[i].key # k
    BY <1>2, <2>1 DEF WritesOf
  <2> QED
    BY <1>5, <2>1, <2>2
<1>7. ASSUME NEW v, LastSays(q, k, v)
      PROVE  LastSays(t, k, v) /\ (WritesOf(t, k) = {} /\ h.key = k => h.value = v)
  <2>1. ASSUME NEW i \in WritesOf(t, k), \A j \in WritesOf(t, k) : j <= i
        PROVE  t[i].value = v
    <3>1. i \in Int /\ i >= 1 /\ WritesOf(q, k) \subseteq Int
      BY <1>2 DEF WritesOf
    <3>2. \A j \in WritesOf(q, k) : j <= i + 1
      <4> SUFFICES ASSUME NEW j \in WritesOf(q, k) PROVE j <= i + 1
        OBVIOUS
      <4>1. CASE j = 1
        BY <3>1, <4>1
      <4>2. CASE j # 1
        BY <1>4, <2>1, <3>1, <4>2
      <4> QED
        BY <4>1, <4>2
    <3> QED
      BY <1>3, <1>7, <3>2 DEF LastSays
  <2>2. ASSUME WritesOf(t, k) = {}, h.key = k PROVE h.value = v
    <3>1. 1 \in WritesOf(q, k) /\ \A j \in WritesOf(q, k) : j <= 1
      BY <1>4, <1>5, <2>2
    <3> QED
      BY <1>2, <1>7, <3>1 DEF LastSays
  <2> QED
    BY <2>1, <2>2 DEF LastSays
<1>8. WritesOf(q, k) = {} => WritesOf(t, k) = {} /\ h.key # k
  BY <1>3, <1>5
<1> QED
  BY <1>2, <1>6, <1>7, <1>8 DEF t, h

\* A save of some keys is put at the end of a queue.
LEMMA WizardQueueGrows ==
  ASSUME NEW S, NEW q \in Seq(S), NEW r \in Seq(S), NEW ks, NEW values,
         \A i \in DOMAIN r : r[i].key \in ks /\ r[i].value = values[r[i].key],
         \A k \in ks : \E i \in DOMAIN r : r[i].key = k,
         NEW k
  PROVE  /\ q \o r \in Seq(S)
         /\ k \in ks => WritesOf(q \o r, k) # {} /\ LastSays(q \o r, k, values[k])
         /\ k \notin ks =>
              /\ WritesOf(q \o r, k) = WritesOf(q, k)
              /\ \A v : LastSays(q, k, v) => LastSays(q \o r, k, v)
<1> DEFINE p == q \o r
           n == Len(q)
<1>1. /\ p \in Seq(S) /\ n \in Nat /\ DOMAIN q = 1..n /\ DOMAIN p = 1..(n + Len(r))
      /\ Len(r) \in Nat /\ DOMAIN r = 1..Len(r)
      /\ \A i \in 1..n : p[i] = q[i]
      /\ \A i \in 1..Len(r) : p[n + i] = r[i]
  OBVIOUS
<1> HIDE DEF p, n
<1>2. \A i \in DOMAIN p : i > n => i - n \in DOMAIN r /\ p[i] = r[i - n]
  <2> SUFFICES ASSUME NEW i \in DOMAIN p, i > n PROVE i - n \in DOMAIN r /\ p[i] = r[i - n]
    OBVIOUS
  <2>1. i - n \in 1..Len(r) /\ n + (i - n) = i
    BY <1>1
  <2> QED
    BY <1>1, <2>1
<1>3. ASSUME k \in ks PROVE WritesOf(p, k) # {} /\ LastSays(p, k, values[k])
  <2>1. PICK m \in DOMAIN r : r[m].key = k
    BY <1>3
  <2>2. n + m \in WritesOf(p, k) /\ n + m > n /\ n + m \in Int
    BY <1>1, <2>1 DEF WritesOf
  <2>3. ASSUME NEW i \in WritesOf(p, k), \A j \in WritesOf(p, k) : j <= i PROVE p[i].value = values[k]
    <3>1. i > n /\ i \in DOMAIN p /\ p[i].key = k
      BY <1>1, <2>2, <2>3 DEF WritesOf
    <3> QED
      BY <1>2, <3>1
  <2> QED
    BY <2>2, <2>3 DEF LastSays
<1>4. ASSUME k \notin ks
      PROVE  /\ WritesOf(p, k) = WritesOf(q, k)
             /\ \A v : LastSays(q, k, v) => LastSays(p, k, v)
  <2>1. \A i \in DOMAIN p : i > n => p[i].key # k
    BY <1>2, <1>4
  <2>2. \A i \in DOMAIN p : i <= n => i \in DOMAIN q /\ p[i] = q[i]
    BY <1>1
  <2>3. WritesOf(p, k) = WritesOf(q, k)
    BY <1>1, <2>1, <2>2 DEF WritesOf
  <2>4. \A i \in WritesOf(q, k) : p[i] = q[i]
    BY <1>1 DEF WritesOf
  <2> QED
    BY <2>3, <2>4 DEF LastSays
<1> QED
  BY <1>1, <1>3, <1>4 DEF p

\* What the elements of a queue of at most one write, and of two queues together, have.
LEMMA WizardSavesAll ==
  ASSUME NEW ks \in SUBSET Keys, NEW values \in [Wizard!AllKeys -> Wizard!Values]
  PROVE  /\ Wizard!Writes(ks, values) \in Seq(Wizard!WriteType)
         /\ \A i \in DOMAIN Wizard!Writes(ks, values) :
              LET w == Wizard!Writes(ks, values)[i] IN w.key \in ks /\ w.value = values[w.key]
         /\ \A k \in ks : \E i \in DOMAIN Wizard!Writes(ks, values) :
                            Wizard!Writes(ks, values)[i].key = k
<1> DEFINE one(k) == IF k \in ks THEN <<[key |-> k, value |-> values[k]]>> ELSE <<>>
           Good(q, some) ==
             /\ q \in Seq(Wizard!WriteType)
             /\ \A i \in DOMAIN q : q[i].key \in ks /\ q[i].value = values[q[i].key]
             /\ \A k \in ks \cap some : \E i \in DOMAIN q : q[i].key = k
<1>1. ASSUME NEW k \in Wizard!AllKeys PROVE Good(one(k), {k})
  <2>1. CASE k \in ks
    <3> DEFINE w == [key |-> k, value |-> values[k]]
    <3>1. w \in Wizard!WriteType /\ w.key = k /\ w.value = values[k]
      BY <1>1, <2>1 DEF Wizard!WriteType
    <3> HIDE DEF w
    <3>2. <<w>> \in Seq(Wizard!WriteType) /\ DOMAIN <<w>> = {1} /\ <<w>>[1] = w
      BY <3>1
    <3>3. one(k) = <<w>>
      BY <2>1 DEF w
    <3> HIDE DEF one
    <3> QED
      BY <2>1, <3>1, <3>2, <3>3
  <2>2. CASE k \notin ks
    <3>1. one(k) = <<>>
      BY <2>2
    <3> HIDE DEF one
    <3> QED
      BY <2>2, <3>1
  <2> QED
    BY <2>1, <2>2
<1>2. ASSUME NEW q, NEW r, NEW A, NEW B, Good(q, A), Good(r, B) PROVE Good(q \o r, A \cup B)
  <2>1. /\ q \o r \in Seq(Wizard!WriteType) /\ Len(q) \in Nat /\ Len(r) \in Nat
        /\ DOMAIN q = 1..Len(q) /\ DOMAIN r = 1..Len(r) /\ DOMAIN (q \o r) = 1..(Len(q) + Len(r))
        /\ \A i \in 1..Len(q) : (q \o r)[i] = q[i]
        /\ \A i \in 1..Len(r) : (q \o r)[Len(q) + i] = r[i]
    BY <1>2
  <2>2. \A i \in DOMAIN (q \o r) :
          \/ i \in DOMAIN q /\ (q \o r)[i] = q[i]
          \/ i - Len(q) \in DOMAIN r /\ (q \o r)[i] = r[i - Len(q)]
    <3> SUFFICES ASSUME NEW i \in DOMAIN (q \o r), i \notin DOMAIN q
                 PROVE  i - Len(q) \in DOMAIN r /\ (q \o r)[i] = r[i - Len(q)]
      BY <2>1
    <3>1. i - Len(q) \in 1..Len(r) /\ Len(q) + (i - Len(q)) = i
      BY <2>1
    <3> QED
      BY <2>1, <3>1
  <2>3. \A i \in DOMAIN q : i \in DOMAIN (q \o r) /\ (q \o r)[i] = q[i]
    BY <2>1
  <2>4. \A i \in DOMAIN r : Len(q) + i \in DOMAIN (q \o r) /\ (q \o r)[Len(q) + i] = r[i]
    BY <2>1
  <2> DEFINE p == q \o r
  <2> HIDE DEF p
  <2>5. p \in Seq(Wizard!WriteType)
    BY <2>1 DEF p
  <2>6. \A i \in DOMAIN p : p[i].key \in ks /\ p[i].value = values[p[i].key]
    BY <1>2, <2>2 DEF p
  <2>7. \A k \in ks \cap (A \cup B) : \E i \in DOMAIN p : p[i].key = k
    <3> SUFFICES ASSUME NEW k \in ks, k \in A \/ k \in B
                 PROVE  \E i \in DOMAIN p : p[i].key = k
      OBVIOUS
    <3>1. CASE k \in A
      <4>1. PICK i \in DOMAIN q : q[i].key = k
        BY <1>2, <3>1
      <4> QED
        BY <2>3, <4>1 DEF p
    <3>2. CASE k \in B
      <4>1. PICK i \in DOMAIN r : r[i].key = k
        BY <1>2, <3>2
      <4> QED
        BY <2>4, <4>1 DEF p
    <3> QED
      BY <3>1, <3>2
  <2> QED
    BY <2>5, <2>6, <2>7 DEF p
<1> HIDE DEF one, Good
<1>3. Good(one("thresholds") \o one("nas_enabled"), {"thresholds"} \cup {"nas_enabled"})
  BY <1>1, <1>2 DEF Wizard!AllKeys
<1>4. PICK q1, A1 : /\ Good(q1, A1) /\ A1 = {"thresholds", "nas_enabled"}
                    /\ q1 = one("thresholds") \o one("nas_enabled")
  BY <1>3
<1>5. PICK q2 : q2 = q1 \o one("nas") /\ Good(q2, A1 \cup {"nas"})
  BY <1>1, <1>2, <1>4 DEF Wizard!AllKeys
<1>6. PICK q3 : q3 = q2 \o one("rdp") /\ Good(q3, (A1 \cup {"nas"}) \cup {"rdp"})
  BY <1>1, <1>2, <1>5 DEF Wizard!AllKeys
<1>7. PICK q4 : q4 = q3 \o one("telegram")
                /\ Good(q4, ((A1 \cup {"nas"}) \cup {"rdp"}) \cup {"telegram"})
  BY <1>1, <1>2, <1>6 DEF Wizard!AllKeys
<1>8. PICK q5 : q5 = q4 \o one("rules")
                /\ Good(q5, (((A1 \cup {"nas"}) \cup {"rdp"}) \cup {"telegram"}) \cup {"rules"})
  BY <1>1, <1>2, <1>7 DEF Wizard!AllKeys
<1>9. PICK q6 : /\ q6 = q5 \o one("integrations")
                /\ Good(q6, ((((A1 \cup {"nas"}) \cup {"rdp"}) \cup {"telegram"}) \cup {"rules"})
                              \cup {"integrations"})
  BY <1>1, <1>2, <1>8 DEF Wizard!AllKeys
<1>10. q6 = Wizard!Writes(ks, values)
  BY <1>4, <1>5, <1>6, <1>7, <1>8, <1>9 DEF Wizard!Writes, one
<1>11. ks \subseteq ((((A1 \cup {"nas"}) \cup {"rdp"}) \cup {"telegram"}) \cup {"rules"})
                      \cup {"integrations"}
  BY <1>4, KeyAssumption DEF Wizard!AllKeys
<1>12. /\ q6 \in Seq(Wizard!WriteType)
       /\ \A i \in DOMAIN q6 : q6[i].key \in ks /\ q6[i].value = values[q6[i].key]
       /\ \A k \in ks : \E i \in DOMAIN q6 : q6[i].key = k
  BY <1>9, <1>11 DEF Good
<1> QED
  BY <1>10, <1>12

\* The keys of a step, and what a save of it writes.
LEMMA WizardStepKeys ==
  ASSUME NEW s
  PROVE  /\ Wizard!StepKeys(s) \subseteq Keys
         /\ "rules" \in Wizard!StepKeys(s) => s = 5
         /\ "nas_enabled" \in Wizard!StepKeys(s) => s = 2
<1> DEFINE K == CASE s = 1 -> {"thresholds"} [] s = 2 -> {"nas_enabled", "nas"} [] s = 3 -> {"rdp"}
                  [] s = 4 -> {"telegram"} [] s = 5 -> {"rules"} [] s = 6 -> {"integrations"}
                  [] OTHER -> {}
<1>1. Wizard!StepKeys(s) = Keys \cap K
  BY DEF Wizard!StepKeys
<1>2. ("rules" \in K => s = 5) /\ ("nas_enabled" \in K => s = 2)
  OBVIOUS
<1> HIDE DEF K
<1> QED
  BY <1>1, <1>2

LEMMA WizardSavedKeys ==
  ASSUME NEW has \in BOOLEAN
  PROVE  /\ Wizard!SavedKeys(has) \subseteq Wizard!StepKeys(step)
         /\ Wizard!SavedKeys(has) \subseteq Keys
         /\ "nas_enabled" \in Wizard!SavedKeys(has) => has
         /\ "rules" \in Wizard!SavedKeys(has) => step = 5 /\ shown["rules"] # loaded
<1>1. CASE step = 2
  <2>1. Wizard!SavedKeys(has) = Wizard!StepKeys(step) \cap Wizard!SavedNas(has)
    BY <1>1 DEF Wizard!SavedKeys
  <2>2. "nas_enabled" \in Wizard!SavedNas(has) => has
    BY DEF Wizard!SavedNas
  <2> QED
    BY <1>1, <2>1, <2>2, WizardStepKeys
<1>2. CASE step = 5
  <2>1. Wizard!SavedKeys(has) = Wizard!StepKeys(step) \cap Wizard!SavedRules
    BY <1>2 DEF Wizard!SavedKeys
  <2>2. "rules" \in Wizard!SavedRules => shown["rules"] # loaded
    BY DEF Wizard!SavedRules
  <2> QED
    BY <1>2, <2>1, <2>2, WizardStepKeys
<1>3. CASE step # 2 /\ step # 5
  <2>1. Wizard!SavedKeys(has) \subseteq Wizard!StepKeys(step)
    BY DEF Wizard!SavedKeys
  <2> QED
    BY <1>3, <2>1, WizardStepKeys
<1> QED
  BY <1>1, <1>2, <1>3

\* What the writes on their way have said of each key, after a save of some keys.
LEMMA WizardSaves ==
  ASSUME NEW q \in Seq(Wizard!WriteType), NEW ks \in SUBSET Keys,
         NEW values \in [Wizard!AllKeys -> Wizard!Values],
         NEW p, p = q \o Wizard!Writes(ks, values)
  PROVE  /\ p \in Seq(Wizard!WriteType)
         /\ \A k \in ks : WritesOf(p, k) # {} /\ LastSays(p, k, values[k])
         /\ \A k : k \notin ks =>
              /\ WritesOf(p, k) = WritesOf(q, k)
              /\ \A v : LastSays(q, k, v) => LastSays(p, k, v)
<1> DEFINE r == Wizard!Writes(ks, values)
<1>1. /\ r \in Seq(Wizard!WriteType)
      /\ \A i \in DOMAIN r : r[i].key \in ks /\ r[i].value = values[r[i].key]
      /\ \A k \in ks : \E i \in DOMAIN r : r[i].key = k
  BY WizardSavesAll
<1> HIDE DEF r
<1>2. p = q \o r
  BY DEF r
<1>3. ASSUME NEW k
      PROVE  /\ q \o r \in Seq(Wizard!WriteType)
             /\ k \in ks => WritesOf(q \o r, k) # {} /\ LastSays(q \o r, k, values[k])
             /\ k \notin ks =>
                  /\ WritesOf(q \o r, k) = WritesOf(q, k)
                  /\ \A v : LastSays(q, k, v) => LastSays(q \o r, k, v)
  <2> HIDE DEF WritesOf, LastSays
  <2> QED
    BY <1>1, WizardQueueGrows
<1> QED
  BY <1>2, <1>3

\* The invariant in these words.
LEMMA WizardWords ==
  Wizard!LastWordIsOnItsWay
    <=> \A k \in Keys \ Wizard!StepKeys(step) :
          lastWord[k] # "none" =>
            /\ WritesOf(writes, k) = {} => stored[k] = lastWord[k]
            /\ LastSays(writes, k, lastWord[k])
BY DEF Wizard!LastWordIsOnItsWay, Wizard!Pending, WritesOf, LastSays

LEMMA WizardWordsNext ==
  ASSUME NEW p, NEW o, NEW d, NEW l, p = writes', o = stored', d = step', l = lastWord',
         \A k \in Keys \ Wizard!StepKeys(d) : l[k] # "none" =>
           /\ WritesOf(p, k) = {} => o[k] = l[k]
           /\ LastSays(p, k, l[k])
  PROVE  Wizard!LastWordIsOnItsWay'
BY DEF Wizard!LastWordIsOnItsWay, Wizard!Pending, WritesOf, LastSays, Wizard!StepKeys

LEMMA WizardTypesHave ==
  ASSUME Wizard!WizardInv
  PROVE  /\ stored \in Wizard!Settings /\ before \in Wizard!Settings
         /\ step \in Wizard!Closed..Wizard!Last
         /\ shown \in [Wizard!AllKeys -> Wizard!Values] /\ loaded \in Wizard!Values
         /\ ready \in {"loading", "ready", "error"}
         /\ clicked \in BOOLEAN
         /\ context \in [telegram : Wizard!Values, integrations : Wizard!Values, profile : BOOLEAN]
         /\ writes \in Seq(Wizard!WriteType)
         /\ touched \subseteq Keys
         /\ lastWord \in [Keys -> Wizard!Values]
         /\ edits \in Nat /\ runs \in Nat
  BY DEF Wizard!WizardInv, Wizard!TypeOK

\* A step shows something else, and what it showed is saved.
LEMMA WizardShows ==
  ASSUME Wizard!WizardInv, UNCHANGED <<stored, step, before, lastWord, runs>>,
         Wizard!SaveOnChange,
         shown' \in [Wizard!AllKeys -> Wizard!Values], loaded' \in Wizard!Values,
         ready' \in {"loading", "ready", "error"}, clicked' \in BOOLEAN,
         context' \in [telegram : Wizard!Values, integrations : Wizard!Values, profile : BOOLEAN],
         touched \subseteq touched', touched' \subseteq Keys, edits' \in Nat,
         clicked' => "nas_enabled" \in touched',
         "rules" \in Wizard!StepKeys(step) => shown'["rules"] = loaded' \/ "rules" \in touched'
  PROVE  Wizard!WizardInv'
<1>0. /\ shown \in [Wizard!AllKeys -> Wizard!Values]
      /\ writes \in Seq(Wizard!WriteType)
  BY WizardTypesHave
<1>1. PICK c \in BOOLEAN : c = clicked'
  OBVIOUS
<1>2. /\ Wizard!SavedKeys(c) \subseteq Wizard!StepKeys(step)
      /\ Wizard!SavedKeys(c) \subseteq Keys
      /\ "nas_enabled" \in Wizard!SavedKeys(c) => c
      /\ "rules" \in Wizard!SavedKeys(c) => step = 5
  BY WizardSavedKeys
<1>3. PICK ks \in SUBSET Wizard!SavedKeys(c) :
        /\ writes' \in Seq(Wizard!WriteType)
        /\ "rules" \notin ks
        /\ \A k : k \notin ks =>
             /\ WritesOf(writes', k) = WritesOf(writes, k)
             /\ \A v : LastSays(writes, k, v) => LastSays(writes', k, v)
  <2>1. CASE writes' = writes
    <3>1. {} \in SUBSET Wizard!SavedKeys(c) /\ "rules" \notin {}
      OBVIOUS
    <3> QED
      BY <1>0, <2>1, <3>1
  <2>2. CASE step # 5 /\ writes' = writes \o Wizard!Writes(Wizard!SavedKeys(c), shown)
    <3>1. "rules" \notin Wizard!SavedKeys(c) /\ Wizard!SavedKeys(c) \in SUBSET Keys
      BY <1>2, <2>2
    <3>2. PICK p, ks : /\ p = writes' /\ ks = Wizard!SavedKeys(c)
                       /\ ks \in SUBSET Keys /\ p = writes \o Wizard!Writes(ks, shown)
      BY <2>2, <3>1
    <3>3. /\ p \in Seq(Wizard!WriteType)
          /\ \A k : k \notin ks =>
               /\ WritesOf(p, k) = WritesOf(writes, k)
               /\ \A v : LastSays(writes, k, v) => LastSays(p, k, v)
      BY <1>0, <3>2, WizardSaves
    <3> QED
      BY <3>1, <3>2, <3>3
  <2>3. writes' = writes \/ (step # 5 /\ writes' = writes \o Wizard!Writes(Wizard!SavedKeys(c), shown))
    BY <1>1 DEF Wizard!SaveOnChange
  <2> QED
    BY <2>1, <2>2, <2>3
<1>4. Wizard!TypeOK'
  BY <1>3, WizardTypesHave, Zenon DEF Wizard!TypeOK
<1>5. Wizard!OnlyTouchedAreSaved'
  <2>0. /\ \A k \in {"nas_enabled", "rules"} : Wizard!Pending(k) # {} => k \in touched
        /\ \A k : Wizard!Pending(k)' = WritesOf(writes', k)
        /\ \A k : Wizard!Pending(k) = WritesOf(writes, k)
    BY DEF Wizard!WizardInv, Wizard!OnlyTouchedAreSaved, Wizard!Pending, WritesOf
  <2>1. ASSUME NEW k \in {"nas_enabled", "rules"}, Wizard!Pending(k)' # {} PROVE k \in touched'
    <3>1. CASE k \in ks
      BY <1>1, <1>2, <1>3, <3>1
    <3>2. CASE k \notin ks
      BY <1>3, <2>0, <2>1, <3>2
    <3> QED
      BY <3>1, <3>2
  <2>2. clicked' => ("nas_enabled" \in touched')
    OBVIOUS
  <2>3. "rules" \in Wizard!StepKeys(step)' => shown'["rules"] = loaded' \/ "rules" \in touched'
    <3>1. Wizard!StepKeys(step)' = Wizard!StepKeys(step)
      BY DEF Wizard!StepKeys
    <3> QED
      BY <3>1
  <2> QED
    BY <2>1, <2>2, <2>3 DEF Wizard!OnlyTouchedAreSaved
<1>6. Wizard!ChoicesAreKept'
  BY DEF Wizard!WizardInv, Wizard!ChoicesAreKept, Wizard!KeptUnlessTouched
<1>7. Wizard!LastWordIsOnItsWay'
  <2>1. ASSUME NEW k \in Keys \ Wizard!StepKeys(step), lastWord[k] # "none"
        PROVE  /\ WritesOf(writes', k) = {} => stored[k] = lastWord[k]
               /\ LastSays(writes', k, lastWord[k])
    <3>1. /\ WritesOf(writes, k) = {} => stored[k] = lastWord[k]
          /\ LastSays(writes, k, lastWord[k])
      BY <2>1, WizardWords DEF Wizard!WizardInv
    <3>2. k \notin ks
      BY <1>2, <1>3
    <3> QED
      BY <1>3, <3>1, <3>2
  <2>2. PICK p, o, d, l : p = writes' /\ o = stored' /\ d = step' /\ l = lastWord'
    OBVIOUS
  <2>3. \A k \in Keys \ Wizard!StepKeys(d) : l[k] # "none" =>
          (WritesOf(p, k) = {} => o[k] = l[k]) /\ LastSays(p, k, l[k])
    BY <2>1, <2>2
  <2> QED
    BY <2>2, <2>3, WizardWordsNext
<1> QED
  BY <1>4, <1>5, <1>6, <1>7 DEF Wizard!WizardInv

\* What the invariant says of the step that is shown.
LEMMA WizardShownHas ==
  ASSUME Wizard!WizardInv
  PROVE  /\ clicked => "nas_enabled" \in touched
         /\ "rules" \in Wizard!StepKeys(step) => step = 5
         /\ "rules" \in Wizard!StepKeys(step) => shown["rules"] = loaded \/ "rules" \in touched
  BY WizardStepKeys DEF Wizard!WizardInv, Wizard!OnlyTouchedAreSaved

LEMMA WizardNasSeeds ==
  ASSUME Wizard!WizardInv, Wizard!NasSeeds
  PROVE  Wizard!WizardInv'
<1>1. /\ step = 2
      /\ shown' = [shown EXCEPT !["nas_enabled"] = "yes"]
      /\ UNCHANGED <<stored, step, ready, loaded, clicked, context, before, touched, lastWord,
                     edits, runs>>
      /\ Wizard!SaveOnChange
  BY DEF Wizard!NasSeeds, Wizard!history
<1>2. shown' \in [Wizard!AllKeys -> Wizard!Values]
  BY <1>1, WizardTypesHave DEF Wizard!Values
<1>3. "rules" \notin Wizard!StepKeys(step)
  BY <1>1, WizardStepKeys
<1> QED
  BY <1>1, <1>2, <1>3, WizardTypesHave, WizardShownHas, WizardShows

\* What is fetched is shown; nothing of it is the user's.
LEMMA WizardAnswer ==
  ASSUME Wizard!WizardInv, NEW s \in {1, 2, 3, 5, 7}, NEW outcome \in {"ready", "error"}, NEW values,
         \A k \in DOMAIN values : values[k] \in Wizard!Values,
         Wizard!Answer(s, outcome, values), Wizard!SaveOnChange,
         context' \in [telegram : Wizard!Values, integrations : Wizard!Values, profile : BOOLEAN],
         \/ loaded' = loaded /\ "rules" \notin DOMAIN values
         \/ loaded' \in Wizard!Values /\ "rules" \in DOMAIN values /\ values["rules"] = loaded'
  PROVE  Wizard!WizardInv'
<1>1. /\ step = s /\ ready' = outcome
      /\ shown' = [k \in Wizard!AllKeys |->
                     IF k \in Wizard!StepKeys(s) \cap DOMAIN values THEN values[k] ELSE shown[k]]
      /\ UNCHANGED <<stored, step, clicked, before, touched, lastWord, edits, runs>>
  BY DEF Wizard!Answer, Wizard!history
<1>2. shown' \in [Wizard!AllKeys -> Wizard!Values]
  BY <1>1, WizardTypesHave
<1>3. loaded' \in Wizard!Values
  BY WizardTypesHave
<1>4. ASSUME "rules" \in Wizard!StepKeys(step)
      PROVE  shown'["rules"] = loaded' \/ "rules" \in touched'
  <2>1. "rules" \in Wizard!AllKeys
    BY DEF Wizard!AllKeys
  <2>2. shown["rules"] = loaded \/ "rules" \in touched
    BY <1>4, WizardShownHas
  <2> QED
    BY <1>1, <1>4, <2>1, <2>2
<1> QED
  BY <1>1, <1>2, <1>3, <1>4, WizardTypesHave, WizardShownHas, WizardShows

LEMMA WizardArrivals ==
  ASSUME Wizard!WizardInv,
         \/ Wizard!ProfileArrives \/ Wizard!DrivesArrive \/ Wizard!PostureArrives
         \/ Wizard!RulesArrive \/ Wizard!TasksArrive
  PROVE  Wizard!WizardInv'
<1> DEFINE Ctx == [telegram : Wizard!Values, integrations : Wizard!Values, profile : BOOLEAN]
<1>0. /\ context \in Ctx /\ stored \in Wizard!Settings
      /\ "rules" \in Wizard!AllKeys
      /\ stored["rules"] \in Wizard!Values
  BY WizardTypesHave DEF Wizard!Settings, Wizard!AllKeys
<1>1. /\ DOMAIN <<>> = {} /\ "rules" \notin DOMAIN <<>>
      /\ \A k \in DOMAIN <<>> : <<>>[k] \in Wizard!Values
  OBVIOUS
<1>2. CASE Wizard!ProfileArrives
  <2>1. PICK outcome \in {"ready", "error"} :
          /\ Wizard!Answer(1, outcome, <<>>) /\ loaded' = loaded /\ Wizard!SaveOnChange
          /\ context' = [context EXCEPT !.profile = TRUE] \/ context' = context
    BY <1>2 DEF Wizard!ProfileArrives
  <2>2. context' \in Ctx
    BY <1>0, <2>1
  <2> QED
    BY <1>1, <2>1, <2>2, WizardAnswer
<1>3. CASE Wizard!DrivesArrive
  <2>1. /\ context' \in Ctx /\ loaded' = loaded /\ Wizard!SaveOnChange
        /\ \/ Wizard!Answer(2, "ready", [nas_enabled |-> "yes", nas |-> "found"])
           \/ Wizard!Answer(2, "ready", <<>>)
    BY <1>0, <1>3 DEF Wizard!DrivesArrive
  <2>2. CASE Wizard!Answer(2, "ready", <<>>)
    BY <1>1, <2>1, <2>2, WizardAnswer
  <2>3. CASE Wizard!Answer(2, "ready", [nas_enabled |-> "yes", nas |-> "found"])
    <3> DEFINE d == [nas_enabled |-> "yes", nas |-> "found"]
    <3>1. "rules" \notin DOMAIN d /\ \A k \in DOMAIN d : d[k] \in Wizard!Values
      BY DEF Wizard!Values
    <3>2. Wizard!Answer(2, "ready", d)
      BY <2>3
    <3> HIDE DEF d
    <3> QED
      BY <2>1, <3>1, <3>2, WizardAnswer
  <2> QED
    BY <2>1, <2>2, <2>3
<1>4. CASE Wizard!PostureArrives
  <2>1. /\ context' \in Ctx /\ loaded' = loaded /\ Wizard!SaveOnChange
        /\ \/ Wizard!Answer(3, "ready", [rdp |-> "found"])
           \/ \E outcome \in {"ready", "error"} : Wizard!Answer(3, outcome, <<>>)
    BY <1>0, <1>4 DEF Wizard!PostureArrives
  <2>2. ASSUME NEW outcome \in {"ready", "error"}, Wizard!Answer(3, outcome, <<>>)
        PROVE  Wizard!WizardInv'
    BY <1>1, <2>1, <2>2, WizardAnswer
  <2>3. CASE Wizard!Answer(3, "ready", [rdp |-> "found"])
    <3> DEFINE d == [rdp |-> "found"]
    <3>1. "rules" \notin DOMAIN d /\ \A k \in DOMAIN d : d[k] \in Wizard!Values
      BY DEF Wizard!Values
    <3>2. Wizard!Answer(3, "ready", d)
      BY <2>3
    <3> HIDE DEF d
    <3> QED
      BY <2>1, <3>1, <3>2, WizardAnswer
  <2> QED
    BY <2>1, <2>2, <2>3
<1>5. CASE Wizard!RulesArrive
  <2>1. /\ context' \in Ctx /\ Wizard!SaveOnChange
        /\ \/ Wizard!Answer(5, "ready", [rules |-> stored["rules"]]) /\ loaded' = stored["rules"]
           \/ Wizard!Answer(5, "ready", <<>>) /\ loaded' = loaded
    BY <1>0, <1>5 DEF Wizard!RulesArrive
  <2>2. CASE Wizard!Answer(5, "ready", <<>>) /\ loaded' = loaded
    BY <1>1, <2>1, <2>2, WizardAnswer
  <2>3. CASE Wizard!Answer(5, "ready", [rules |-> stored["rules"]]) /\ loaded' = stored["rules"]
    <3> DEFINE d == [rules |-> stored["rules"]]
    <3>1. "rules" \in DOMAIN d /\ d["rules"] = loaded' /\ \A k \in DOMAIN d : d[k] \in Wizard!Values
      BY <1>0, <2>3
    <3>2. Wizard!Answer(5, "ready", d) /\ loaded' \in Wizard!Values
      BY <1>0, <2>3
    <3> HIDE DEF d
    <3> QED
      BY <2>1, <3>1, <3>2, WizardAnswer
  <2> QED
    BY <2>1, <2>2, <2>3
<1>6. CASE Wizard!TasksArrive
  <2>1. /\ context' \in Ctx /\ loaded' = loaded /\ Wizard!SaveOnChange
        /\ Wizard!Answer(7, "ready", <<>>)
    BY <1>0, <1>6 DEF Wizard!TasksArrive
  <2> QED
    BY <1>1, <2>1, WizardAnswer
<1> QED
  BY <1>2, <1>3, <1>4, <1>5, <1>6

\* The user sets a value of the step.
LEMMA WizardSet ==
  ASSUME Wizard!WizardInv, NEW k, NEW v \in Wizard!Values, Wizard!Set(k, v),
         Wizard!SaveOnChange,
         clicked' = clicked \/ (clicked' = TRUE /\ k = "nas_enabled")
  PROVE  Wizard!WizardInv'
<1>1. /\ k \in Wizard!StepKeys(step) /\ edits' = edits + 1
      /\ shown' = [shown EXCEPT ![k] = v] /\ touched' = touched \cup {k}
      /\ UNCHANGED <<stored, step, ready, loaded, context, before, lastWord, runs>>
  BY DEF Wizard!Set, Wizard!Editable
<1>2. k \in Keys
  BY <1>1, WizardStepKeys
<1>3. shown' \in [Wizard!AllKeys -> Wizard!Values] /\ touched' \subseteq Keys /\ edits' \in Nat
  <2>1. /\ shown \in [Wizard!AllKeys -> Wizard!Values] /\ touched \subseteq Keys /\ edits \in Nat
    BY WizardTypesHave
  <2>2. shown' \in [Wizard!AllKeys -> Wizard!Values]
    BY <1>1, <2>1
  <2> QED
    BY <1>1, <1>2, <2>1, <2>2
<1>4. clicked' \in BOOLEAN /\ (clicked' => "nas_enabled" \in touched')
  <2>1. /\ clicked \in BOOLEAN /\ (clicked => "nas_enabled" \in touched)
        /\ touched' = touched \cup {k}
    BY <1>1, WizardTypesHave, WizardShownHas
  <2>2. CASE clicked' = clicked
    BY <2>1, <2>2, Zenon
  <2>3. CASE clicked' = TRUE /\ k = "nas_enabled"
    <3>1. "nas_enabled" \in touched'
      BY <2>1, <2>3
    <3> QED
      BY <2>3, <3>1, Zenon
  <2> QED
    BY <2>2, <2>3, Zenon
<1>5. ASSUME "rules" \in Wizard!StepKeys(step)
      PROVE  shown'["rules"] = loaded' \/ "rules" \in touched'
  <2>1. shown["rules"] = loaded \/ "rules" \in touched
    BY <1>5, WizardShownHas
  <2>2. "rules" \in Wizard!AllKeys
    BY DEF Wizard!AllKeys
  <2>3. CASE k = "rules"
    BY <1>1, <2>3
  <2>4. CASE k # "rules"
    BY <1>1, <2>1, <2>2, <2>4, WizardTypesHave
  <2> QED
    BY <2>3, <2>4
<1> QED
  BY <1>1, <1>3, <1>4, <1>5, WizardTypesHave, WizardShows

LEMMA WizardEdits ==
  ASSUME Wizard!WizardInv,
         (\E k \in Keys : Wizard!Edit(k)) \/ Wizard!ToggleNas \/ Wizard!EditRules
  PROVE  Wizard!WizardInv'
<1>1. ASSUME NEW k \in Keys, Wizard!Edit(k) PROVE Wizard!WizardInv'
  <2>1. Wizard!Typed(edits) \in Wizard!Values
    BY DEF Wizard!Typed, Wizard!Values
  <2> QED
    BY <1>1, <2>1, WizardSet DEF Wizard!Edit
<1>2. CASE Wizard!ToggleNas
  <2>1. PICK v \in {"yes", "no"} : Wizard!Set("nas_enabled", v) /\ clicked' = TRUE /\ Wizard!SaveOnChange
    BY <1>2 DEF Wizard!ToggleNas
  <2>2. v \in Wizard!Values
    BY DEF Wizard!Values
  <2> QED
    BY <2>1, <2>2, WizardSet
<1>3. CASE Wizard!EditRules
  <2>1. PICK v \in {Wizard!Typed(edits), loaded} :
          Wizard!Set("rules", v) /\ clicked' = clicked /\ Wizard!SaveOnChange
    BY <1>3 DEF Wizard!EditRules
  <2>2. v \in Wizard!Values
    BY WizardTypesHave DEF Wizard!Typed, Wizard!Values
  <2> QED
    BY <2>1, <2>2, WizardSet
<1> QED
  BY <1>1, <1>2, <1>3

\* A step is mounted: it shows nothing of the user's, and the rules as if they were loaded.
LEMMA WizardMounts ==
  ASSUME NEW ctx \in [telegram : Wizard!Values, integrations : Wizard!Values, profile : BOOLEAN],
         NEW s, Wizard!Mount(s, ctx)
  PROVE  /\ step' = s /\ shown' \in [Wizard!AllKeys -> Wizard!Values] /\ loaded' \in Wizard!Values
         /\ ready' \in {"loading", "ready", "error"} /\ clicked' = FALSE
         /\ "rules" \in Wizard!StepKeys(s) => shown'["rules"] = loaded'
<1>1. /\ step' = s /\ shown' = Wizard!ShownOn(s, ctx) /\ loaded' = "initial" /\ clicked' = FALSE
      /\ ready' = IF Wizard!Fetching(s) THEN "loading" ELSE "ready"
  BY DEF Wizard!Mount
<1>2. /\ \A k : Wizard!InitialOf(k, ctx) \in Wizard!Values
      /\ Wizard!InitialOf("rules", ctx) = "initial"
  <2>1. ctx["telegram"] \in Wizard!Values /\ ctx["integrations"] \in Wizard!Values
    OBVIOUS
  <2>2. {"no", "initial"} \subseteq Wizard!Values
    BY DEF Wizard!Values
  <2>3. ASSUME NEW k PROVE Wizard!InitialOf(k, ctx) \in Wizard!Values
    <3>1. CASE k \in {"telegram", "integrations"}
      BY <2>1, <3>1 DEF Wizard!InitialOf
    <3>2. CASE k \notin {"telegram", "integrations"}
      BY <2>2, <3>2 DEF Wizard!InitialOf
    <3> QED
      BY <3>1, <3>2
  <2> QED
    BY <2>3 DEF Wizard!InitialOf
<1>3. shown' \in [Wizard!AllKeys -> Wizard!Values] /\ loaded' \in Wizard!Values
  BY <1>1, <1>2 DEF Wizard!ShownOn, Wizard!Values
<1>4. "rules" \in Wizard!StepKeys(s) => shown'["rules"] = loaded'
  BY <1>1, <1>2 DEF Wizard!ShownOn, Wizard!AllKeys
<1> QED
  BY <1>1, <1>3, <1>4

\* A step is left, and the next is mounted, or none.
LEMMA WizardLeaves ==
  ASSUME Wizard!WizardInv, NEW q \in Seq(Wizard!WriteType),
         \A k \in Keys : WritesOf(q, k) = {} <=> WritesOf(writes, k) = {},
         \A k \in Keys : \A v : LastSays(writes, k, v) => LastSays(q, k, v),
         writes' = q \o Wizard!Writes(Wizard!SavedKeys(clicked), Wizard!LastClosure),
         Wizard!Heard,
         NEW s \in Wizard!Closed..Wizard!Last,
         NEW ctx \in [telegram : Wizard!Values, integrations : Wizard!Values, profile : BOOLEAN],
         Wizard!Mount(s, ctx),
         stored' \in Wizard!Settings, \A k \in Wizard!AllKeys : stored'[k] = stored[k],
         context' \in [telegram : Wizard!Values, integrations : Wizard!Values, profile : BOOLEAN],
         UNCHANGED <<before, touched, edits, runs>>
  PROVE  Wizard!WizardInv'
<1>0. /\ shown \in [Wizard!AllKeys -> Wizard!Values] /\ clicked \in BOOLEAN
      /\ lastWord \in [Keys -> Wizard!Values] /\ touched \subseteq Keys
      /\ Keys \subseteq Wizard!AllKeys
  BY WizardTypesHave, KeyAssumption
<1>1. PICK ks \in SUBSET Keys :
        /\ ks = Wizard!SavedKeys(clicked) /\ ks \subseteq Wizard!StepKeys(step)
        /\ "nas_enabled" \in ks => "nas_enabled" \in touched
        /\ "rules" \in ks => "rules" \in touched
  <2>1. /\ Wizard!SavedKeys(clicked) \subseteq Wizard!StepKeys(step)
        /\ Wizard!SavedKeys(clicked) \in SUBSET Keys
        /\ "nas_enabled" \in Wizard!SavedKeys(clicked) => clicked
        /\ "rules" \in Wizard!SavedKeys(clicked) => shown["rules"] # loaded
    BY <1>0, WizardSavedKeys
  <2>2. /\ clicked => "nas_enabled" \in touched
        /\ "rules" \in Wizard!StepKeys(step) => shown["rules"] = loaded \/ "rules" \in touched
    BY WizardShownHas
  <2> QED
    BY <2>1, <2>2
<1>2. PICK p :
        /\ p = writes' /\ p \in Seq(Wizard!WriteType)
        /\ \A k \in ks : WritesOf(p, k) # {} /\ LastSays(p, k, shown[k])
        /\ \A k : k \notin ks =>
             /\ WritesOf(p, k) = WritesOf(q, k)
             /\ \A v : LastSays(q, k, v) => LastSays(p, k, v)
  <2>1. PICK p : p = writes' /\ p = q \o Wizard!Writes(ks, shown)
    BY <1>1 DEF Wizard!LastClosure
  <2>2. /\ p \in Seq(Wizard!WriteType)
        /\ \A k \in ks : WritesOf(p, k) # {} /\ LastSays(p, k, shown[k])
        /\ \A k : k \notin ks =>
             /\ WritesOf(p, k) = WritesOf(q, k)
             /\ \A v : LastSays(q, k, v) => LastSays(p, k, v)
    BY <1>0, <2>1, WizardSaves
  <2> QED
    BY <2>1, <2>2
<1>3. PICK l : /\ l = lastWord'
               /\ l = [k \in Keys |-> IF k \in ks THEN shown[k]
                                      ELSE IF k \in Wizard!StepKeys(step) THEN "none" ELSE lastWord[k]]
  BY <1>1 DEF Wizard!Heard
<1>4. l \in [Keys -> Wizard!Values]
  <2>1. ASSUME NEW k \in Keys PROVE l[k] \in Wizard!Values
    <3>1. "none" \in Wizard!Values
      BY DEF Wizard!Values
    <3> QED
      BY <1>0, <1>3, <3>1
  <2> QED
    BY <1>3, <2>1
<1>5. /\ step' = s /\ shown' \in [Wizard!AllKeys -> Wizard!Values] /\ loaded' \in Wizard!Values
      /\ ready' \in {"loading", "ready", "error"} /\ clicked' = FALSE
      /\ "rules" \in Wizard!StepKeys(s) => shown'["rules"] = loaded'
  BY WizardMounts
<1>6. Wizard!TypeOK'
  BY <1>2, <1>3, <1>4, <1>5, WizardTypesHave, Zenon DEF Wizard!TypeOK
<1>7. Wizard!OnlyTouchedAreSaved'
  <2>1. ASSUME NEW k \in {"nas_enabled", "rules"}, Wizard!Pending(k)' # {} PROVE k \in touched'
    <3>1. WritesOf(p, k) # {}
      BY <1>2, <2>1 DEF Wizard!Pending, WritesOf
    <3>2. CASE k \in ks
      BY <1>1, <3>2
    <3>3. CASE k \notin ks
      <4>1. WritesOf(q, k) # {}
        BY <1>2, <3>1, <3>3
      <4>2. k \in Keys
        <5>1. PICK i \in DOMAIN p : p[i].key = k
          BY <3>1 DEF WritesOf
        <5>2. p[i] \in Wizard!WriteType
          BY <1>2, <5>1
        <5>3. k \in Keys \cup {"first_run_complete"}
          BY <5>1, <5>2 DEF Wizard!WriteType
        <5> QED
          BY <5>3
      <4>3. Wizard!Pending(k) # {}
        BY <4>1, <4>2 DEF Wizard!Pending, WritesOf
      <4> QED
        BY <4>3 DEF Wizard!WizardInv, Wizard!OnlyTouchedAreSaved
    <3> QED
      BY <3>2, <3>3
  <2>2. clicked' => "nas_enabled" \in touched'
    BY <1>5
  <2>3. "rules" \in Wizard!StepKeys(step)' => shown'["rules"] = loaded' \/ "rules" \in touched'
    <3>1. Wizard!StepKeys(step)' = Wizard!StepKeys(s)
      BY <1>5 DEF Wizard!StepKeys
    <3> QED
      BY <1>5, <3>1
  <2> QED
    BY <2>1, <2>2, <2>3 DEF Wizard!OnlyTouchedAreSaved
<1>8. Wizard!ChoicesAreKept'
  <2>1. {"nas_enabled", "rules"} \subseteq Wizard!AllKeys
    BY DEF Wizard!AllKeys
  <2> QED
    BY <2>1 DEF Wizard!WizardInv, Wizard!ChoicesAreKept, Wizard!KeptUnlessTouched
<1>9. Wizard!LastWordIsOnItsWay'
  <2>1. ASSUME NEW k \in Keys \ Wizard!StepKeys(s), l[k] # "none"
        PROVE  /\ WritesOf(p, k) = {} => stored'[k] = l[k]
               /\ LastSays(p, k, l[k])
    <3>1. CASE k \in ks
      BY <1>2, <1>3, <3>1
    <3>2. CASE k \notin ks
      <4>1. k \notin Wizard!StepKeys(step) /\ l[k] = lastWord[k]
        BY <1>3, <2>1, <3>2
      <4>2. /\ WritesOf(writes, k) = {} => stored[k] = lastWord[k]
            /\ LastSays(writes, k, lastWord[k])
        BY <2>1, <4>1, WizardWords DEF Wizard!WizardInv
      <4>3. LastSays(p, k, lastWord[k])
        BY <1>2, <3>2, <4>2
      <4>4. WritesOf(p, k) = {} => stored'[k] = lastWord[k]
        BY <1>0, <1>2, <3>2, <4>2
      <4> QED
        BY <4>1, <4>3, <4>4
    <3> QED
      BY <3>1, <3>2
  <2>2. PICK o, d : o = stored' /\ d = step' /\ d = s
    BY <1>5
  <2>3. \A k \in Keys \ Wizard!StepKeys(d) : l[k] # "none" =>
          (WritesOf(p, k) = {} => o[k] = l[k]) /\ LastSays(p, k, l[k])
    BY <2>1, <2>2, Zenon
  <2>4. p = writes' /\ o = stored' /\ d = step' /\ l = lastWord'
    BY <1>2, <1>3, <2>2
  <2> QED
    BY ONLY <2>3, <2>4, WizardWordsNext
<1> QED
  BY <1>6, <1>7, <1>8, <1>9 DEF Wizard!WizardInv

\* Next and Back.
LEMMA WizardGoes ==
  ASSUME Wizard!WizardInv, NEW s \in 0..Wizard!Last, Wizard!GoTo(s)
  PROVE  Wizard!WizardInv'
<1>1. /\ writes' = writes \o Wizard!Writes(Wizard!SavedKeys(clicked), Wizard!LastClosure)
      /\ Wizard!Heard /\ Wizard!Mount(s, context)
      /\ UNCHANGED <<stored, context, before, touched, edits, runs>>
  BY DEF Wizard!GoTo, Wizard!SaveOnLeave
<1>2. s \in Wizard!Closed..Wizard!Last
  BY DEF Wizard!Closed, Wizard!Last
<1> QED
  BY <1>1, <1>2, WizardTypesHave, WizardLeaves

\* A write arrives that does not close the wizard.
LEMMA WizardStores ==
  ASSUME Wizard!WizardInv, writes # <<>>, NEW ok \in BOOLEAN, NEW w, w = Head(writes),
         ~(w.key = "first_run_complete" /\ step # Wizard!Closed),
         stored' = IF ok THEN [stored EXCEPT ![w.key] = w.value] ELSE stored,
         writes' = Tail(writes),
         lastWord' = IF ok \/ \E i \in 2..Len(writes) : writes[i].key = w.key
                     THEN lastWord ELSE [lastWord EXCEPT ![w.key] = "none"],
         context' = Wizard!Remembered(w),
         UNCHANGED <<step, shown, ready, loaded, clicked, before, touched, edits, runs>>
  PROVE  Wizard!WizardInv'
<1>0. /\ stored \in Wizard!Settings /\ lastWord \in [Keys -> Wizard!Values]
      /\ context \in [telegram : Wizard!Values, integrations : Wizard!Values, profile : BOOLEAN]
      /\ writes \in Seq(Wizard!WriteType)
      /\ Keys \subseteq Wizard!AllKeys
  BY WizardTypesHave, KeyAssumption
<1>1. PICK p : /\ p = writes' /\ p \in Seq(Wizard!WriteType) /\ w \in Wizard!WriteType
               /\ \A k : /\ WritesOf(writes, k) = {} => WritesOf(p, k) = {} /\ w.key # k
                         /\ WritesOf(p, k) = {} =>
                              /\ \A i \in 2..Len(writes) : writes[i].key # k
                              /\ WritesOf(writes, k) = {} \/ w.key = k
                         /\ \A v : LastSays(writes, k, v) =>
                              /\ LastSays(p, k, v)
                              /\ WritesOf(p, k) = {} /\ w.key = k => w.value = v
  <2>1. PICK p : p = writes' /\ p = Tail(writes)
    OBVIOUS
  <2>2. p \in Seq(Wizard!WriteType) /\ w \in Wizard!WriteType
    BY <1>0, <2>1, WizardQueueMoves
  <2>3. ASSUME NEW k
        PROVE  /\ WritesOf(writes, k) = {} => WritesOf(p, k) = {} /\ w.key # k
               /\ WritesOf(p, k) = {} =>
                    /\ \A i \in 2..Len(writes) : writes[i].key # k
                    /\ WritesOf(writes, k) = {} \/ w.key = k
               /\ \A v : LastSays(writes, k, v) =>
                    /\ LastSays(p, k, v)
                    /\ WritesOf(p, k) = {} /\ w.key = k => w.value = v
    <3>1. Tail(writes) = p /\ Head(writes) = w
      BY <2>1
    <3>2. /\ writes \in Seq(Wizard!WriteType) /\ writes # <<>>
      BY <1>0
    <3> QED
      BY ONLY <3>1, <3>2, WizardQueueMoves
  <2> QED
    BY <2>1, <2>2, <2>3
<1>2. /\ w.key \in Keys \cup {"first_run_complete"} /\ w.value \in Wizard!Values
      /\ "none" \in Wizard!Values
  BY <1>1 DEF Wizard!WriteType, Wizard!Values
<1>3. PICK o : /\ o = stored' /\ o \in Wizard!Settings
               /\ \A k \in Wizard!AllKeys : k # w.key => o[k] = stored[k]
               /\ \A k \in Wizard!AllKeys : k = w.key /\ ok => o[k] = w.value
  BY <1>0, <1>2 DEF Wizard!Settings
<1>4. PICK l : /\ l = lastWord' /\ l \in [Keys -> Wizard!Values]
               /\ \A k \in Keys : l[k] # "none" =>
                    /\ l[k] = lastWord[k]
                    /\ k = w.key => ok \/ \E i \in 2..Len(writes) : writes[i].key = k
  BY <1>0, <1>2
<1>5. context' \in [telegram : Wizard!Values, integrations : Wizard!Values, profile : BOOLEAN]
  <2>1. CASE w.key = "telegram"
    BY <1>0, <1>2, <2>1 DEF Wizard!Remembered
  <2>2. CASE w.key = "integrations"
    BY <1>0, <1>2, <2>2 DEF Wizard!Remembered
  <2>3. CASE w.key \notin {"telegram", "integrations"}
    BY <1>0, <2>3 DEF Wizard!Remembered
  <2> QED
    BY <2>1, <2>2, <2>3
<1>6. Wizard!TypeOK'
  BY <1>1, <1>3, <1>4, <1>5, WizardTypesHave, Zenon DEF Wizard!TypeOK
<1>7. Wizard!OnlyTouchedAreSaved'
  <2>1. ASSUME NEW k \in {"nas_enabled", "rules"}, Wizard!Pending(k)' # {} PROVE k \in touched'
    <3>1. WritesOf(p, k) # {}
      BY <1>1, <2>1 DEF Wizard!Pending, WritesOf
    <3>2. WritesOf(writes, k) # {}
      BY <1>1, <3>1
    <3>3. Wizard!Pending(k) # {}
      BY <3>2 DEF Wizard!Pending, WritesOf
    <3> QED
      BY <3>3 DEF Wizard!WizardInv, Wizard!OnlyTouchedAreSaved
  <2>2. clicked' => "nas_enabled" \in touched'
    BY WizardShownHas, Zenon
  <2>3. "rules" \in Wizard!StepKeys(step)' => shown'["rules"] = loaded' \/ "rules" \in touched'
    <3>1. Wizard!StepKeys(step)' = Wizard!StepKeys(step)
      BY DEF Wizard!StepKeys
    <3> QED
      BY <3>1, WizardShownHas
  <2> QED
    BY <2>1, <2>2, <2>3 DEF Wizard!OnlyTouchedAreSaved
<1>8. Wizard!ChoicesAreKept'
  <2>1. ASSUME NEW k \in {"nas_enabled", "rules"} PROVE o[k] = before[k] \/ k \in touched
    <3>1. k \in Wizard!AllKeys
      BY DEF Wizard!AllKeys
    <3>2. CASE w.key = k
      <4>1. WritesOf(writes, k) # {}
        BY <1>1, <3>2
      <4>2. Wizard!Pending(k) # {}
        BY <4>1 DEF Wizard!Pending, WritesOf
      <4> QED
        BY <4>2 DEF Wizard!WizardInv, Wizard!OnlyTouchedAreSaved
    <3>3. CASE w.key # k
      <4>1. stored[k] = before[k] \/ k \in touched
        BY DEF Wizard!WizardInv, Wizard!ChoicesAreKept, Wizard!KeptUnlessTouched
      <4> QED
        BY <1>3, <3>1, <3>3, <4>1
    <3> QED
      BY <3>2, <3>3
  <2> QED
    BY <1>3, <2>1 DEF Wizard!ChoicesAreKept, Wizard!KeptUnlessTouched
<1>9. Wizard!LastWordIsOnItsWay'
  <2>1. PICK d : d = step' /\ d = step
    OBVIOUS
  <2>2. ASSUME NEW k \in Keys \ Wizard!StepKeys(d), l[k] # "none"
        PROVE  (WritesOf(p, k) = {} => o[k] = l[k]) /\ LastSays(p, k, l[k])
    <3>1. /\ l[k] = lastWord[k] /\ k \in Wizard!AllKeys
          /\ k = w.key => ok \/ \E i \in 2..Len(writes) : writes[i].key = k
      BY <1>0, <1>4, <2>2
    <3>2. /\ WritesOf(writes, k) = {} => stored[k] = lastWord[k]
          /\ LastSays(writes, k, lastWord[k])
      BY <2>1, <2>2, <3>1, WizardWords DEF Wizard!WizardInv
    <3>3. LastSays(p, k, l[k])
      BY <1>1, <3>1, <3>2
    <3>4. ASSUME WritesOf(p, k) = {} PROVE o[k] = l[k]
      <4>1. CASE w.key = k
        <5>1. ok
          BY <1>1, <3>1, <3>4, <4>1
        <5>2. w.value = lastWord[k]
          BY <1>1, <3>2, <3>4, <4>1
        <5> QED
          BY <1>3, <3>1, <4>1, <5>1, <5>2
      <4>2. CASE w.key # k
        <5>1. stored[k] = lastWord[k]
          BY <1>1, <3>2, <3>4, <4>2
        <5> QED
          BY <1>3, <3>1, <4>2, <5>1
      <4> QED
        BY <4>1, <4>2
    <3> QED
      BY <3>3, <3>4
  <2>3. \A k \in Keys \ Wizard!StepKeys(d) : l[k] # "none" =>
          (WritesOf(p, k) = {} => o[k] = l[k]) /\ LastSays(p, k, l[k])
    BY <2>2, Zenon
  <2>4. p = writes' /\ o = stored' /\ d = step' /\ l = lastWord'
    BY <1>1, <1>3, <1>4, <2>1
  <2> QED
    BY ONLY <2>3, <2>4, WizardWordsNext
<1> QED
  BY <1>6, <1>7, <1>8, <1>9 DEF Wizard!WizardInv

LEMMA WizardFresh ==
  /\ Wizard!FreshContext \in [telegram : Wizard!Values, integrations : Wizard!Values, profile : BOOLEAN]
  /\ {0, Wizard!Closed} \subseteq Wizard!Closed..Wizard!Last
BY DEF Wizard!FreshContext, Wizard!Values, Wizard!Closed, Wizard!Last

LEMMA WizardArrives ==
  ASSUME Wizard!WizardInv, Wizard!Arrives
  PROVE  Wizard!WizardInv'
<1>0. writes # <<>> /\ UNCHANGED <<before, touched, edits, runs>>
  BY DEF Wizard!Arrives
<1> DEFINE w == Head(writes)
<1>1. PICK ok \in BOOLEAN :
        /\ stored' = IF ok THEN [stored EXCEPT ![w.key] = w.value] ELSE stored
        /\ IF w.key = "first_run_complete" /\ step # Wizard!Closed
           THEN /\ Wizard!Heard
                /\ writes' = Tail(writes)
                               \o Wizard!Writes(Wizard!SavedKeys(clicked), Wizard!LastClosure)
                /\ Wizard!Mount(Wizard!Closed, Wizard!FreshContext)
                /\ context' = Wizard!FreshContext
           ELSE /\ writes' = Tail(writes)
                /\ lastWord' = IF ok \/ \E i \in 2..Len(writes) : writes[i].key = w.key
                               THEN lastWord ELSE [lastWord EXCEPT ![w.key] = "none"]
                /\ context' = Wizard!Remembered(w)
                /\ UNCHANGED Wizard!page
  BY Zenon DEF Wizard!Arrives
<1>2. CASE ~(w.key = "first_run_complete" /\ step # Wizard!Closed)
  <2>1. PICK a : a = Head(writes) /\ a = w
    OBVIOUS
  <2>2. /\ stored' = IF ok THEN [stored EXCEPT ![a.key] = a.value] ELSE stored
        /\ writes' = Tail(writes)
        /\ lastWord' = IF ok \/ \E i \in 2..Len(writes) : writes[i].key = a.key
                       THEN lastWord ELSE [lastWord EXCEPT ![a.key] = "none"]
        /\ context' = Wizard!Remembered(a)
        /\ UNCHANGED <<step, shown, ready, loaded, clicked>>
        /\ ~(a.key = "first_run_complete" /\ step # Wizard!Closed)
    BY <1>1, <1>2, <2>1 DEF Wizard!page
  <2> HIDE DEF w
  <2> QED
    BY <1>0, <2>1, <2>2, WizardStores
<1>3. CASE w.key = "first_run_complete" /\ step # Wizard!Closed
  <2> DEFINE q == Tail(writes)
  <2>1. /\ Wizard!Heard /\ Wizard!Mount(Wizard!Closed, Wizard!FreshContext)
        /\ writes' = q \o Wizard!Writes(Wizard!SavedKeys(clicked), Wizard!LastClosure)
        /\ context' = Wizard!FreshContext
    BY <1>1, <1>3
  <2>2. /\ stored \in Wizard!Settings /\ writes \in Seq(Wizard!WriteType)
        /\ Keys \subseteq Wizard!AllKeys /\ "first_run_complete" \notin Wizard!AllKeys
    BY WizardTypesHave, KeyAssumption DEF Wizard!AllKeys
  <2>3. /\ q \in Seq(Wizard!WriteType) /\ w \in Wizard!WriteType
        /\ \A k : /\ WritesOf(writes, k) = {} => WritesOf(q, k) = {} /\ w.key # k
                  /\ WritesOf(q, k) = {} => WritesOf(writes, k) = {} \/ w.key = k
                  /\ \A v : LastSays(writes, k, v) => LastSays(q, k, v)
    BY <1>0, <2>2, WizardQueueMoves
  <2>4. w.value \in Wizard!Values
    BY <2>3 DEF Wizard!WriteType
  <2>5. stored' \in Wizard!Settings /\ \A k \in Wizard!AllKeys : stored'[k] = stored[k]
    BY <1>1, <1>3, <2>2, <2>4 DEF Wizard!Settings
  <2>6. /\ \A k \in Keys : WritesOf(q, k) = {} <=> WritesOf(writes, k) = {}
        /\ \A k \in Keys : \A v : LastSays(writes, k, v) => LastSays(q, k, v)
    BY <1>3, <2>2, <2>3
  <2> HIDE DEF w, q
  <2> QED
    BY <1>0, <2>1, <2>3, <2>5, <2>6, WizardFresh, WizardLeaves
<1> QED
  BY <1>2, <1>3

\* The mark that the wizard is complete is on its way.
LEMMA WizardCompletes ==
  ASSUME Wizard!WizardInv, Wizard!Complete
  PROVE  Wizard!WizardInv'
<1> DEFINE r == <<[key |-> "first_run_complete", value |-> "yes"]>>
<1>0. /\ writes \in Seq(Wizard!WriteType) /\ Keys \subseteq Wizard!AllKeys
      /\ "first_run_complete" \notin Wizard!AllKeys
      /\ "yes" \in Wizard!Values
  BY WizardTypesHave, KeyAssumption DEF Wizard!AllKeys, Wizard!Values
<1>1. /\ writes' = Append(writes, [key |-> "first_run_complete", value |-> "yes"])
      /\ UNCHANGED <<stored, step, shown, ready, loaded, clicked, context, before, touched,
                     lastWord, edits, runs>>
  BY DEF Wizard!Complete, Wizard!page, Wizard!history
<1>2. [key |-> "first_run_complete", value |-> "yes"] \in Wizard!WriteType
  BY <1>0 DEF Wizard!WriteType
<1>3. /\ r \in Seq(Wizard!WriteType) /\ DOMAIN r = {1} /\ writes' = writes \o r
      /\ r[1] = [key |-> "first_run_complete", value |-> "yes"]
  BY <1>0, <1>1, <1>2
<1> HIDE DEF r
<1>4. PICK values : values = [k \in {"first_run_complete"} |-> "yes"]
  OBVIOUS
<1>5. /\ \A i \in DOMAIN r : r[i].key \in {"first_run_complete"} /\ r[i].value = values[r[i].key]
      /\ \A k \in {"first_run_complete"} : \E i \in DOMAIN r : r[i].key = k
  BY <1>3, <1>4
<1>6. PICK p : /\ p = writes' /\ p \in Seq(Wizard!WriteType)
               /\ \A k \in Wizard!AllKeys :
                    /\ WritesOf(p, k) = WritesOf(writes, k)
                    /\ \A v : LastSays(writes, k, v) => LastSays(p, k, v)
  <2>1. PICK p : p = writes' /\ p = writes \o r
    BY <1>3
  <2>2. ASSUME NEW k \in Wizard!AllKeys
        PROVE  /\ p \in Seq(Wizard!WriteType) /\ WritesOf(p, k) = WritesOf(writes, k)
               /\ \A v : LastSays(writes, k, v) => LastSays(p, k, v)
    <3>1. k \notin {"first_run_complete"}
      BY <1>0
    <3>2. writes \in Seq(Wizard!WriteType) /\ r \in Seq(Wizard!WriteType)
      BY <1>0, <1>3
    <3>3. /\ writes \o r \in Seq(Wizard!WriteType)
          /\ k \in {"first_run_complete"} =>
               /\ WritesOf(writes \o r, k) # {}
               /\ LastSays(writes \o r, k, values[k])
          /\ k \notin {"first_run_complete"} =>
               /\ WritesOf(writes \o r, k) = WritesOf(writes, k)
               /\ \A v : LastSays(writes, k, v) => LastSays(writes \o r, k, v)
      BY ONLY <1>5, <3>2, WizardQueueGrows
    <3> QED
      BY <2>1, <3>1, <3>3
  <2>3. p \in Seq(Wizard!WriteType)
    BY <1>0, <1>3, <2>1
  <2> QED
    BY <2>1, <2>2, <2>3
<1>7. Wizard!TypeOK'
  BY <1>1, <1>6, WizardTypesHave, Zenon DEF Wizard!TypeOK
<1>8. Wizard!OnlyTouchedAreSaved'
  <2>1. ASSUME NEW k \in {"nas_enabled", "rules"}, Wizard!Pending(k)' # {} PROVE k \in touched'
    <3>1. k \in Wizard!AllKeys
      BY DEF Wizard!AllKeys
    <3>2. WritesOf(writes, k) # {}
      BY <1>6, <2>1, <3>1 DEF Wizard!Pending, WritesOf
    <3>3. Wizard!Pending(k) # {}
      BY <3>2 DEF Wizard!Pending, WritesOf
    <3> QED
      BY <1>1, <3>3 DEF Wizard!WizardInv, Wizard!OnlyTouchedAreSaved
  <2>2. clicked' => "nas_enabled" \in touched'
    BY <1>1, WizardShownHas, Zenon
  <2>3. "rules" \in Wizard!StepKeys(step)' => shown'["rules"] = loaded' \/ "rules" \in touched'
    <3>1. Wizard!StepKeys(step)' = Wizard!StepKeys(step)
      BY <1>1 DEF Wizard!StepKeys
    <3> QED
      BY <1>1, <3>1, WizardShownHas
  <2> QED
    BY <2>1, <2>2, <2>3 DEF Wizard!OnlyTouchedAreSaved
<1>9. Wizard!ChoicesAreKept'
  BY <1>1 DEF Wizard!WizardInv, Wizard!ChoicesAreKept, Wizard!KeptUnlessTouched
<1>10. Wizard!LastWordIsOnItsWay'
  <2>1. PICK d, o, l : d = step' /\ d = step /\ o = stored' /\ o = stored /\ l = lastWord' /\ l = lastWord
    BY <1>1
  <2>2. ASSUME NEW k \in Keys \ Wizard!StepKeys(d), l[k] # "none"
        PROVE  (WritesOf(p, k) = {} => o[k] = l[k]) /\ LastSays(p, k, l[k])
    <3>1. /\ WritesOf(writes, k) = {} => stored[k] = lastWord[k]
          /\ LastSays(writes, k, lastWord[k])
      BY <2>1, <2>2, WizardWords DEF Wizard!WizardInv
    <3> QED
      BY <1>0, <1>6, <2>1, <3>1
  <2>3. \A k \in Keys \ Wizard!StepKeys(d) : l[k] # "none" =>
          (WritesOf(p, k) = {} => o[k] = l[k]) /\ LastSays(p, k, l[k])
    BY <2>2, Zenon
  <2>4. p = writes' /\ o = stored' /\ d = step' /\ l = lastWord'
    BY <1>6, <2>1
  <2> QED
    BY ONLY <2>3, <2>4, WizardWordsNext
<1> QED
  BY <1>7, <1>8, <1>9, <1>10 DEF Wizard!WizardInv

\* A run of the wizard begins, or the application starts: nothing is on its way.
LEMMA WizardBegins ==
  ASSUME Wizard!WizardInv, Wizard!Begins, writes' = <<>>, stored' \in Wizard!Settings,
         before' = stored', NEW s \in Wizard!Closed..Wizard!Last,
         Wizard!Mount(s, Wizard!FreshContext)
  PROVE  Wizard!WizardInv'
<1>1. /\ runs' = runs + 1 /\ touched' = {} /\ edits' = edits
      /\ lastWord' = [k \in Keys |-> "none"] /\ context' = Wizard!FreshContext
  BY DEF Wizard!Begins
<1>2. /\ step' = s /\ shown' \in [Wizard!AllKeys -> Wizard!Values] /\ loaded' \in Wizard!Values
      /\ ready' \in {"loading", "ready", "error"} /\ clicked' = FALSE
      /\ "rules" \in Wizard!StepKeys(s) => shown'["rules"] = loaded'
  BY WizardFresh, WizardMounts
<1>3. /\ writes' \in Seq(Wizard!WriteType) /\ runs' \in Nat /\ edits' \in Nat
      /\ lastWord' \in [Keys -> Wizard!Values]
  <2>1. "none" \in Wizard!Values
    BY DEF Wizard!Values
  <2>2. runs \in Nat /\ edits \in Nat
    BY WizardTypesHave
  <2> QED
    BY <1>1, <2>1, <2>2
<1>4. Wizard!TypeOK'
  <2>1. FALSE \in BOOLEAN /\ {} \subseteq Keys
    OBVIOUS
  <2> QED
    BY <1>1, <1>2, <1>3, <2>1, WizardFresh, Zenon DEF Wizard!TypeOK
<1>5. Wizard!OnlyTouchedAreSaved'
  <2>1. \A k : Wizard!Pending(k)' = {}
    BY DEF Wizard!Pending
  <2>2. Wizard!StepKeys(step)' = Wizard!StepKeys(s)
    BY <1>2 DEF Wizard!StepKeys
  <2> QED
    BY <1>2, <2>1, <2>2 DEF Wizard!OnlyTouchedAreSaved
<1>6. Wizard!ChoicesAreKept'
  BY DEF Wizard!ChoicesAreKept, Wizard!KeptUnlessTouched
<1>7. Wizard!LastWordIsOnItsWay'
  BY <1>1 DEF Wizard!LastWordIsOnItsWay
<1> QED
  BY <1>4, <1>5, <1>6, <1>7 DEF Wizard!WizardInv

LEMMA WizardStarts ==
  ASSUME Wizard!WizardInv, Wizard!Rerun \/ Wizard!Restart
  PROVE  Wizard!WizardInv'
<1>0. stored \in Wizard!Settings
  BY WizardTypesHave
<1>1. CASE Wizard!Rerun
  <2>1. /\ stored' = [stored EXCEPT !["first_run_complete"] = "no"] /\ before' = stored'
        /\ writes' = <<>> /\ Wizard!Begins /\ Wizard!Mount(0, Wizard!FreshContext)
    BY <1>1 DEF Wizard!Rerun, Wizard!Opened
  <2>2. stored' \in Wizard!Settings
    BY <1>0, <2>1 DEF Wizard!Settings, Wizard!Values
  <2>3. 0 \in Wizard!Closed..Wizard!Last
    BY WizardFresh
  <2> QED
    BY <2>1, <2>2, <2>3, WizardBegins
<1>2. CASE Wizard!Restart
  <2>1. PICK s \in {0, Wizard!Closed} : Wizard!Mount(s, Wizard!FreshContext)
    BY <1>2 DEF Wizard!Restart, Wizard!Opened
  <2>2. stored' = stored /\ before' = stored /\ writes' = <<>> /\ Wizard!Begins
    BY <1>2 DEF Wizard!Restart
  <2>3. s \in Wizard!Closed..Wizard!Last
    BY <2>1, WizardFresh
  <2> QED
    BY <1>0, <2>1, <2>2, <2>3, WizardBegins
<1> QED
  BY <1>1, <1>2

LEMMA WizardInit == Wizard!Init => Wizard!WizardInv
<1> SUFFICES ASSUME Wizard!Init PROVE Wizard!WizardInv
  OBVIOUS
<1> DEFINE All == Wizard!AllKeys \cup {"first_run_complete"}
<1>1. /\ before = stored
      /\ shown = [k \in Wizard!AllKeys |-> "none"] /\ ready = "ready" /\ loaded = "initial"
      /\ clicked = FALSE /\ context = Wizard!FreshContext /\ writes = <<>>
      /\ touched = {} /\ edits = 0 /\ runs = 1
      /\ lastWord = [k \in Keys |-> "none"]
  BY DEF Wizard!Init
<1>2. step \in {0, Wizard!Closed}
  BY DEF Wizard!Init
<1>3. stored \in Wizard!Settings
  BY DEF Wizard!Init, Wizard!Settings, Wizard!Values
<1>4. Wizard!TypeOK
  <2>1. /\ shown \in [Wizard!AllKeys -> Wizard!Values] /\ loaded \in Wizard!Values
        /\ lastWord \in [Keys -> Wizard!Values] /\ writes \in Seq(Wizard!WriteType)
        /\ ready \in {"loading", "ready", "error"} /\ clicked \in BOOLEAN /\ touched \subseteq Keys
        /\ edits \in Nat /\ runs \in Nat
    <3>1. "none" \in Wizard!Values /\ "initial" \in Wizard!Values
      BY DEF Wizard!Values
    <3>2. /\ shown \in [Wizard!AllKeys -> Wizard!Values] /\ loaded \in Wizard!Values
          /\ lastWord \in [Keys -> Wizard!Values] /\ writes \in Seq(Wizard!WriteType)
      BY <1>1, <3>1
    <3>3. /\ ready \in {"loading", "ready", "error"} /\ clicked \in BOOLEAN /\ touched \subseteq Keys
          /\ edits \in Nat /\ runs \in Nat
      BY <1>1
    <3> QED
      BY <3>2, <3>3
  <2>2. step \in Wizard!Closed..Wizard!Last
    BY <1>2, WizardFresh
  <2> QED
    BY <1>1, <1>3, <2>1, <2>2, WizardFresh, Zenon DEF Wizard!TypeOK
<1>5. Wizard!OnlyTouchedAreSaved
  <2>1. "rules" \notin Wizard!StepKeys(step)
    BY <1>2, WizardStepKeys DEF Wizard!Closed
  <2>2. \A k : Wizard!Pending(k) = {}
    BY <1>1 DEF Wizard!Pending
  <2> QED
    BY <1>1, <2>1, <2>2 DEF Wizard!OnlyTouchedAreSaved
<1>6. Wizard!ChoicesAreKept
  BY <1>1 DEF Wizard!ChoicesAreKept, Wizard!KeptUnlessTouched
<1>7. Wizard!LastWordIsOnItsWay
  BY <1>1 DEF Wizard!LastWordIsOnItsWay
<1> QED
  BY <1>4, <1>5, <1>6, <1>7 DEF Wizard!WizardInv

LEMMA WizardStep ==
  ASSUME Wizard!WizardInv, [Wizard!Next]_wizardVars
  PROVE  Wizard!WizardInv'
<1>1. CASE UNCHANGED wizardVars
  BY <1>1 DEF wizardVars, Wizard!WizardInv, Wizard!TypeOK, Wizard!OnlyTouchedAreSaved,
     Wizard!ChoicesAreKept, Wizard!KeptUnlessTouched, Wizard!LastWordIsOnItsWay, Wizard!Pending,
     Wizard!StepKeys
<1>2. CASE Wizard!Next
  BY <1>2, WizardArrives, WizardNasSeeds, WizardArrivals, WizardEdits, WizardGoes,
     WizardCompletes, WizardStarts
  DEF Wizard!Next
<1> QED
  BY <1>1, <1>2

\* When nothing is on its way, the last words are stored.
LEMMA WizardKeeps == Wizard!WizardInv => Wizard!ChoicesAreKept /\ Wizard!LastWordIsStored
<1> SUFFICES ASSUME Wizard!WizardInv, writes = <<>>, NEW k \in Keys \ Wizard!StepKeys(step)
             PROVE  lastWord[k] = "none" \/ stored[k] = lastWord[k]
  BY DEF Wizard!WizardInv, Wizard!LastWordIsStored
<1>1. Wizard!Pending(k) = {}
  BY DEF Wizard!Pending
<1> QED
  BY <1>1 DEF Wizard!WizardInv, Wizard!LastWordIsOnItsWay

(***************************************************************************)
(* The Processes page.                                                      *)
(***************************************************************************)

LEMMA ProcessInit == Process!Init => Process!ProcessInv
<1> SUFFICES ASSUME Process!Init PROVE Process!ProcessInv
  OBVIOUS
<1>1. /\ alive = [p \in Pids |-> 1] /\ processes = [p \in Pids |-> 0]
      /\ asked = [r \in Requests |-> [is |-> "none"]]
      /\ suspendedPids = {} /\ busyPid = {} /\ actions = {}
      /\ confirming = Process!Nothing /\ affinityFor = 0 /\ done = 0 /\ errors = 0
  BY DEF Process!Init, Process!Nothing
<1>2. alive \in Process!RowsType /\ processes \in Process!RowsType
  BY <1>1 DEF Process!RowsType
<1>3. asked \in [Requests -> Process!AskedType]
  BY <1>1 DEF Process!AskedType
<1>4. confirming \in Process!DialogType
  BY <1>1 DEF Process!DialogType
<1>5. Process!TypeOK
  BY <1>1, <1>2, <1>3, <1>4 DEF Process!TypeOK
<1> QED
  BY <1>1, <1>5 DEF Process!ProcessInv, Process!OnlyConfirmedOnTheirWay

\* The machine and the lists: the calls on their way stay as they are.
LEMMA ProcessLists ==
  ASSUME Process!ProcessInv,
         \/ \E p \in Pids : Process!ProcessStarts(p) \/ Process!ProcessEnds(p)
         \/ Process!Refresh
         \/ \E r \in Requests : Process!ListIsMade(r) \/ Process!ListArrives(r)
  PROVE  Process!ProcessInv'
<1>0. /\ alive \in Process!RowsType /\ processes \in Process!RowsType
      /\ asked \in [Requests -> Process!AskedType]
      /\ suspendedPids \subseteq Pids /\ errors \in Nat
  BY DEF Process!ProcessInv, Process!TypeOK
<1>1. /\ UNCHANGED <<confirming, affinityFor, busyPid, actions, done>>
      /\ alive' \in Process!RowsType /\ processes' \in Process!RowsType
      /\ asked' \in [Requests -> Process!AskedType]
      /\ suspendedPids' \subseteq Pids /\ errors' \in Nat
  <2>1. ASSUME NEW p \in Pids, Process!ProcessStarts(p) PROVE <1>1!:
    BY <1>0, <2>1 DEF Process!ProcessStarts, Process!page, Process!RowsType
  <2>2. ASSUME NEW p \in Pids, Process!ProcessEnds(p) PROVE <1>1!:
    BY <1>0, <2>2 DEF Process!ProcessEnds, Process!page, Process!RowsType
  <2>3. CASE Process!Refresh
    <3>1. [is |-> "asked"] \in Process!AskedType
      BY DEF Process!AskedType
    <3> QED
      BY <1>0, <2>3, <3>1 DEF Process!Refresh
  <2>4. ASSUME NEW r \in Requests, Process!ListIsMade(r) PROVE <1>1!:
    <3>1. [is |-> "error"] \in Process!AskedType
      BY DEF Process!AskedType
    <3>2. [is |-> "list", rows |-> Process!Listed] \in Process!AskedType
      BY <1>0 DEF Process!AskedType, Process!Listed, Process!RowsType
    <3> QED
      BY <1>0, <2>4, <3>1, <3>2 DEF Process!ListIsMade, Process!page
  <2>5. ASSUME NEW r \in Requests, Process!ListArrives(r) PROVE <1>1!:
    <3>1. Process!Nothing \in Process!AskedType
      BY DEF Process!AskedType, Process!Nothing
    <3>2. asked[r].is = "list" => asked[r].rows \in Process!RowsType
      BY <1>0 DEF Process!AskedType
    <3>3. asked' \in [Requests -> Process!AskedType]
      BY <1>0, <2>5, <3>1 DEF Process!ListArrives
    <3> QED
      BY <1>0, <2>5, <3>2, <3>3 DEF Process!ListArrives, Process!StillListed
  <2> QED
    BY <2>1, <2>2, <2>3, <2>4, <2>5
<1>2. Process!TypeOK'
  BY <1>1, Zenon DEF Process!ProcessInv, Process!TypeOK
<1> QED
  BY <1>1, <1>2 DEF Process!ProcessInv, Process!OnlyConfirmedOnTheirWay, Process!CanConfirm

\* A call is on its way.
LEMMA ProcessBegins ==
  ASSUME Process!ProcessInv,
         NEW k \in {"kill", "suspend", "priority", "resume", "affinity"}, NEW p \in Pids,
         NEW g \in Int, NEW u \in BOOLEAN, Process!Begin(k, p, g, u),
         k \in {"kill", "suspend"} => (<<p, g>> \in Critical => u),
         busyPid' \subseteq Pids, confirming' \in Process!DialogType,
         UNCHANGED <<alive, asked, processes, suspendedPids, affinityFor, errors>>
  PROVE  Process!ProcessInv'
<1> DEFINE b == [id |-> done + 1, is |-> k, pid |-> p, gen |-> g, ok |-> "asked",
                 understood |-> u, here |-> TRUE]
<1>0. done \in Nat /\ actions \subseteq Process!ActionType
  BY DEF Process!ProcessInv, Process!TypeOK
<1>1. done' = done + 1 /\ actions' = actions \cup {b}
  BY DEF Process!Begin
<1>2. /\ b \in Process!ActionType
      /\ b.is = k /\ b.pid = p /\ b.gen = g /\ b.understood = u
  BY <1>0 DEF Process!ActionType
<1> HIDE DEF b
<1>3. Process!TypeOK'
  <2>1. done' \in Nat /\ actions' \subseteq Process!ActionType
    BY <1>0, <1>1, <1>2
  <2> QED
    BY <2>1, Zenon DEF Process!ProcessInv, Process!TypeOK
<1>4. \A a \in actions' : a.is \in {"kill", "suspend"} => (<<a.pid, a.gen>> \in Critical => a.understood)
  BY <1>1, <1>2 DEF Process!ProcessInv, Process!OnlyConfirmedOnTheirWay, Process!CanConfirm
<1> QED
  BY <1>3, <1>4 DEF Process!ProcessInv, Process!OnlyConfirmedOnTheirWay, Process!CanConfirm

\* The dialog and the modal are opened and closed.
LEMMA ProcessDialogs ==
  ASSUME Process!ProcessInv,
         \/ \E p \in Pids : \/ Process!OpenAffinity(p)
                            \/ \E kind \in {"kill", "suspend"} : Process!OpenConfirm(p, kind)
         \/ Process!Understand \/ Process!Cancel
  PROVE  Process!ProcessInv'
<1>0. confirming \in Process!DialogType /\ processes \in Process!RowsType
  BY DEF Process!ProcessInv, Process!TypeOK
<1>1. /\ UNCHANGED <<alive, asked, processes, suspendedPids, busyPid, actions, done, errors>>
      /\ confirming' \in Process!DialogType
      /\ affinityFor' \in Pids \cup {0}
  <2>0. affinityFor \in Pids \cup {0}
    BY DEF Process!ProcessInv, Process!TypeOK
  <2>1. ASSUME NEW p \in Pids, Process!OpenAffinity(p) PROVE <1>1!:
    BY <1>0, <2>1 DEF Process!OpenAffinity
  <2>2. ASSUME NEW p \in Pids, NEW kind \in {"kill", "suspend"}, Process!OpenConfirm(p, kind)
        PROVE  <1>1!:
    BY <1>0, <2>0, <2>2 DEF Process!OpenConfirm, Process!DialogType, Process!RowsType
  <2>3. CASE Process!Understand
    <3>1. confirming' \in Process!DialogType
      BY <1>0, <2>3 DEF Process!Understand, Process!DialogType
    <3> QED
      BY <2>0, <2>3, <3>1 DEF Process!Understand
  <2>4. CASE Process!Cancel
    BY <2>0, <2>4 DEF Process!Cancel, Process!DialogType
  <2> QED
    BY <2>1, <2>2, <2>3, <2>4
<1>2. Process!TypeOK'
  BY <1>1, Zenon DEF Process!ProcessInv, Process!TypeOK
<1> QED
  BY <1>1, <1>2 DEF Process!ProcessInv, Process!OnlyConfirmedOnTheirWay, Process!CanConfirm

\* The user's calls.
LEMMA ProcessCalls ==
  ASSUME Process!ProcessInv,
         \/ Process!Confirm \/ Process!Apply
         \/ \E p \in Pids : Process!ChangePriority(p) \/ Process!Resume(p)
  PROVE  Process!ProcessInv'
<1>0. /\ confirming \in Process!DialogType /\ affinityFor \in Pids \cup {0} /\ busyPid \subseteq Pids
      /\ Process!Nothing \in Process!DialogType
  BY DEF Process!ProcessInv, Process!TypeOK, Process!DialogType
<1>1. CASE Process!Confirm
  <2>1. /\ confirming.is \in {"kill", "suspend"} /\ confirming.pid \in Pids /\ confirming.gen \in Int
        /\ confirming.understood \in BOOLEAN
    BY <1>0, <1>1 DEF Process!Confirm, Process!DialogType
  <2>2. /\ <<confirming.pid, confirming.gen>> \in Critical => confirming.understood
        /\ Process!Begin(confirming.is, confirming.pid, confirming.gen, confirming.understood)
        /\ busyPid' = {confirming.pid} /\ confirming' = Process!Nothing
        /\ UNCHANGED <<alive, asked, processes, suspendedPids, affinityFor, errors>>
    BY <1>1, Zenon DEF Process!Confirm, Process!CanConfirm
  <2>3. busyPid' \subseteq Pids
    BY <2>1, <2>2
  <2> QED
    BY <1>0, <2>1, <2>2, <2>3, ProcessBegins
<1>2. CASE Process!Apply
  <2>1. /\ affinityFor \in Pids /\ Process!Begin("affinity", affinityFor, 0, FALSE)
        /\ UNCHANGED <<alive, asked, processes, suspendedPids, confirming, affinityFor, busyPid,
                       errors>>
    BY <1>0, <1>2 DEF Process!Apply, Process!page
  <2>2. busyPid' \subseteq Pids /\ confirming' \in Process!DialogType /\ 0 \in Int /\ FALSE \in BOOLEAN
    BY <1>0, <2>1
  <2> QED
    BY <2>1, <2>2, ProcessBegins
<1>3. ASSUME NEW p \in Pids, Process!ChangePriority(p) PROVE Process!ProcessInv'
  <2>1. /\ Process!Begin("priority", p, 0, FALSE) /\ busyPid' = {p}
        /\ UNCHANGED <<alive, asked, processes, suspendedPids, confirming, affinityFor, errors>>
    BY <1>3 DEF Process!ChangePriority
  <2>2. busyPid' \subseteq Pids /\ confirming' \in Process!DialogType /\ 0 \in Int /\ FALSE \in BOOLEAN
    BY <1>0, <2>1
  <2> QED
    BY <2>1, <2>2, ProcessBegins
<1>4. ASSUME NEW p \in Pids, Process!Resume(p) PROVE Process!ProcessInv'
  <2>1. /\ Process!Begin("resume", p, 0, FALSE) /\ busyPid' = {p}
        /\ UNCHANGED <<alive, asked, processes, suspendedPids, confirming, affinityFor, errors>>
    BY <1>4 DEF Process!Resume
  <2>2. busyPid' \subseteq Pids /\ confirming' \in Process!DialogType /\ 0 \in Int /\ FALSE \in BOOLEAN
    BY <1>0, <2>1
  <2> QED
    BY <2>1, <2>2, ProcessBegins
<1> QED
  BY <1>1, <1>2, <1>3, <1>4

\* The calls on their way change, but not what they are about.
LEMMA ProcessAnswers ==
  ASSUME Process!ProcessInv,
         \/ Process!CloseAffinity
         \/ \E a \in actions : Process!Performed(a) \/ Process!Answered(a)
  PROVE  Process!ProcessInv'
<1> DEFINE Ok(a) == a.is \in {"kill", "suspend"} => (<<a.pid, a.gen>> \in Critical => a.understood)
<1>0. /\ actions \subseteq Process!ActionType /\ \A a \in actions : Ok(a)
      /\ alive \in Process!RowsType /\ processes \in Process!RowsType
      /\ suspendedPids \subseteq Pids /\ busyPid \subseteq Pids /\ affinityFor \in Pids \cup {0}
  BY DEF Process!ProcessInv, Process!TypeOK, Process!OnlyConfirmedOnTheirWay, Process!CanConfirm
<1>1. /\ UNCHANGED <<asked, confirming, done, errors>>
      /\ actions' \subseteq Process!ActionType /\ \A a \in actions' : Ok(a)
      /\ alive' \in Process!RowsType /\ processes' \in Process!RowsType
      /\ suspendedPids' \subseteq Pids /\ busyPid' \subseteq Pids /\ affinityFor' \in Pids \cup {0}
  <2>1. CASE Process!CloseAffinity
    <3>1. ASSUME NEW a \in actions, NEW h \in BOOLEAN
          PROVE  [a EXCEPT !.here = h] \in Process!ActionType /\ Ok([a EXCEPT !.here = h])
      <4>1. a \in Process!ActionType /\ Ok(a)
        BY <1>0
      <4> QED
        BY <4>1 DEF Process!ActionType
    <3>2. actions' = {[a EXCEPT !.here = a.here /\ a.is # "affinity"] : a \in actions}
      BY <2>1 DEF Process!CloseAffinity
    <3>3. \A a \in actions : (a.here /\ a.is # "affinity") \in BOOLEAN
      OBVIOUS
    <3> HIDE DEF Ok
    <3>4. actions' \subseteq Process!ActionType /\ \A a \in actions' : Ok(a)
      BY <3>1, <3>2, <3>3
    <3> QED
      BY <1>0, <2>1, <3>4 DEF Process!CloseAffinity
  <2>2. ASSUME NEW a \in actions, Process!Performed(a) PROVE <1>1!:
    <3>1. PICK ok \in BOOLEAN :
            /\ actions' = (actions \ {a}) \cup {[a EXCEPT !.ok = IF ok THEN "ok" ELSE "error"]}
            /\ alive' = IF ok /\ a.is = "kill" THEN [alive EXCEPT ![a.pid] = -alive[a.pid]] ELSE alive
      BY <2>2 DEF Process!Performed
    <3> DEFINE b == [a EXCEPT !.ok = IF ok THEN "ok" ELSE "error"]
    <3>2. a \in Process!ActionType /\ Ok(a)
      BY <1>0
    <3>3. b \in Process!ActionType /\ Ok(b)
      BY <3>2 DEF Process!ActionType
    <3>4. a.pid \in Pids
      BY <3>2 DEF Process!ActionType
    <3>5. alive' \in Process!RowsType
      BY <1>0, <3>1, <3>4 DEF Process!RowsType
    <3> HIDE DEF b, Ok
    <3>6. actions' \subseteq Process!ActionType /\ \A c \in actions' : Ok(c)
      BY <1>0, <3>1, <3>3 DEF b
    <3> QED
      BY <1>0, <2>2, <3>5, <3>6 DEF Process!Performed, Process!page
  <2>3. ASSUME NEW a \in actions, Process!Answered(a) PROVE <1>1!:
    <3>1. a.pid \in Pids
      BY <1>0 DEF Process!ActionType
    <3>2. actions' = actions \ {a} /\ UNCHANGED <<alive, asked, confirming, done, errors>>
      BY <2>3 DEF Process!Answered
    <3>3. processes' \in Process!RowsType
      <4>1. /\ processes \in Process!RowsType
            /\ processes' = processes \/ processes' = [processes EXCEPT ![a.pid] = 0]
        BY <1>0, <2>3 DEF Process!Answered
      <4> QED
        BY <4>1 DEF Process!RowsType
    <3>4. suspendedPids' \subseteq Pids
      BY <1>0, <2>3, <3>1 DEF Process!Answered
    <3>5. busyPid' \subseteq Pids /\ affinityFor' \in Pids \cup {0}
      BY <1>0, <2>3 DEF Process!Answered
    <3> HIDE DEF Ok
    <3> QED
      BY <1>0, <3>2, <3>3, <3>4, <3>5
  <2> QED
    BY <2>1, <2>2, <2>3
<1>2. Process!TypeOK'
  BY <1>1, Zenon DEF Process!ProcessInv, Process!TypeOK
<1> QED
  BY <1>1, <1>2 DEF Process!ProcessInv, Process!OnlyConfirmedOnTheirWay, Process!CanConfirm

LEMMA ProcessStep ==
  ASSUME Process!ProcessInv, [Process!Next]_processVars
  PROVE  Process!ProcessInv'
<1>1. CASE UNCHANGED processVars
  BY <1>1 DEF processVars, Process!ProcessInv, Process!TypeOK, Process!OnlyConfirmedOnTheirWay,
     Process!CanConfirm
<1>2. CASE Process!Next
  BY <1>2, ProcessLists, ProcessDialogs, ProcessCalls, ProcessAnswers DEF Process!Next
<1> QED
  BY <1>1, <1>2

\* What the invariant says of a step that does something to a process.
LEMMA ProcessConsent ==
  ASSUME Process!ProcessInv
  PROVE  \A a \in actions :
           /\ a.is \in {"kill", "suspend"} /\ a.ok = "asked"
           /\ [a EXCEPT !.ok = "ok"] \in actions'
           /\ <<a.pid, alive[a.pid]>> \in Critical
           => a.understood \/ alive[a.pid] # a.gen
<1> SUFFICES ASSUME NEW a \in actions, a.is \in {"kill", "suspend"},
                    <<a.pid, alive[a.pid]>> \in Critical, alive[a.pid] = a.gen
             PROVE  a.understood
  OBVIOUS
<1> QED
  BY DEF Process!ProcessInv, Process!OnlyConfirmedOnTheirWay, Process!CanConfirm

(***************************************************************************)
(* The actions of the Dashboard.                                            *)
(***************************************************************************)

LEMMA ActionInit == Action!Init => Action!ActionInv
<1> SUFFICES ASSUME Action!Init PROVE Action!ActionInv
  OBVIOUS
<1>1. /\ findings \in [Cards -> Fixes] /\ changes = 0
      /\ cards = [i \in Cards |-> Action!NewCard]
      /\ reads = {[card |-> i, action |-> findings[i], live |-> TRUE] : i \in Cards}
      /\ skipped = {} /\ running = "none" /\ flows = [f \in Action!Flows |-> Action!NoFlow]
      /\ resultModal = FALSE /\ confirmFor = "none" /\ detail = "none" /\ due = {}
  BY DEF Action!Init, Action!Read
<1>2. /\ Action!NewCard \in Action!CardType /\ ~Action!NewCard.skip
      /\ Action!NoFlow \in Action!FlowType /\ "none" \in Action!Actions
  BY DEF Action!NewCard, Action!CardType, Action!NoFlow, Action!FlowType, Action!Actions
<1>3. reads \subseteq Action!ReadType
  <2>1. ASSUME NEW i \in Cards, NEW q, q = [card |-> i, action |-> findings[i], live |-> TRUE]
        PROVE  q \in Action!ReadType
    BY <1>1, <2>1 DEF Action!ReadType
  <2> QED
    BY <1>1, <2>1
<1>4. Action!TypeOK
  BY <1>1, <1>2, <1>3 DEF Action!TypeOK
<1>5. Action!ReadsAreCurrent
  BY <1>1 DEF Action!ReadsAreCurrent
<1>6. Action!SkipsAreAgreed
  BY <1>1, <1>2 DEF Action!SkipsAreAgreed
<1> QED
  BY <1>4, <1>5, <1>6 DEF Action!ActionInv

LEMMA ActionTypesHave ==
  ASSUME Action!ActionInv
  PROVE  /\ findings \in [Cards -> Fixes] /\ changes \in Nat
         /\ cards \in [Cards -> Action!CardType] /\ reads \subseteq Action!ReadType
         /\ due \subseteq Cards
         /\ skipped \subseteq Action!Actions /\ running \in Action!Actions
         /\ flows \in [Action!Flows -> Action!FlowType]
         /\ resultModal \in BOOLEAN
         /\ confirmFor \in Fixes \cup {"none"} /\ detail \in Fixes \cup {"none"}
  BY DEF Action!ActionInv, Action!TypeOK

\* Where the alerts stay as they are, and no card learns that an action is skipped.
LEMMA ActionKeeps ==
  ASSUME Action!ActionInv, UNCHANGED <<findings, changes, reads, due>>,
         cards' \in [Cards -> Action!CardType],
         \A i \in Cards : cards'[i].skip => cards[i].skip,
         skipped' \subseteq Action!Actions, skipped \subseteq skipped',
         running' \in Action!Actions, flows' \in [Action!Flows -> Action!FlowType],
         resultModal' \in BOOLEAN,
         confirmFor' \in Fixes \cup {"none"}, detail' \in Fixes \cup {"none"}
  PROVE  Action!ActionInv'
<1>1. Action!TypeOK'
  BY ActionTypesHave, Zenon DEF Action!TypeOK
<1>2. Action!ReadsAreCurrent'
  BY DEF Action!ActionInv, Action!ReadsAreCurrent
<1>3. Action!SkipsAreAgreed'
  BY DEF Action!ActionInv, Action!SkipsAreAgreed
<1> QED
  BY <1>1, <1>2, <1>3 DEF Action!ActionInv

\* A flow that a card begins is one of an action that is skipped, or the effect of the card
\* is due.
CardsAgree ==
  \A f \in Action!Flows :
    flows[f] = Action!NoFlow /\ flows'[f].by = "card" =>
      flows'[f].action \in skipped \/ flows'[f].card \in due

LEMMA ActionBegins ==
  ASSUME Action!ActionInv, NEW by \in {"button", "dry run", "direct", "card", "detail"},
         NEW i \in Cards \cup {0}, NEW a \in Fixes, NEW state \in {"saving", "asked"},
         Action!Begin(by, i, a, state), by = "card" => a \in skipped \/ i \in due
  PROVE  /\ flows' \in [Action!Flows -> Action!FlowType] /\ running' \in Action!Actions
         /\ CardsAgree
<1>0. flows \in [Action!Flows -> Action!FlowType] /\ running \in Action!Actions
  BY ActionTypesHave
<1> DEFINE n == [by |-> by, card |-> i, action |-> a, state |-> state, here |-> TRUE]
<1>1. PICK f \in Action!Flows : flows' = [flows EXCEPT ![f] = n]
  BY DEF Action!Begin
<1>2. running' = IF state = "asked" THEN a ELSE running
  BY DEF Action!Begin
<1>3. n \in Action!FlowType /\ n.by = by /\ n.action = a /\ n.card = i /\ a \in Action!Actions
  BY DEF Action!FlowType, Action!Actions
<1>4. Action!NoFlow.by = "none"
  BY DEF Action!NoFlow
<1> HIDE DEF n
<1>5. flows' \in [Action!Flows -> Action!FlowType] /\ running' \in Action!Actions
  BY <1>0, <1>1, <1>2, <1>3
<1>6. CardsAgree
  BY <1>0, <1>1, <1>3, <1>4 DEF CardsAgree
<1> QED
  BY <1>5, <1>6

\* Where the flows stay as they are.
LEMMA ActionIdles ==
  ASSUME Action!ActionInv, UNCHANGED flows
  PROVE  flows' \in [Action!Flows -> Action!FlowType] /\ CardsAgree
  BY ActionTypesHave DEF CardsAgree, Action!NoFlow

\* Another alert comes to a place; what its card has read is of the action before until the
\* effect of the card runs.
LEMMA ActionReports ==
  ASSUME Action!ActionInv, Action!ReportChanges
  PROVE  Action!ActionInv' /\ CardsAgree
<1>0. /\ findings \in [Cards -> Fixes] /\ changes \in Nat
      /\ Action!ReadsAreCurrent /\ Action!SkipsAreAgreed
  BY ActionTypesHave DEF Action!ActionInv
<1>1. PICK i \in Cards, a \in Fixes : findings' = [findings EXCEPT ![i] = a] /\ due' = {i}
  BY DEF Action!ReportChanges
<1>2. /\ changes' = changes + 1 /\ due = {}
      /\ UNCHANGED <<cards, reads, skipped, running, flows, resultModal, confirmFor, detail>>
  BY DEF Action!ReportChanges, Action!modals
<1>3. /\ findings' \in [Cards -> Fixes]
      /\ \A j \in Cards : findings'[j] = findings[j] \/ j \in due'
  BY <1>0, <1>1
<1>4. changes' \in Nat /\ due' \subseteq Cards
  BY <1>0, <1>1, <1>2
<1>5. Action!TypeOK'
  BY <1>2, <1>3, <1>4, ActionTypesHave, Zenon DEF Action!TypeOK
<1>6. Action!ReadsAreCurrent'
  <2>1. \A r \in reads : r.card \in Cards
    BY ActionTypesHave DEF Action!ReadType
  <2> QED
    BY <1>0, <1>2, <1>3, <2>1 DEF Action!ReadsAreCurrent
<1>7. Action!SkipsAreAgreed'
  BY <1>0, <1>2, <1>3 DEF Action!SkipsAreAgreed
<1> QED
  BY <1>2, <1>5, <1>6, <1>7, ActionIdles DEF Action!ActionInv

\* The effect of a card runs: nothing is read of its action, and a read of it is on its way.
LEMMA ActionEffects ==
  ASSUME Action!ActionInv, NEW i \in Cards, Action!EffectRuns(i)
  PROVE  Action!ActionInv' /\ CardsAgree
<1>0. /\ findings \in [Cards -> Fixes] /\ due \subseteq Cards
      /\ cards \in [Cards -> Action!CardType] /\ reads \subseteq Action!ReadType
      /\ Action!ReadsAreCurrent /\ Action!SkipsAreAgreed
  BY ActionTypesHave DEF Action!ActionInv
<1>1. /\ due' = due \ {i}
      /\ cards' = [cards EXCEPT ![i].loaded = FALSE, ![i].skip = FALSE]
      /\ reads' = {[r EXCEPT !.live = r.live /\ r.card # i] : r \in reads} \cup {Action!Read(i)}
  BY DEF Action!EffectRuns
<1>2. UNCHANGED <<findings, changes, skipped, running, flows, resultModal, confirmFor, detail>>
  BY DEF Action!EffectRuns, Action!modals
<1>4. /\ cards' \in [Cards -> Action!CardType]
      /\ ~cards'[i].skip /\ \A j \in Cards : j # i => cards'[j] = cards[j]
  BY <1>0, <1>1 DEF Action!CardType
<1>5. \A r \in reads' : r \in Action!ReadType
                        /\ (r.live => r.action = findings[r.card] \/ r.card \in due')
  <2>1. ASSUME NEW r \in reads, NEW q, q = [r EXCEPT !.live = r.live /\ r.card # i]
        PROVE  q \in Action!ReadType /\ (q.live => q.action = findings[q.card] \/ q.card \in due')
    <3>1. r \in Action!ReadType /\ (r.live => r.action = findings[r.card] \/ r.card \in due)
      BY <1>0 DEF Action!ReadsAreCurrent
    <3>2. q \in Action!ReadType /\ q.card = r.card /\ q.action = r.action /\ r.card \in Cards
      BY <2>1, <3>1 DEF Action!ReadType
    <3>3. q.live <=> (r.live /\ r.card # i)
      BY <2>1, <3>1 DEF Action!ReadType
    <3> QED
      BY <1>1, <3>1, <3>2, <3>3
  <2>2. ASSUME NEW q, q = Action!Read(i)
        PROVE  q \in Action!ReadType /\ q.action = findings[q.card]
    BY <1>0, <2>2 DEF Action!Read, Action!ReadType
  <2> QED
    BY <1>1, <2>1, <2>2
<1>6. Action!TypeOK'
  <2>1. reads' \subseteq Action!ReadType /\ due' \subseteq Cards
    BY <1>0, <1>1, <1>5
  <2> QED
    BY <1>2, <1>4, <2>1, ActionTypesHave, Zenon DEF Action!TypeOK
<1>7. Action!ReadsAreCurrent'
  BY <1>2, <1>5 DEF Action!ReadsAreCurrent
<1>8. Action!SkipsAreAgreed'
  BY <1>0, <1>1, <1>2, <1>4 DEF Action!SkipsAreAgreed
<1> QED
  BY <1>2, <1>6, <1>7, <1>8, ActionIdles DEF Action!ActionInv

LEMMA ActionLoads ==
  ASSUME Action!ActionInv, NEW r \in reads, Action!SkipLoads(r)
  PROVE  Action!ActionInv' /\ CardsAgree
<1>0. /\ findings \in [Cards -> Fixes]
      /\ cards \in [Cards -> Action!CardType] /\ reads \subseteq Action!ReadType
  BY ActionTypesHave
<1>1. /\ reads' = reads \ {r}
      /\ UNCHANGED <<findings, changes, due, skipped, running, flows, resultModal, confirmFor,
                     detail>>
      /\ IF r.live
         THEN \E ok \in BOOLEAN :
                cards' = [cards EXCEPT ![r.card].loaded = TRUE,
                                       ![r.card].skip = ok /\ r.action \in skipped]
         ELSE UNCHANGED cards
  BY DEF Action!SkipLoads, Action!Wanted, Action!modals
<1>2. /\ r.card \in Cards
      /\ r.live => r.action = findings[r.card] \/ r.card \in due
      /\ \A i \in Cards : cards[i].skip => findings[i] \in skipped \/ i \in due
  BY <1>0 DEF Action!ActionInv, Action!ReadsAreCurrent, Action!SkipsAreAgreed, Action!ReadType
<1>3. /\ cards' \in [Cards -> Action!CardType]
      /\ \A i \in Cards : cards'[i].skip => findings[i] \in skipped \/ i \in due
  <2>1. CASE ~r.live
    BY <1>0, <1>1, <1>2, <2>1
  <2>2. CASE r.live
    <3>1. PICK ok \in BOOLEAN :
            cards' = [cards EXCEPT ![r.card].loaded = TRUE,
                                   ![r.card].skip = ok /\ r.action \in skipped]
      BY <1>1, <2>2
    <3> DEFINE s == ok /\ r.action \in skipped
    <3>2. s \in BOOLEAN /\ (s => findings[r.card] \in skipped \/ r.card \in due)
      BY <1>2, <2>2
    <3>3. cards' = [cards EXCEPT ![r.card].loaded = TRUE, ![r.card].skip = s]
      BY <3>1
    <3> HIDE DEF s
    <3>4. /\ cards' \in [Cards -> Action!CardType] /\ cards'[r.card].skip = s
          /\ \A i \in Cards : i # r.card => cards'[i] = cards[i]
      BY <1>0, <1>2, <3>2, <3>3 DEF Action!CardType
    <3> QED
      BY <1>2, <3>2, <3>4
  <2> QED
    BY <2>1, <2>2
<1>4. Action!TypeOK'
  <2>1. reads' \subseteq Action!ReadType
    BY <1>0, <1>1
  <2> QED
    BY <1>1, <1>3, <2>1, ActionTypesHave, Zenon DEF Action!TypeOK
<1>5. Action!ReadsAreCurrent'
  BY <1>1 DEF Action!ActionInv, Action!ReadsAreCurrent
<1>6. Action!SkipsAreAgreed'
  BY <1>1, <1>3 DEF Action!SkipsAreAgreed
<1> QED
  BY <1>1, <1>4, <1>5, <1>6, ActionIdles DEF Action!ActionInv

LEMMA ActionLeaves ==
  ASSUME Action!ActionInv, Action!Leave
  PROVE  Action!ActionInv' /\ CardsAgree
<1>0. /\ findings \in [Cards -> Fixes] /\ changes \in Nat /\ reads \subseteq Action!ReadType
      /\ flows \in [Action!Flows -> Action!FlowType]
  BY ActionTypesHave
<1>1. /\ changes' = changes + 1 /\ cards' = [i \in Cards |-> Action!NewCard]
      /\ reads' = {[r EXCEPT !.live = FALSE] : r \in reads}
                    \cup {[card |-> i, action |-> findings[i], live |-> TRUE] : i \in Cards}
      /\ flows' = [f \in Action!Flows |-> [flows[f] EXCEPT !.here = FALSE, !.card = 0]]
      /\ running' = "none" /\ due' = {}
      /\ UNCHANGED <<findings, skipped, resultModal, confirmFor, detail>>
  BY DEF Action!Leave, Action!modals, Action!Read
<1>2. Action!NewCard \in Action!CardType /\ ~Action!NewCard.skip /\ "none" \in Action!Actions
  BY DEF Action!NewCard, Action!CardType, Action!Actions
<1>3. \A r \in reads' : r \in Action!ReadType /\ (r.live => r.action = findings[r.card])
  <2>1. ASSUME NEW r \in reads, NEW q, q = [r EXCEPT !.live = FALSE]
        PROVE  q \in Action!ReadType /\ ~q.live
    BY <1>0, <2>1 DEF Action!ReadType
  <2>2. ASSUME NEW i \in Cards, NEW q, q = [card |-> i, action |-> findings[i], live |-> TRUE]
        PROVE  q \in Action!ReadType /\ q.action = findings[q.card]
    BY <1>0, <2>2 DEF Action!ReadType
  <2> QED
    BY <1>1, <2>1, <2>2
<1>4. /\ flows' \in [Action!Flows -> Action!FlowType]
      /\ \A f \in Action!Flows : flows'[f].by = flows[f].by
  BY <1>0, <1>1 DEF Action!FlowType
<1>5. Action!TypeOK'
  <2>1. reads' \subseteq Action!ReadType /\ changes' \in Nat /\ cards' \in [Cards -> Action!CardType]
    <3>1. reads' \subseteq Action!ReadType
      BY <1>3
    <3>2. changes' \in Nat
      <4>1. changes \in Nat /\ changes' = changes + 1
        BY <1>0, <1>1, Zenon
      <4> QED
        BY <4>1
    <3>3. cards' \in [Cards -> Action!CardType]
      BY <1>1, <1>2
    <3> QED
      BY <3>1, <3>2, <3>3
  <2> QED
    BY <1>1, <1>2, <1>4, <2>1, ActionTypesHave, Zenon DEF Action!TypeOK
<1>6. Action!ReadsAreCurrent'
  BY <1>1, <1>3 DEF Action!ReadsAreCurrent
<1>7. Action!SkipsAreAgreed'
  BY <1>1, <1>2 DEF Action!SkipsAreAgreed
<1>8. CardsAgree
  BY <1>4 DEF CardsAgree, Action!NoFlow
<1> QED
  BY <1>5, <1>6, <1>7, <1>8 DEF Action!ActionInv

\* The user begins flows, and opens and closes the modals.
LEMMA ActionClicks ==
  ASSUME Action!ActionInv,
         \/ \E a \in Fixes : \/ Action!ClickButton(a) \/ Action!RunSuggestion(a)
                             \/ Action!RunFromPanel(a)
         \/ \E by \in {"button", "dry run"} : Action!ConfirmButton(by)
         \/ \E i \in Cards : Action!OpenDetail(i)
         \/ \E forever \in BOOLEAN : Action!FixNow(forever)
         \/ Action!CloseModal
  PROVE  Action!ActionInv' /\ CardsAgree
<1>0. /\ findings \in [Cards -> Fixes] /\ cards \in [Cards -> Action!CardType]
      /\ skipped \subseteq Action!Actions /\ running \in Action!Actions
      /\ resultModal \in BOOLEAN
      /\ confirmFor \in Fixes \cup {"none"} /\ detail \in Fixes \cup {"none"}
  BY ActionTypesHave
<1>1. /\ UNCHANGED <<findings, changes, cards, reads, due, skipped>>
      /\ flows' \in [Action!Flows -> Action!FlowType] /\ running' \in Action!Actions /\ CardsAgree
      /\ resultModal' \in BOOLEAN
      /\ confirmFor' \in Fixes \cup {"none"} /\ detail' \in Fixes \cup {"none"}
  <2>1. ASSUME UNCHANGED <<findings, changes, cards, reads, due, skipped, running, flows>>,
               resultModal' \in BOOLEAN,
               confirmFor' \in Fixes \cup {"none"}, detail' \in Fixes \cup {"none"}
        PROVE  <1>1!:
    <3>1. flows' \in [Action!Flows -> Action!FlowType] /\ CardsAgree
      BY <2>1, ActionIdles
    <3> QED
      BY <1>0, <2>1, <3>1
  <2>2. ASSUME NEW by \in {"button", "dry run", "direct", "detail"}, NEW a \in Fixes,
               NEW state \in {"saving", "asked"}, Action!Begin(by, 0, a, state),
               UNCHANGED <<findings, changes, cards, reads, due, skipped>>,
               resultModal' \in BOOLEAN,
               confirmFor' \in Fixes \cup {"none"}, detail' \in Fixes \cup {"none"}
        PROVE  <1>1!:
    <3>1. by \in {"button", "dry run", "direct", "card", "detail"} /\ by # "card"
      OBVIOUS
    <3>2. flows' \in [Action!Flows -> Action!FlowType] /\ running' \in Action!Actions /\ CardsAgree
      BY <2>2, <3>1, ActionBegins
    <3> QED
      BY <2>2, <3>2
  <2>3. ASSUME NEW a \in Fixes, Action!ClickButton(a) PROVE <1>1!:
    BY <1>0, <2>1, <2>3 DEF Action!ClickButton, Action!alerts
  <2>4. ASSUME NEW a \in Fixes, Action!RunSuggestion(a) \/ Action!RunFromPanel(a) PROVE <1>1!:
    <3>1. Action!Begin("direct", 0, a, "asked") /\ UNCHANGED <<Action!alerts, skipped,
                                                               Action!modals>>
      BY <2>4 DEF Action!RunSuggestion, Action!RunFromPanel
    <3>2. /\ UNCHANGED <<findings, changes, cards, reads, due, skipped>>
          /\ resultModal' \in BOOLEAN
          /\ confirmFor' \in Fixes \cup {"none"} /\ detail' \in Fixes \cup {"none"}
      BY <1>0, <3>1 DEF Action!alerts, Action!modals
    <3> QED
      BY <2>2, <3>1, <3>2
  <2>5. ASSUME NEW by \in {"button", "dry run"}, Action!ConfirmButton(by) PROVE <1>1!:
    <3>1. Action!Begin(by, 0, confirmFor, "asked") /\ confirmFor \in Fixes
      BY <1>0, <2>5 DEF Action!ConfirmButton
    <3>2. /\ UNCHANGED <<findings, changes, cards, reads, due, skipped>>
          /\ resultModal' \in BOOLEAN
          /\ confirmFor' \in Fixes \cup {"none"} /\ detail' \in Fixes \cup {"none"}
      BY <1>0, <2>5 DEF Action!ConfirmButton, Action!alerts
    <3> QED
      BY <2>2, <3>1, <3>2
  <2>6. ASSUME NEW i \in Cards, Action!OpenDetail(i) PROVE <1>1!:
    BY <1>0, <2>1, <2>6 DEF Action!OpenDetail, Action!alerts
  <2>7. ASSUME NEW forever \in BOOLEAN, Action!FixNow(forever) PROVE <1>1!:
    <3>1. PICK state \in {"saving", "asked"} : Action!Begin("detail", 0, detail, state)
      BY <2>7 DEF Action!FixNow
    <3>2. detail \in Fixes
      BY <1>0, <2>7 DEF Action!FixNow
    <3>3. /\ UNCHANGED <<findings, changes, cards, reads, due, skipped>>
          /\ resultModal' \in BOOLEAN
          /\ confirmFor' \in Fixes \cup {"none"} /\ detail' \in Fixes \cup {"none"}
      BY <1>0, <2>7 DEF Action!FixNow, Action!alerts, Action!modals
    <3> QED
      BY <2>2, <3>1, <3>2, <3>3
  <2>8. CASE Action!CloseModal
    BY <1>0, <2>1, <2>8 DEF Action!CloseModal, Action!alerts
  <2> QED
    BY <2>3, <2>4, <2>5, <2>6, <2>7, <2>8
<1> QED
  BY <1>0, <1>1, ActionKeeps

\* The Fix of a card: what it runs at once is skipped by the user's wish.
LEMMA ActionFixes ==
  ASSUME Action!ActionInv, NEW i \in Cards, Action!ClickFix(i)
  PROVE  Action!ActionInv' /\ CardsAgree
<1>0. /\ findings \in [Cards -> Fixes] /\ cards \in [Cards -> Action!CardType]
      /\ skipped \subseteq Action!Actions /\ running \in Action!Actions
      /\ resultModal \in BOOLEAN
      /\ confirmFor \in Fixes \cup {"none"} /\ detail \in Fixes \cup {"none"}
  BY ActionTypesHave
<1>1. UNCHANGED <<findings, changes, reads, due, skipped>>
  BY DEF Action!ClickFix
<1>2. CASE cards[i].skip
  <2>1. /\ Action!Begin("card", i, findings[i], "asked")
        /\ cards' = [cards EXCEPT ![i].busy = TRUE]
        /\ UNCHANGED <<resultModal, confirmFor, detail>>
    BY <1>2 DEF Action!ClickFix, Action!modals
  <2>2. (findings[i] \in skipped \/ i \in due) /\ findings[i] \in Fixes
    BY <1>0, <1>2 DEF Action!ActionInv, Action!SkipsAreAgreed
  <2>3. flows' \in [Action!Flows -> Action!FlowType] /\ running' \in Action!Actions /\ CardsAgree
    BY <2>1, <2>2, ActionBegins
  <2>4. /\ cards' \in [Cards -> Action!CardType]
        /\ \A j \in Cards : cards'[j].skip = cards[j].skip
    BY <1>0, <2>1 DEF Action!CardType
  <2> QED
    BY <1>0, <1>1, <2>1, <2>3, <2>4, ActionKeeps
<1>3. CASE ~cards[i].skip
  <2>1. detail' = findings[i] /\ UNCHANGED <<cards, running, flows, resultModal, confirmFor>>
    BY <1>3 DEF Action!ClickFix
  <2>2. flows' \in [Action!Flows -> Action!FlowType] /\ CardsAgree
    BY <2>1, ActionIdles
  <2>3. detail' \in Fixes \cup {"none"}
    BY <1>0, <2>1
  <2> QED
    BY <1>0, <1>1, <2>1, <2>2, <2>3, ActionKeeps
<1> QED
  BY <1>2, <1>3

\* A flow goes on or returns.
LEMMA ActionGoesOn ==
  ASSUME Action!ActionInv, NEW f \in Action!Flows, Action!FlowStep(f)
  PROVE  Action!ActionInv' /\ CardsAgree
<1>0. /\ flows \in [Action!Flows -> Action!FlowType] /\ cards \in [Cards -> Action!CardType]
      /\ skipped \subseteq Action!Actions /\ running \in Action!Actions
      /\ resultModal \in BOOLEAN
      /\ confirmFor \in Fixes \cup {"none"} /\ detail \in Fixes \cup {"none"}
  BY ActionTypesHave
<1>1. /\ flows[f].action \in Action!Actions
      /\ {"none", OpenSecurity} \subseteq Action!Actions
      /\ Action!Over \in Action!FlowType
  BY <1>0 DEF Action!FlowType, Action!Actions, Action!Over, Action!NoFlow
<1>2. ASSUME Action!Returns(f)
      PROVE  /\ flows' = [flows EXCEPT ![f] = Action!Over]
             /\ detail' \in Fixes \cup {"none"} /\ cards' \in [Cards -> Action!CardType]
             /\ \A i \in Cards : cards'[i].skip = cards[i].skip
  BY <1>0, <1>2 DEF Action!Returns, Action!CardType
<1>3. /\ UNCHANGED <<findings, changes, reads, due, confirmFor>>
      /\ flows[f].state # "new"
      /\ \E n \in Action!FlowType : flows' = [flows EXCEPT ![f] = n]
      /\ running' \in Action!Actions /\ resultModal' \in BOOLEAN
      /\ detail' \in Fixes \cup {"none"} /\ cards' \in [Cards -> Action!CardType]
      /\ \A i \in Cards : cards'[i].skip = cards[i].skip
      /\ skipped' \subseteq Action!Actions /\ skipped \subseteq skipped'
  <2>1. CASE Action!Saved(f)
    <3>1. [flows[f] EXCEPT !.state = "asked"] \in Action!FlowType
      BY <1>0 DEF Action!FlowType
    <3>2. flows' = [flows EXCEPT ![f] = [flows[f] EXCEPT !.state = "asked"]]
      BY <1>0, <2>1 DEF Action!Saved
    <3>3. skipped' \subseteq Action!Actions /\ skipped \subseteq skipped'
      BY <1>0, <1>1, <2>1 DEF Action!Saved
    <3>4. running' \in Action!Actions
      BY <1>0, <1>1, <2>1 DEF Action!Saved
    <3> QED
      BY <1>0, <2>1, <3>1, <3>2, <3>3, <3>4 DEF Action!Saved, Action!alerts, Action!modals
  <2>2. CASE Action!Blocked(f)
    <3>1. [flows[f] EXCEPT !.action = OpenSecurity] \in Action!FlowType
      BY <1>0, <1>1 DEF Action!FlowType
    <3>2. flows' = [flows EXCEPT ![f] = [flows[f] EXCEPT !.action = OpenSecurity]]
      BY <1>0, <2>2 DEF Action!Blocked
    <3>3. running' \in Action!Actions
      BY <1>0, <1>1, <2>2 DEF Action!Blocked
    <3> QED
      BY <1>0, <2>2, <3>1, <3>2, <3>3 DEF Action!Blocked, Action!alerts, Action!modals
  <2>3. CASE Action!Scanned(f)
    <3>1. Action!Returns(f) /\ flows[f].state = "scans"
          /\ UNCHANGED <<findings, changes, reads, due, skipped, running, confirmFor>>
      BY <2>3 DEF Action!Scanned
    <3>2. resultModal' \in BOOLEAN
      BY <1>0, <2>3 DEF Action!Scanned, Action!ResultShown
    <3> QED
      BY <1>0, <1>1, <1>2, <3>1, <3>2
  <2>4. ASSUME NEW how \in {"ok", "failed", "error"}, Action!Answered(f, how) PROVE <1>3!:
    <3>1. /\ flows[f].state = "asked"
          /\ UNCHANGED <<findings, changes, reads, due, skipped, resultModal, confirmFor>>
          /\ running' \in Action!Actions
      BY <1>0, <1>1, <2>4 DEF Action!Answered, Action!RunningAfter
    <3>2. CASE Action!Returns(f)
      BY <1>0, <1>1, <1>2, <3>1, <3>2
    <3>3. CASE flows' = [flows EXCEPT ![f].state = "scans"] /\ UNCHANGED <<cards, detail>>
      <4>1. [flows[f] EXCEPT !.state = "scans"] \in Action!FlowType
        BY <1>0 DEF Action!FlowType
      <4>2. flows' = [flows EXCEPT ![f] = [flows[f] EXCEPT !.state = "scans"]]
        BY <1>0, <3>3
      <4> QED
        BY <1>0, <3>1, <3>3, <4>1, <4>2
    <3> QED
      BY <2>4, <3>2, <3>3 DEF Action!Answered
  <2> QED
    BY <2>1, <2>2, <2>3, <2>4 DEF Action!FlowStep
<1>4. flows' \in [Action!Flows -> Action!FlowType] /\ CardsAgree
  <2>1. PICK n \in Action!FlowType : flows' = [flows EXCEPT ![f] = n]
    BY <1>3
  <2>2. Action!NoFlow.state = "new" /\ Action!NoFlow.by = "none"
    BY DEF Action!NoFlow
  <2> QED
    BY <1>0, <1>3, <2>1, <2>2 DEF CardsAgree
<1> QED
  BY <1>0, <1>3, <1>4, ActionKeeps

LEMMA ActionStep ==
  ASSUME Action!ActionInv, [Action!Next]_actionVars
  PROVE  Action!ActionInv' /\ CardsAgree
<1>1. CASE UNCHANGED actionVars
  <2>1. Action!ActionInv'
    BY <1>1 DEF actionVars, Action!ActionInv, Action!TypeOK, Action!ReadsAreCurrent,
       Action!SkipsAreAgreed
  <2>2. UNCHANGED flows
    BY <1>1 DEF actionVars
  <2> QED
    BY <2>1, <2>2, ActionIdles
<1>2. CASE Action!Next
  <2>1. TRUE \in BOOLEAN /\ FALSE \in BOOLEAN
    OBVIOUS
  <2> QED
    BY <1>2, <2>1, ActionReports, ActionEffects, ActionLoads, ActionLeaves, ActionClicks,
       ActionFixes, ActionGoesOn
    DEF Action!Next
<1> QED
  BY <1>1, <1>2

(***************************************************************************)
(* The rules of Autopilot.                                                  *)
(***************************************************************************)

\* A rule is switched by an order of the user that is handled just now.
OrderSwitches ==
  \A r \in RuleIds : ruleOn'[r] # ruleOn[r] /\ "absent" \notin {ruleOn[r], ruleOn'[r]} =>
    \E o \in Rules!Orders : /\ orders[o] # Rules!NoOrder /\ orders[o].is = "enable"
                            /\ orders[o].rule = r /\ orders[o].value = ruleOn'[r]
                            /\ orders[o].at = "asked" /\ orders'[o].at = "success"

LEMMA RulesTypesHave ==
  ASSUME Rules!RulesInv
  PROVE  /\ ruleOn \in Rules!Columns /\ asleep \subseteq RuleIds
         /\ rulesShown \in {Rules!Unloaded} \cup Rules!Tables
         /\ busyRule \subseteq RuleIds
         /\ orders \in [Rules!Orders -> {Rules!NoOrder} \cup Rules!CallType]
         /\ lists \in Seq([table : Rules!Tables, order : Rules!Orders \cup {0}])
         /\ outsiders \in Nat /\ listLost \in BOOLEAN
         /\ \A o \in Rules!Orders : orders[o] # Rules!NoOrder =>
              /\ orders[o] \in Rules!CallType
              /\ orders[o].is \in {"enable", "import"} => orders[o].value # "none"
         /\ Rules!Table \in Rules!Tables
  BY DEF Rules!RulesInv, Rules!TypeOK, Rules!ValuesAreGiven, Rules!Table, Rules!Tables

LEMMA RulesInit == Rules!Init => Rules!RulesInv
<1> SUFFICES ASSUME Rules!Init PROVE Rules!RulesInv
  OBVIOUS
<1>1. /\ ruleOn = [r \in RuleIds |-> IF r \in Defaults THEN "on" ELSE "absent"]
      /\ asleep = {} /\ rulesShown = Rules!Unloaded /\ busyRule = {}
      /\ orders = [o \in Rules!Orders |-> Rules!NoOrder]
      /\ lists = <<[table |-> Rules!Table, order |-> 0]>> /\ listLost = FALSE /\ outsiders = 0
  BY DEF Rules!Init
<1>2. ruleOn \in Rules!Columns
  BY <1>1 DEF Rules!Columns
<1>3. Rules!Table \in Rules!Tables
  BY <1>1, <1>2 DEF Rules!Table, Rules!Tables
<1>4. lists \in Seq([table : Rules!Tables, order : Rules!Orders \cup {0}])
  BY <1>1, <1>3
<1>5. Rules!TypeOK
  BY <1>1, <1>2, <1>4 DEF Rules!TypeOK
<1> QED
  BY <1>1, <1>5 DEF Rules!RulesInv, Rules!ValuesAreGiven

\* An order that changes where it is stays the order it is.
LEMMA RulesMoves ==
  ASSUME Rules!RulesInv, NEW o \in Rules!Orders, orders[o] # Rules!NoOrder,
         NEW s \in {"asked", "success", "error", "listing", "listed"},
         orders' = [orders EXCEPT ![o].at = s]
  PROVE  /\ orders' \in [Rules!Orders -> {Rules!NoOrder} \cup Rules!CallType]
         /\ Rules!ValuesAreGiven'
         /\ orders'[o].at = s
<1>1. /\ orders \in [Rules!Orders -> {Rules!NoOrder} \cup Rules!CallType]
      /\ orders[o] \in Rules!CallType
      /\ \A b \in Rules!Orders : orders[b] # Rules!NoOrder =>
           (orders[b].is \in {"enable", "import"} => orders[b].value # "none")
  BY RulesTypesHave
<1> DEFINE n == [orders[o] EXCEPT !.at = s]
<1>2. n \in Rules!CallType /\ n.is = orders[o].is /\ n.value = orders[o].value /\ n.at = s
  BY <1>1 DEF Rules!CallType
<1>3. orders' = [orders EXCEPT ![o] = n]
  BY <1>1
<1> HIDE DEF n
<1>4. /\ orders' \in [Rules!Orders -> {Rules!NoOrder} \cup Rules!CallType]
      /\ orders'[o] = n /\ \A b \in Rules!Orders : b # o => orders'[b] = orders[b]
  BY <1>1, <1>2, <1>3
<1>5. Rules!ValuesAreGiven'
  BY <1>1, <1>2, <1>4 DEF Rules!ValuesAreGiven
<1> QED
  BY <1>2, <1>4, <1>5

\* The user's calls.
LEMMA RulesOrders ==
  ASSUME Rules!RulesInv, NEW r \in RuleIds,
         \/ Rules!ToggleEnabled(r) \/ Rules!Snooze(r) \/ Rules!RunRuleNow(r)
         \/ \E value \in {"on", "off"} : Rules!ImportRules(r, value)
  PROVE  Rules!RulesInv' /\ OrderSwitches
<1>0. /\ orders \in [Rules!Orders -> {Rules!NoOrder} \cup Rules!CallType] /\ busyRule \subseteq RuleIds
      /\ \A b \in Rules!Orders : orders[b] # Rules!NoOrder =>
           (orders[b].is \in {"enable", "import"} => orders[b].value # "none")
  BY RulesTypesHave
<1>1. \E k \in {"enable", "snooze", "run", "import"}, v \in {"on", "off", "none"}, o \in Rules!Orders :
        /\ k \in {"enable", "import"} => v # "none"
        /\ orders' = [orders EXCEPT ![o] = [is |-> k, rule |-> r, at |-> "asked", value |-> v]]
        /\ busyRule' \in {busyRule, {r}}
        /\ UNCHANGED <<ruleOn, asleep, rulesShown, lists, listLost, outsiders>>
  <2>1. CASE Rules!ToggleEnabled(r)
    <3>1. PICK v \in {"on", "off"} : v = IF rulesShown.on[r] = "on" THEN "off" ELSE "on"
      OBVIOUS
    <3>2. PICK o \in Rules!Orders :
            orders' = [orders EXCEPT ![o] = [is |-> "enable", rule |-> r, at |-> "asked", value |-> v]]
      BY <2>1, <3>1 DEF Rules!ToggleEnabled, Rules!Order
    <3>3. busyRule' = {r} /\ UNCHANGED <<ruleOn, asleep, rulesShown, lists, listLost, outsiders>>
      BY <2>1 DEF Rules!ToggleEnabled
    <3> QED
      BY <3>2, <3>3
  <2>2. CASE Rules!Snooze(r)
    <3>1. PICK o \in Rules!Orders :
            orders' = [orders EXCEPT ![o] = [is |-> "snooze", rule |-> r, at |-> "asked", value |-> "none"]]
      BY <2>2 DEF Rules!Snooze, Rules!Order
    <3> QED
      BY <2>2, <3>1 DEF Rules!Snooze
  <2>3. CASE Rules!RunRuleNow(r)
    <3>1. PICK o \in Rules!Orders :
            orders' = [orders EXCEPT ![o] = [is |-> "run", rule |-> r, at |-> "asked", value |-> "none"]]
      BY <2>3 DEF Rules!RunRuleNow, Rules!Order
    <3> QED
      BY <2>3, <3>1 DEF Rules!RunRuleNow
  <2>4. CASE \E value \in {"on", "off"} : Rules!ImportRules(r, value)
    <3>1. PICK value \in {"on", "off"} : Rules!ImportRules(r, value)
      BY <2>4
    <3>2. PICK o \in Rules!Orders :
            orders' = [orders EXCEPT ![o] = [is |-> "import", rule |-> r, at |-> "asked", value |-> value]]
      BY <3>1 DEF Rules!ImportRules, Rules!Order
    <3> QED
      BY <3>1, <3>2 DEF Rules!ImportRules
  <2> QED
    BY <2>1, <2>2, <2>3, <2>4
<1>2. PICK k \in {"enable", "snooze", "run", "import"}, v \in {"on", "off", "none"}, o \in Rules!Orders :
        /\ k \in {"enable", "import"} => v # "none"
        /\ orders' = [orders EXCEPT ![o] = [is |-> k, rule |-> r, at |-> "asked", value |-> v]]
        /\ busyRule' \in {busyRule, {r}}
        /\ UNCHANGED <<ruleOn, asleep, rulesShown, lists, listLost, outsiders>>
  BY <1>1, Zenon
<1> DEFINE n == [is |-> k, rule |-> r, at |-> "asked", value |-> v]
<1>3. n \in Rules!CallType /\ n.is = k /\ n.value = v
  BY DEF Rules!CallType
<1>4. orders' = [orders EXCEPT ![o] = n]
  BY <1>2
<1> HIDE DEF n
<1>5. /\ orders' \in [Rules!Orders -> {Rules!NoOrder} \cup Rules!CallType]
      /\ orders'[o] = n /\ \A b \in Rules!Orders : b # o => orders'[b] = orders[b]
  BY <1>0, <1>3, <1>4
<1>6. Rules!TypeOK'
  <2>1. busyRule' \subseteq RuleIds
    BY <1>0, <1>2
  <2> QED
    BY <1>2, <1>5, <2>1, RulesTypesHave, Zenon DEF Rules!TypeOK
<1>7. Rules!ValuesAreGiven'
  BY <1>0, <1>2, <1>3, <1>5 DEF Rules!ValuesAreGiven
<1> QED
  BY <1>2, <1>6, <1>7 DEF Rules!RulesInv, OrderSwitches

\* A call is handled: the only one that switches a rule that is there is "enable".
LEMMA RulesHandles ==
  ASSUME Rules!RulesInv, NEW o \in Rules!Orders, NEW ok \in BOOLEAN, Rules!Handled(o, ok)
  PROVE  Rules!RulesInv' /\ OrderSwitches
<1> DEFINE call == orders[o]
<1>0. /\ call # Rules!NoOrder /\ call \in Rules!CallType /\ call.at = "asked"
      /\ call.is \in {"enable", "import"} => call.value # "none"
      /\ ruleOn \in Rules!Columns /\ asleep \subseteq RuleIds
  BY RulesTypesHave DEF Rules!Handled
<1>1. /\ call.rule \in RuleIds /\ call.value \in {"on", "off", "none"}
      /\ call.is \in {"enable", "snooze", "run", "import"}
  BY <1>0 DEF Rules!CallType
<1>2. /\ orders' = [orders EXCEPT ![o].at = IF ok THEN "success" ELSE "error"]
      /\ UNCHANGED <<rulesShown, busyRule, lists, listLost, outsiders>>
      /\ asleep' \in {asleep, asleep \cup {call.rule}}
  BY DEF Rules!Handled
<1>3. PICK s \in {"success", "error"} : s = IF ok THEN "success" ELSE "error"
  OBVIOUS
<1>4. /\ orders' \in [Rules!Orders -> {Rules!NoOrder} \cup Rules!CallType]
      /\ Rules!ValuesAreGiven' /\ orders'[o].at = s
  <2>1. s \in {"asked", "success", "error", "listing", "listed"}
    BY <1>3
  <2>2. orders' = [orders EXCEPT ![o].at = s]
    BY <1>2, <1>3
  <2> QED
    BY <1>0, <2>1, <2>2, RulesMoves
<1>5. \/ ruleOn' = ruleOn
      \/ ok /\ call.is = "enable" /\ ruleOn' = [ruleOn EXCEPT ![call.rule] = call.value]
      \/ /\ ok /\ call.is = "import" /\ ruleOn[call.rule] = "absent"
         /\ ruleOn' = [ruleOn EXCEPT ![call.rule] = call.value]
  <2>1. ruleOn' = CASE ok /\ call.is = "enable" -> Rules!Write(call.rule, call.value)
                    [] ok /\ call.is = "import" ->
                           [ruleOn EXCEPT ![call.rule] = Rules!Upsert(call.rule, call.value)]
                    [] OTHER -> ruleOn
    BY Zenon DEF Rules!Handled
  <2>2. CASE ok /\ call.is = "enable"
    <3>1. ruleOn' = Rules!Write(call.rule, call.value)
      BY <2>1, <2>2
    <3> QED
      BY <2>2, <3>1 DEF Rules!Write
  <2>3. CASE ok /\ call.is = "import"
    <3>1. ruleOn' = [ruleOn EXCEPT ![call.rule] = Rules!Upsert(call.rule, call.value)]
      BY <2>1, <2>3
    <3>2. CASE ruleOn[call.rule] = "absent"
      BY <2>3, <3>1, <3>2 DEF Rules!Upsert
    <3>3. CASE ruleOn[call.rule] # "absent"
      <4>1. ruleOn' = [ruleOn EXCEPT ![call.rule] = ruleOn[call.rule]]
        BY <3>1, <3>3 DEF Rules!Upsert
      <4>2. ruleOn' = ruleOn
        BY <1>0, <1>1, <4>1 DEF Rules!Columns
      <4> QED
        BY <4>2
    <3> QED
      BY <3>2, <3>3
  <2>4. CASE ~(ok /\ call.is \in {"enable", "import"})
    BY <2>1, <2>4
  <2> QED
    BY <2>2, <2>3, <2>4
<1>6. ruleOn' \in Rules!Columns
  BY <1>0, <1>1, <1>5 DEF Rules!Columns
<1>7. Rules!TypeOK'
  <2>1. asleep' \subseteq RuleIds
    BY <1>0, <1>1, <1>2
  <2> QED
    BY <1>2, <1>4, <1>6, <2>1, RulesTypesHave, Zenon DEF Rules!TypeOK
<1>8. OrderSwitches
  <2> SUFFICES ASSUME NEW r \in RuleIds, ruleOn'[r] # ruleOn[r],
                      "absent" \notin {ruleOn[r], ruleOn'[r]}
               PROVE  /\ call.is = "enable" /\ call.rule = r /\ call.value = ruleOn'[r]
                      /\ orders'[o].at = "success"
    BY <1>0 DEF OrderSwitches
  <2>1. r = call.rule /\ ok /\ ruleOn'[r] = call.value /\ call.is = "enable"
    BY <1>0, <1>5 DEF Rules!Columns
  <2> QED
    BY <1>3, <1>4, <2>1
<1> QED
  BY <1>4, <1>7, <1>8 DEF Rules!RulesInv

\* The application is launched again: every rule that is there keeps its switch or goes.
LEMMA RulesSeeds ==
  ASSUME Rules!RulesInv, Rules!LaunchSeeds
  PROVE  Rules!RulesInv' /\ OrderSwitches
<1>0. /\ orders \in [Rules!Orders -> {Rules!NoOrder} \cup Rules!CallType]
      /\ ruleOn \in Rules!Columns /\ asleep \subseteq RuleIds /\ outsiders \in Nat
      /\ \A o \in Rules!Orders : orders[o] # Rules!NoOrder =>
           /\ orders[o] \in Rules!CallType
           /\ orders[o].is \in {"enable", "import"} => orders[o].value # "none"
  BY RulesTypesHave
<1>1. PICK w : /\ w = ruleOn'
               /\ w = [r \in RuleIds |-> IF r \in Defaults THEN Rules!Upsert(r, "on") ELSE "absent"]
  BY DEF Rules!LaunchSeeds
<1>2. /\ outsiders' = outsiders + 1 /\ rulesShown' = Rules!Unloaded /\ busyRule' = {}
      /\ orders' = [o \in Rules!Orders |-> IF orders[o] = Rules!NoOrder THEN Rules!NoOrder
                                           ELSE [orders[o] EXCEPT !.at = "listed"]]
      /\ lists' = <<[table |-> [on |-> w, asleep |-> asleep], order |-> 0]>>
      /\ asleep' = asleep /\ listLost' = FALSE
  BY <1>1 DEF Rules!LaunchSeeds
<1>3. w \in Rules!Columns /\ \A r \in RuleIds : w[r] # ruleOn[r] => "absent" \in {ruleOn[r], w[r]}
  BY <1>0, <1>1 DEF Rules!Columns, Rules!Upsert
<1>4. \A o \in Rules!Orders : orders'[o] # Rules!NoOrder =>
        /\ orders'[o] \in Rules!CallType
        /\ orders'[o].is \in {"enable", "import"} => orders'[o].value # "none"
  <2> SUFFICES ASSUME NEW o \in Rules!Orders, orders[o] # Rules!NoOrder,
                      NEW n, n = [orders[o] EXCEPT !.at = "listed"]
               PROVE  /\ n \in Rules!CallType
                      /\ n.is \in {"enable", "import"} => n.value # "none"
    BY <1>2
  <2>1. orders[o] \in Rules!CallType
    BY <1>0
  <2>2. n \in Rules!CallType /\ n.is = orders[o].is /\ n.value = orders[o].value
    BY <2>1 DEF Rules!CallType
  <2> QED
    BY <1>0, <2>2
<1>5. Rules!TypeOK'
  <2>1. orders' \in [Rules!Orders -> {Rules!NoOrder} \cup Rules!CallType]
    BY <1>2, <1>4
  <2>2. [on |-> w, asleep |-> asleep] \in Rules!Tables
    BY <1>0, <1>3 DEF Rules!Tables
  <2>3. lists' \in Seq([table : Rules!Tables, order : Rules!Orders \cup {0}])
    BY <1>2, <2>2
  <2>4. outsiders' \in Nat /\ busyRule' \subseteq RuleIds /\ asleep' \subseteq RuleIds
    BY <1>0, <1>2
  <2>5. listLost' \in BOOLEAN
    BY DEF Rules!LaunchSeeds
  <2> QED
    BY <1>1, <1>2, <1>3, <2>1, <2>3, <2>4, <2>5, Zenon DEF Rules!TypeOK
<1>6. Rules!ValuesAreGiven'
  BY <1>4 DEF Rules!ValuesAreGiven
<1> QED
  BY <1>1, <1>3, <1>5, <1>6 DEF Rules!RulesInv, OrderSwitches

\* What the table does not notice.
LEMMA RulesAnswers ==
  ASSUME Rules!RulesInv,
         \/ \E ok \in BOOLEAN : Rules!ListArrives(ok)
         \/ \E r \in RuleIds : Rules!TelegramSnoozes(r)
         \/ \E o \in Rules!Orders : Rules!Answered(o)
  PROVE  Rules!RulesInv' /\ OrderSwitches
<1> DEFINE L == [table : Rules!Tables, order : Rules!Orders \cup {0}]
<1>0. /\ orders \in [Rules!Orders -> {Rules!NoOrder} \cup Rules!CallType]
      /\ asleep \subseteq RuleIds /\ outsiders \in Nat /\ busyRule \subseteq RuleIds
      /\ listLost \in BOOLEAN
      /\ rulesShown \in {Rules!Unloaded} \cup Rules!Tables
      /\ lists \in Seq(L) /\ Rules!Table \in Rules!Tables
      /\ Rules!ValuesAreGiven
  BY RulesTypesHave DEF Rules!RulesInv
<1> HIDE DEF L
<1>1. /\ ruleOn' = ruleOn
      /\ asleep' \subseteq RuleIds /\ outsiders' \in Nat /\ busyRule' \subseteq RuleIds
      /\ listLost' \in BOOLEAN
      /\ rulesShown' \in {Rules!Unloaded} \cup Rules!Tables /\ lists' \in Seq(L)
      /\ orders' \in [Rules!Orders -> {Rules!NoOrder} \cup Rules!CallType] /\ Rules!ValuesAreGiven'
  <2>1. ASSUME NEW r \in RuleIds, Rules!TelegramSnoozes(r) PROVE <1>1!:
    BY <1>0, <2>1 DEF Rules!TelegramSnoozes, Rules!ValuesAreGiven
  <2>2. ASSUME NEW o \in Rules!Orders, Rules!Answered(o) PROVE <1>1!:
    <3>1. PICK s \in {"asked", "success", "error", "listing", "listed"} :
            orders[o] # Rules!NoOrder /\ orders' = [orders EXCEPT ![o].at = s]
      BY <2>2 DEF Rules!Answered
    <3>2. orders' \in [Rules!Orders -> {Rules!NoOrder} \cup Rules!CallType] /\ Rules!ValuesAreGiven'
      BY <3>1, RulesMoves
    <3>3. [table |-> Rules!Table, order |-> o] \in L
      BY <1>0 DEF L
    <3>4. lists' = lists \/ lists' = Append(lists, [table |-> Rules!Table, order |-> o])
      BY <2>2 DEF Rules!Answered
    <3>5. lists' \in Seq(L)
      <4> DEFINE l == [table |-> Rules!Table, order |-> o]
      <4>1. l \in L /\ lists \in Seq(L) /\ (lists' = lists \/ lists' = Append(lists, l))
        BY <1>0, <3>3, <3>4
      <4> HIDE DEF l
      <4> QED
        BY ONLY <4>1
    <3>6. /\ busyRule' \subseteq RuleIds /\ UNCHANGED <<ruleOn, asleep, rulesShown, listLost, outsiders>>
      BY <1>0, <2>2 DEF Rules!Answered, Rules!Freed
    <3> QED
      BY <1>0, <3>2, <3>5, <3>6
  <2>3. ASSUME NEW ok \in BOOLEAN, Rules!ListArrives(ok) PROVE <1>1!:
    <3>1. PICK l \in L : l = Head(lists) /\ lists' = Tail(lists) /\ lists' \in Seq(L)
      <4>1. lists # <<>> /\ lists' = Tail(lists) /\ lists \in Seq(L)
        BY <1>0, <2>3 DEF Rules!ListArrives
      <4> QED
        BY ONLY <4>1
    <3>0. rulesShown' \in {Rules!Unloaded} \cup Rules!Tables /\ listLost' \in BOOLEAN
      <4>1. l.table \in Rules!Tables
        BY <3>1 DEF L
      <4>2. Rules!NoRules \in Rules!Tables
        BY DEF Rules!NoRules, Rules!Tables, Rules!Columns
      <4>3. Rules!RowsAfter(l, ok) \in {Rules!Unloaded} \cup Rules!Tables
        BY <1>0, <4>1, <4>2 DEF Rules!RowsAfter
      <4>4. rulesShown' = Rules!RowsAfter(l, ok) /\ listLost' = ~ok
        BY <2>3, <3>1 DEF Rules!ListArrives
      <4> QED
        BY <4>3, <4>4
    <3>2. /\ l.order \in Rules!Orders \cup {0}
          /\ IF l.order = 0 THEN UNCHANGED <<orders, busyRule>>
             ELSE /\ orders' = [orders EXCEPT ![l.order].at = "listed"]
                  /\ busyRule' = Rules!Freed(l.order)
          /\ UNCHANGED <<ruleOn, asleep, outsiders>>
      BY <2>3, <3>1 DEF Rules!ListArrives, L
    <3>3. CASE l.order = 0 \/ orders' = orders
      <4>1. Rules!ValuesAreGiven' /\ orders' = orders
        BY <1>0, <3>2, <3>3 DEF Rules!ValuesAreGiven
      <4>2. busyRule' \subseteq RuleIds
        BY <1>0, <3>2 DEF Rules!Freed
      <4> QED
        BY <1>0, <3>0, <3>1, <3>2, <4>1, <4>2
    <3>4. CASE l.order # 0 /\ orders[l.order] # Rules!NoOrder
      <4>1. /\ l.order \in Rules!Orders /\ orders' = [orders EXCEPT ![l.order].at = "listed"]
            /\ busyRule' = Rules!Freed(l.order)
        BY <3>2, <3>4
      <4>2. orders' \in [Rules!Orders -> {Rules!NoOrder} \cup Rules!CallType] /\ Rules!ValuesAreGiven'
        BY <3>4, <4>1, RulesMoves
      <4> QED
        BY <1>0, <3>0, <3>1, <3>2, <4>1, <4>2 DEF Rules!Freed
    <3>5. CASE l.order # 0 /\ orders[l.order] = Rules!NoOrder
      <4>1. [Rules!NoOrder EXCEPT !.at = "listed"] = Rules!NoOrder
        BY DEF Rules!NoOrder
      <4>2. orders' = [orders EXCEPT ![l.order] = Rules!NoOrder]
        BY <1>0, <3>2, <3>5, <4>1
      <4>3. orders' = orders
        BY <1>0, <3>1, <3>5, <4>2
      <4> QED
        BY <3>3, <4>3
    <3> QED
      BY <3>3, <3>4, <3>5
  <2> QED
    BY <2>1, <2>2, <2>3
<1>2. Rules!TypeOK'
  BY <1>1, RulesTypesHave, Zenon DEF Rules!TypeOK, L
<1> QED
  BY <1>1, <1>2 DEF Rules!RulesInv, OrderSwitches

LEMMA RulesStep ==
  ASSUME Rules!RulesInv, [Rules!Next]_rulesVars
  PROVE  Rules!RulesInv' /\ OrderSwitches
<1>1. CASE UNCHANGED rulesVars
  BY <1>1 DEF rulesVars, Rules!RulesInv, Rules!TypeOK, Rules!ValuesAreGiven, OrderSwitches
<1>2. CASE Rules!Next
  BY <1>2, RulesOrders, RulesHandles, RulesSeeds, RulesAnswers DEF Rules!Next
<1> QED
  BY <1>1, <1>2

(***************************************************************************)
(* The startup picker.                                                      *)
(***************************************************************************)

LEMMA PickerInit == Picker!Init => Picker!PickerInv
<1> SUFFICES ASSUME Picker!Init PROVE Picker!PickerInv
  OBVIOUS
<1>1. /\ autostart = Items /\ listedItems \in SUBSET Items
      /\ picker = FALSE /\ picks = {} /\ stars = {} /\ allowed \in SUBSET Items
      /\ config = {} /\ savingStars = FALSE
      /\ ticked = {} /\ starred = {} /\ configCame = FALSE /\ touches = 0 /\ scans = 0
  BY DEF Picker!Init
<1>2. Picker!TypeOK
  <2>1. {autostart, listedItems, picks, stars, allowed, ticked, starred} \subseteq SUBSET Items
    BY <1>1
  <2>2. {picker, savingStars, configCame} \subseteq BOOLEAN /\ config \subseteq SUBSET Items
    BY <1>1
  <2>3. touches \in Nat /\ scans \in Nat
    BY <1>1
  <2> QED
    BY <2>1, <2>2, <2>3 DEF Picker!TypeOK
<1> QED
  BY <1>1, <1>2 DEF Picker!PickerInv, Picker!ProtectedAreTicked, Picker!MissingAreUnstarred

\* What a step of the dialog may do without the user's wish: nothing to what is protected,
\* and nothing to what was starred.
PickerAgrees ==
  /\ \A i \in autostart \ autostart' : i \in Protected => i \in ticked
  /\ configCame => allowed \ allowed' \subseteq starred

LEMMA PickerTypesHave ==
  ASSUME Picker!PickerInv
  PROVE  /\ autostart \subseteq Items /\ listedItems \subseteq Items /\ picks \subseteq Items
         /\ stars \subseteq Items /\ allowed \subseteq Items /\ ticked \subseteq Items
         /\ starred \subseteq Items /\ config \subseteq SUBSET Items
         /\ picker \in BOOLEAN /\ savingStars \in BOOLEAN /\ configCame \in BOOLEAN
         /\ touches \in Nat /\ scans \in Nat
         /\ picks \cap Protected \subseteq ticked
         /\ configCame => allowed \ stars \subseteq starred
  BY DEF Picker!PickerInv, Picker!TypeOK, Picker!ProtectedAreTicked, Picker!MissingAreUnstarred

LEMMA PickerHas ==
  ASSUME autostart' \subseteq Items, listedItems' \subseteq Items, picks' \subseteq Items,
         stars' \subseteq Items, allowed' \subseteq Items, ticked' \subseteq Items,
         starred' \subseteq Items, config' \subseteq SUBSET Items,
         picker' \in BOOLEAN, savingStars' \in BOOLEAN, configCame' \in BOOLEAN,
         touches' \in Nat, scans' \in Nat,
         picks' \cap Protected \subseteq ticked',
         configCame' => allowed' \ stars' \subseteq starred'
  PROVE  Picker!PickerInv'
  BY DEF Picker!PickerInv, Picker!TypeOK, Picker!ProtectedAreTicked, Picker!MissingAreUnstarred

\* The user touches the dialog.
LEMMA PickerTouches ==
  ASSUME Picker!PickerInv,
         \/ Picker!OpenPicker \/ \E ok \in BOOLEAN : Picker!SaveStars(ok)
         \/ \E i \in Items : Picker!TogglePick(i) \/ Picker!ToggleStar(i)
  PROVE  Picker!PickerInv' /\ PickerAgrees
<1>0. TRUE \in BOOLEAN /\ FALSE \in BOOLEAN
  OBVIOUS
<1>1. CASE Picker!OpenPicker
  <2>1. /\ picker' = TRUE /\ picks' = listedItems \ Protected /\ stars' \in SUBSET listedItems
        /\ config' = {allowed} /\ savingStars' = FALSE
        /\ ticked' = {} /\ starred' = {} /\ configCame' = FALSE /\ touches' = touches + 1
        /\ UNCHANGED <<autostart, listedItems, allowed, scans>>
    BY <1>1 DEF Picker!OpenPicker, Picker!Touch, Picker!Picked
  <2>2. /\ picks' \subseteq Items /\ stars' \subseteq Items /\ picks' \cap Protected \subseteq ticked'
        /\ config' \subseteq SUBSET Items /\ touches' \in Nat
    BY <2>1, PickerTypesHave
  <2>3. ticked' \subseteq Items /\ starred' \subseteq Items
    BY <2>1
  <2>4. picker' \in BOOLEAN /\ savingStars' \in BOOLEAN /\ configCame' \in BOOLEAN /\ ~configCame'
    BY <2>1
  <2>5. Picker!PickerInv'
    BY <2>1, <2>2, <2>3, <2>4, PickerTypesHave, PickerHas
  <2> QED
    BY <2>1, <2>5 DEF PickerAgrees
<1>2. ASSUME NEW ok \in BOOLEAN, Picker!SaveStars(ok) PROVE Picker!PickerInv' /\ PickerAgrees
  <2>1. /\ savingStars' = TRUE /\ allowed' \in {stars, allowed} /\ touches' = touches + 1
        /\ UNCHANGED <<autostart, listedItems, picker, picks, stars, config, ticked, starred,
                       configCame, scans>>
    BY <1>2 DEF Picker!SaveStars, Picker!Touch, Picker!Stored
  <2>2. configCame => allowed \ allowed' \subseteq starred
    BY <2>1, PickerTypesHave
  <2>3. configCame' => allowed' \ stars' \subseteq starred'
    BY <2>1, PickerTypesHave
  <2>4. allowed' \subseteq Items /\ savingStars' \in BOOLEAN /\ touches' \in Nat
    BY <2>1, PickerTypesHave
  <2>5. Picker!PickerInv'
    BY <2>1, <2>3, <2>4, PickerTypesHave, PickerHas
  <2> QED
    BY <2>1, <2>2, <2>5 DEF PickerAgrees
<1>3. ASSUME NEW i \in Items, Picker!TogglePick(i) PROVE Picker!PickerInv' /\ PickerAgrees
  <2>1. /\ picks' \in {picks \ {i}, picks \cup {i}} /\ ticked' = ticked \cup {i} /\ touches' = touches + 1
        /\ UNCHANGED <<autostart, listedItems, picker, stars, allowed, config, savingStars, starred,
                       configCame, scans>>
    BY <1>3 DEF Picker!TogglePick, Picker!Touch, Picker!Flip
  <2>2. picks' \subseteq Items /\ ticked' \subseteq Items /\ picks' \cap Protected \subseteq ticked'
    BY <2>1, PickerTypesHave
  <2>3. touches' \in Nat
    BY <2>1, PickerTypesHave
  <2>4. Picker!PickerInv'
    BY <2>1, <2>2, <2>3, PickerTypesHave, PickerHas
  <2> QED
    BY <2>1, <2>4 DEF PickerAgrees
<1>4. ASSUME NEW i \in Items, Picker!ToggleStar(i) PROVE Picker!PickerInv' /\ PickerAgrees
  <2>1. /\ stars' \in {stars \ {i}, stars \cup {i}} /\ starred' = starred \cup {i} /\ touches' = touches + 1
        /\ UNCHANGED <<autostart, listedItems, picker, picks, allowed, config, savingStars, ticked,
                       configCame, scans>>
    BY <1>4 DEF Picker!ToggleStar, Picker!Touch, Picker!Flip
  <2>2. stars' \subseteq Items /\ starred' \subseteq Items
    BY <2>1, PickerTypesHave
  <2>3. configCame' => allowed' \ stars' \subseteq starred'
    BY <2>1, PickerTypesHave
  <2>4. touches' \in Nat
    BY <2>1, PickerTypesHave
  <2>5. Picker!PickerInv'
    BY <2>1, <2>2, <2>3, <2>4, PickerTypesHave, PickerHas
  <2> QED
    BY <2>1, <2>5 DEF PickerAgrees
<1> QED
  BY <1>1, <1>2, <1>3, <1>4

\* Answers, scans, and the end of the dialog.
LEMMA PickerGoesOn ==
  ASSUME Picker!PickerInv,
         \/ Picker!Scan \/ Picker!StarsSaved \/ Picker!ClosePicker \/ Picker!DisableSelected
         \/ \E ok \in BOOLEAN : Picker!ConfigArrives(ok)
  PROVE  Picker!PickerInv' /\ PickerAgrees
<1>1. CASE Picker!Scan
  <2>1. /\ autostart' \subseteq Items /\ autostart \subseteq autostart' /\ listedItems' = autostart'
        /\ scans' = scans + 1
        /\ UNCHANGED <<picker, picks, stars, allowed, config, savingStars, ticked, starred,
                       configCame, touches>>
    BY <1>1, PickerTypesHave DEF Picker!Scan
  <2>2. scans' \in Nat
    BY <2>1, PickerTypesHave
  <2>3. Picker!PickerInv'
    BY <2>1, <2>2, PickerTypesHave, PickerHas
  <2> QED
    BY <2>1, <2>3 DEF PickerAgrees
<1>2. CASE Picker!StarsSaved
  <2>1. /\ savingStars' = FALSE
        /\ UNCHANGED <<autostart, listedItems, picker, picks, stars, allowed, config,
                       ticked, starred, configCame, touches, scans>>
    BY <1>2 DEF Picker!StarsSaved
  <2>2. savingStars' \in BOOLEAN
    BY <2>1
  <2>3. Picker!PickerInv'
    BY <2>1, <2>2, PickerTypesHave, PickerHas
  <2> QED
    BY <2>1, <2>3 DEF PickerAgrees
<1>3. CASE Picker!ClosePicker
  <2>1. /\ picker' = FALSE /\ config' = {}
        /\ UNCHANGED <<autostart, listedItems, picks, stars, allowed, savingStars,
                       ticked, starred, configCame, touches, scans>>
    BY <1>3 DEF Picker!ClosePicker
  <2>2. picker' \in BOOLEAN /\ config' \subseteq SUBSET Items
    BY <2>1
  <2>3. Picker!PickerInv'
    BY <2>1, <2>2, PickerTypesHave, PickerHas
  <2> QED
    BY <2>1, <2>3 DEF PickerAgrees
<1>4. CASE Picker!DisableSelected
  <2>1. /\ picker' = FALSE /\ config' = {} /\ touches' = touches + 1
        /\ autostart' = autostart \ (listedItems \cap picks)
        /\ UNCHANGED <<listedItems, picks, stars, allowed, savingStars, ticked, starred,
                       configCame, scans>>
    BY <1>4 DEF Picker!DisableSelected, Picker!Touch, Picker!Selected
  <2>2. picker' \in BOOLEAN /\ config' \subseteq SUBSET Items /\ touches' \in Nat
    <3>1. picker' = FALSE /\ config' = {} /\ touches' = touches + 1
      BY <2>1
    <3>2. touches \in Nat
      BY PickerTypesHave
    <3>3. touches' \in Nat
      BY ONLY <3>1, <3>2
    <3>4. picker' \in BOOLEAN /\ config' \subseteq SUBSET Items
      BY ONLY <3>1, Zenon
    <3> QED
      BY ONLY <3>3, <3>4, Zenon
  <2>3. /\ autostart' \subseteq Items
        /\ \A i \in autostart \ autostart' : i \in Protected => i \in ticked
    <3>1. autostart \subseteq Items /\ picks \cap Protected \subseteq ticked
      BY PickerTypesHave
    <3>2. autostart' = autostart \ (listedItems \cap picks)
      BY <2>1
    <3>3. autostart' \subseteq autostart /\ autostart \ autostart' \subseteq picks
      BY ONLY <3>2
    <3>4. ASSUME NEW i \in autostart \ autostart', i \in Protected PROVE i \in ticked
      BY ONLY <3>1, <3>3, <3>4
    <3> QED
      BY ONLY <3>1, <3>3, <3>4
  <2>4. Picker!PickerInv'
    BY <2>1, <2>2, <2>3, PickerTypesHave, PickerHas
  <2> QED
    BY <2>1, <2>3, <2>4 DEF PickerAgrees
<1>5. ASSUME NEW ok \in BOOLEAN, Picker!ConfigArrives(ok) PROVE Picker!PickerInv' /\ PickerAgrees
  <2>1. /\ config' = {} /\ stars' = (IF ok THEN UNION config ELSE stars)
        /\ starred' = (IF ok THEN {} ELSE starred) /\ configCame' = (ok /\ config = {allowed})
        /\ UNCHANGED <<autostart, listedItems, picker, picks, allowed, savingStars,
                       ticked, touches, scans>>
    BY <1>5 DEF Picker!ConfigArrives
  <2>2. config' \subseteq SUBSET Items /\ stars' \subseteq Items /\ starred' \subseteq Items
    <3>1. UNION config \subseteq Items /\ stars \subseteq Items /\ starred \subseteq Items
      BY PickerTypesHave
    <3> QED
      BY <2>1, <3>1
  <2>3. configCame' \in BOOLEAN
    BY <2>1, Zenon
  <2>4. ASSUME configCame' PROVE allowed' \ stars' \subseteq starred'
    <3>1. ok /\ config = {allowed}
      BY <2>1, <2>4
    <3>2. UNION config = allowed
      BY <3>1
    <3>3. stars' = UNION config
      BY <2>1, <3>1
    <3> QED
      BY <2>1, <3>2, <3>3
  <2>5. Picker!PickerInv'
    BY <2>1, <2>2, <2>3, <2>4, PickerTypesHave, PickerHas
  <2> QED
    BY <2>1, <2>5 DEF PickerAgrees
<1> QED
  BY <1>1, <1>2, <1>3, <1>4, <1>5

LEMMA PickerStep ==
  ASSUME Picker!PickerInv, [Picker!Next]_pickerVars
  PROVE  Picker!PickerInv' /\ PickerAgrees
<1>1. CASE UNCHANGED pickerVars
  BY <1>1 DEF pickerVars, Picker!PickerInv, Picker!TypeOK, Picker!ProtectedAreTicked,
     Picker!MissingAreUnstarred, PickerAgrees
<1>2. CASE Picker!Next
  BY <1>2, PickerTouches, PickerGoesOn DEF Picker!Next
<1> QED
  BY <1>1, <1>2

(***************************************************************************)
(* The weekly review.                                                       *)
(***************************************************************************)

LEMMA ReviewTypesHave ==
  ASSUME Review!ReviewInv
  PROVE  /\ lastReview \in Review!Dates /\ pendingFlag \in BOOLEAN
         /\ itemStates \in [Review!Dates -> Review!States]
         /\ reviewVisit \in Nat /\ pickedDate \in 0..MaxReviews
         /\ reviewShown \in Review!ReviewType /\ listedReviews \in 0..MaxReviews
         /\ reviewLoading \in BOOLEAN /\ reviewLoads \subseteq Review!LoadType
         /\ stateOrders \in Seq(Review!CallType) /\ reviewRuns \subseteq Review!CallType
         /\ given \subseteq Review!Dates \X Review!States
         /\ reviewAstray \in BOOLEAN /\ reviewClicks \in Nat
         /\ \A i \in DOMAIN stateOrders : Review!Promised(stateOrders[i])
         /\ \A r \in reviewRuns : Review!Promised(r)
  BY DEF Review!ReviewInv, Review!TypeOK, Review!OrdersAreGiven

LEMMA ReviewHas ==
  ASSUME lastReview' \in Review!Dates, pendingFlag' \in BOOLEAN,
         itemStates' \in [Review!Dates -> Review!States],
         reviewVisit' \in Nat, pickedDate' \in 0..MaxReviews,
         reviewShown' \in Review!ReviewType, listedReviews' \in 0..MaxReviews,
         reviewLoading' \in BOOLEAN, reviewLoads' \subseteq Review!LoadType,
         stateOrders' \in Seq(Review!CallType), reviewRuns' \subseteq Review!CallType,
         given' \subseteq Review!Dates \X Review!States,
         reviewAstray' \in BOOLEAN, reviewClicks' \in Nat
  PROVE  Review!TypeOK'
  BY DEF Review!TypeOK

LEMMA ReviewRecords ==
  /\ Review!NoReview \in Review!ReviewType
  /\ \A v \in Nat, d \in 0..MaxReviews :
       [of |-> v, date |-> d, seen |-> Review!NoReview, read |-> FALSE] \in Review!LoadType
<1>1. Review!NoReview \in Review!ReviewType
  BY ReviewAssumption DEF Review!NoReview, Review!ReviewType, Review!States
<1> QED
  BY <1>1 DEF Review!LoadType

LEMMA ReviewInit == Review!Init => Review!ReviewInv
<1> SUFFICES ASSUME Review!Init PROVE Review!ReviewInv
  OBVIOUS
<1>1. /\ lastReview = 1 /\ pendingFlag = TRUE
      /\ itemStates = [d \in Review!Dates |-> "pending"]
      /\ reviewVisit = 1 /\ pickedDate = 0 /\ reviewShown = Review!NoReview
      /\ listedReviews = 0 /\ reviewLoading = TRUE
      /\ reviewLoads = {[of |-> 1, date |-> 0, seen |-> Review!NoReview, read |-> FALSE]}
      /\ stateOrders = <<>> /\ reviewRuns = {}
      /\ given = {} /\ reviewAstray = FALSE /\ reviewClicks = 0
  BY DEF Review!Init
<1>2. 1 \in Review!Dates /\ 0 \in 0..MaxReviews
  BY ReviewAssumption DEF Review!Dates
<1>3. itemStates \in [Review!Dates -> Review!States]
  BY <1>1 DEF Review!States
<1>4. reviewLoads \subseteq Review!LoadType
  BY <1>1, <1>2, ReviewRecords
<1>5. stateOrders \in Seq(Review!CallType)
  BY <1>1
<1>6. Review!TypeOK
  BY <1>1, <1>2, <1>3, <1>4, <1>5, ReviewRecords DEF Review!TypeOK
<1> QED
  BY <1>1, <1>6 DEF Review!ReviewInv, Review!OrdersAreGiven

\* What the user made of an item is stored only if the user made it.
GivenOnly ==
  \A d \in Review!Dates : itemStates'[d] # itemStates[d] => <<d, itemStates'[d]>> \in given

\* One order more on its way to the table: each of them is still given.
LEMMA ReviewAppends ==
  ASSUME Review!ReviewInv, NEW o \in Review!CallType,
         o.is = "set" => <<o.date, o.state>> \in given', given \subseteq given',
         stateOrders' = Append(stateOrders, o)
  PROVE  /\ stateOrders' \in Seq(Review!CallType)
         /\ \A i \in DOMAIN stateOrders' :
              stateOrders'[i].is = "set" =>
                <<stateOrders'[i].date, stateOrders'[i].state>> \in given'
<1>1. /\ stateOrders \in Seq(Review!CallType)
      /\ \A i \in DOMAIN stateOrders : Review!Promised(stateOrders[i])
  BY ReviewTypesHave
<1>2. \A i \in 1..Len(stateOrders) :
        stateOrders[i].is = "set" => <<stateOrders[i].date, stateOrders[i].state>> \in given'
  BY <1>1 DEF Review!Promised
<1>3. /\ stateOrders' \in Seq(Review!CallType) /\ Len(stateOrders') = Len(stateOrders) + 1
      /\ \A i \in 1..Len(stateOrders) : stateOrders'[i] = stateOrders[i]
      /\ stateOrders'[Len(stateOrders) + 1] = o
  BY ONLY <1>1, stateOrders' = Append(stateOrders, o), o \in Review!CallType
<1>4. DOMAIN stateOrders' = 1..(Len(stateOrders) + 1) /\ Len(stateOrders) \in Nat
  BY <1>1, <1>3
<1> SUFFICES ASSUME NEW i \in DOMAIN stateOrders', stateOrders'[i].is = "set"
             PROVE  <<stateOrders'[i].date, stateOrders'[i].state>> \in given'
  BY <1>3
<1>5. CASE i \in 1..Len(stateOrders)
  BY <1>2, <1>3, <1>5
<1>6. CASE i = Len(stateOrders) + 1
  BY <1>3, <1>6
<1> QED
  BY <1>4, <1>5, <1>6

\* Orders that are given stay given while more is given and none is added.
LEMMA ReviewKeepsOrders ==
  ASSUME Review!ReviewInv, given \subseteq given', UNCHANGED stateOrders,
         \A r \in reviewRuns' \ reviewRuns : r.is = "set" => <<r.date, r.state>> \in given'
  PROVE  Review!OrdersAreGiven'
<1>1. /\ \A i \in DOMAIN stateOrders : Review!Promised(stateOrders[i])
      /\ \A r \in reviewRuns : Review!Promised(r)
  BY ReviewTypesHave
<1> QED
  BY <1>1 DEF Review!OrdersAreGiven, Review!Promised

\* A load that begins is a load.
LEMMA ReviewBegins ==
  ASSUME Review!ReviewInv, UNCHANGED reviewVisit, NEW d \in 0..MaxReviews, Review!BeginLoad(d)
  PROVE  reviewLoads' \subseteq Review!LoadType /\ reviewLoading' \in BOOLEAN
         /\ reviewAstray' \in BOOLEAN
<1>1. reviewLoads \subseteq Review!LoadType /\ reviewVisit \in Nat
  BY ReviewTypesHave
<1>2. Review!NewLoad(d) \in Review!LoadType
  BY <1>1, ReviewRecords DEF Review!NewLoad
<1> QED
  BY <1>1, <1>2 DEF Review!BeginLoad

\* The main process and the loads.
LEMMA ReviewLoads ==
  ASSUME Review!ReviewInv,
         \/ Review!ReviewWritten \/ Review!ReturnToReview
         \/ \E l \in reviewLoads : Review!LoadStep(l)
  PROVE  Review!ReviewInv' /\ GivenOnly
<1>0. lastReview \in 1..MaxReviews /\ reviewVisit \in Nat /\ reviewClicks \in Nat
  BY ReviewTypesHave DEF Review!Dates
<1>1. CASE Review!ReviewWritten
  <2>1. /\ lastReview' = lastReview + 1 /\ lastReview < MaxReviews /\ pendingFlag' = TRUE
        /\ UNCHANGED <<itemStates, reviewVisit, pickedDate, reviewShown, listedReviews,
                       reviewLoading, reviewLoads, stateOrders, reviewRuns, given,
                       reviewAstray, reviewClicks>>
    BY <1>1 DEF Review!ReviewWritten
  <2>2. lastReview' \in Review!Dates /\ pendingFlag' \in BOOLEAN
    BY <1>0, <2>1, ReviewAssumption DEF Review!Dates
  <2>3. Review!OrdersAreGiven'
    BY <2>1, ReviewKeepsOrders
  <2>4. Review!TypeOK'
    BY <2>1, <2>2, ReviewTypesHave, Zenon DEF Review!TypeOK
  <2> QED
    BY <2>1, <2>3, <2>4 DEF Review!ReviewInv, GivenOnly
<1>2. CASE Review!ReturnToReview
  <2>1. /\ reviewClicks' = reviewClicks + 1 /\ reviewVisit' = reviewVisit + 1
        /\ pickedDate' = 0 /\ reviewShown' = Review!NoReview /\ listedReviews' = 0
        /\ reviewLoading' = TRUE /\ reviewAstray' = FALSE
        /\ reviewLoads' = {[of |-> reviewVisit', date |-> 0, seen |-> Review!NoReview,
                            read |-> FALSE]}
        /\ UNCHANGED <<lastReview, pendingFlag, itemStates, stateOrders, reviewRuns, given>>
    BY <1>2 DEF Review!ReturnToReview, Review!NewLoad
  <2>2. /\ reviewClicks' \in Nat /\ reviewVisit' \in Nat /\ 0 \in 0..MaxReviews
        /\ reviewLoading' \in BOOLEAN /\ reviewAstray' \in BOOLEAN
    <3>1. reviewClicks' \in Nat /\ reviewVisit' \in Nat /\ 0 \in 0..MaxReviews
      BY <1>0, <2>1, ReviewAssumption
    <3> QED
      BY <2>1, <3>1, Zenon
  <2>3. reviewLoads' \subseteq Review!LoadType
    BY <2>1, <2>2, ReviewRecords
  <2>4. Review!OrdersAreGiven'
    BY <2>1, ReviewKeepsOrders
  <2>5. Review!TypeOK'
    BY <2>1, <2>2, <2>3, ReviewTypesHave, ReviewRecords, Zenon DEF Review!TypeOK
  <2> QED
    BY <2>1, <2>4, <2>5 DEF Review!ReviewInv, GivenOnly
<1>3. ASSUME NEW l \in reviewLoads, Review!ReviewRead(l) PROVE Review!ReviewInv' /\ GivenOnly
  <2>1. PICK d : d = IF l.date = 0 THEN lastReview ELSE l.date
    OBVIOUS
  <2>2. PICK s : s = [date |-> d, state |-> itemStates[d], flag |-> pendingFlag]
    OBVIOUS
  <2>3. PICK n : n = [l EXCEPT !.read = TRUE, !.seen = s]
    OBVIOUS
  <2>4. /\ reviewLoads' = (reviewLoads \ {l}) \cup {n}
        /\ UNCHANGED <<lastReview, pendingFlag, itemStates, reviewVisit, pickedDate, reviewShown,
                       listedReviews, reviewLoading, stateOrders, reviewRuns, given,
                       reviewAstray, reviewClicks>>
    BY <1>3, <2>1, <2>2, <2>3 DEF Review!ReviewRead
  <2>5. l \in Review!LoadType /\ reviewLoads \subseteq Review!LoadType
    BY ReviewTypesHave
  <2>6. d \in 1..MaxReviews
    BY <1>0, <2>1, <2>5, ReviewAssumption DEF Review!LoadType
  <2>7. s \in Review!ReviewType
    <3>1. itemStates[d] \in Review!States /\ pendingFlag \in BOOLEAN /\ d \in 0..MaxReviews
      BY <2>6, ReviewAssumption, ReviewTypesHave DEF Review!Dates
    <3> QED
      BY <2>2, <3>1 DEF Review!ReviewType
  <2>8. n \in Review!LoadType
    BY <2>3, <2>5, <2>7 DEF Review!LoadType
  <2>9. reviewLoads' \subseteq Review!LoadType
    BY <2>4, <2>5, <2>8
  <2>10. Review!OrdersAreGiven'
    BY <2>4, ReviewKeepsOrders
  <2>11. Review!TypeOK'
    BY <2>4, <2>9, ReviewTypesHave, Zenon DEF Review!TypeOK
  <2> QED
    BY <2>4, <2>10, <2>11 DEF Review!ReviewInv, GivenOnly
<1>4. ASSUME NEW l \in reviewLoads, NEW ok \in BOOLEAN, Review!ReviewArrives(l, ok)
      PROVE  Review!ReviewInv' /\ GivenOnly
  <2>1. /\ reviewLoads' = reviewLoads \ {l}
        /\ reviewShown' \in {reviewShown, l.seen} /\ listedReviews' \in {listedReviews, lastReview}
        /\ reviewLoading' \in {reviewLoading, FALSE}
        /\ reviewAstray' \in {reviewAstray, (reviewAstray \/ ~ok)}
        /\ UNCHANGED <<lastReview, pendingFlag, itemStates, reviewVisit, pickedDate, stateOrders,
                       reviewRuns, given, reviewClicks>>
    BY <1>4, Zenon DEF Review!ReviewArrives
  <2>2. l \in Review!LoadType /\ reviewLoads \subseteq Review!LoadType
    BY ReviewTypesHave
  <2>3. reviewLoads' \subseteq Review!LoadType /\ l.seen \in Review!ReviewType
    BY <2>1, <2>2 DEF Review!LoadType
  <2>4. reviewShown' \in Review!ReviewType
    BY <2>1, <2>3, ReviewTypesHave
  <2>5. listedReviews' \in 0..MaxReviews
    <3>1. lastReview \in 0..MaxReviews /\ listedReviews \in 0..MaxReviews
      BY <1>0, ReviewTypesHave
    <3> QED
      BY <2>1, <3>1
  <2>6. reviewLoading' \in BOOLEAN /\ reviewAstray' \in BOOLEAN
    BY <2>1, ReviewTypesHave, Zenon
  <2>7. Review!OrdersAreGiven'
    BY <2>1, ReviewKeepsOrders
  <2>8. Review!TypeOK'
    BY <2>1, <2>3, <2>4, <2>5, <2>6, ReviewTypesHave, Zenon DEF Review!TypeOK
  <2> QED
    BY <2>1, <2>7, <2>8 DEF Review!ReviewInv, GivenOnly
<1> QED
  BY <1>1, <1>2, <1>3, <1>4 DEF Review!LoadStep

\* The user's clicks, and the end of an action.
LEMMA ReviewClicks ==
  ASSUME Review!ReviewInv,
         \/ Review!MarkReviewed \/ Review!ApplyItem
         \/ \E d \in Review!Dates : Review!PickReview(d)
         \/ \E s \in {"pending", "dismissed", "snoozed"} : Review!GiveState(s)
         \/ \E r \in reviewRuns : Review!Applied(r)
  PROVE  Review!ReviewInv' /\ GivenOnly
<1>0. /\ reviewVisit \in Nat /\ reviewClicks \in Nat /\ pickedDate \in 0..MaxReviews
      /\ reviewShown \in Review!ReviewType /\ reviewRuns \subseteq Review!CallType
      /\ given \subseteq Review!Dates \X Review!States
      /\ \A r \in reviewRuns : Review!Promised(r)
  BY ReviewTypesHave
<1>1. reviewShown.date \in 0..MaxReviews
  BY <1>0 DEF Review!ReviewType
<1>2. Review!OnReview => reviewShown.date \in Review!Dates /\ reviewClicks' \in Nat
  BY <1>0, <1>1, ReviewAssumption DEF Review!OnReview, Review!Dates
<1>3. CASE Review!MarkReviewed
  <2>1. PICK o : o = [is |-> "flag", of |-> reviewVisit, date |-> pickedDate, state |-> "none"]
    OBVIOUS
  <2>2. /\ Review!OnReview /\ stateOrders' = Append(stateOrders, o)
        /\ UNCHANGED <<lastReview, pendingFlag, itemStates, reviewVisit, pickedDate, reviewShown,
                       listedReviews, reviewLoading, reviewLoads, reviewRuns, given,
                       reviewAstray>>
    BY <1>3, <2>1 DEF Review!MarkReviewed, Review!Order
  <2>3. o \in Review!CallType /\ o.is # "set"
    BY <1>0, <2>1 DEF Review!CallType
  <2>4. /\ stateOrders' \in Seq(Review!CallType)
        /\ \A i \in DOMAIN stateOrders' :
             stateOrders'[i].is = "set" =>
               <<stateOrders'[i].date, stateOrders'[i].state>> \in given'
    BY <2>2, <2>3, ReviewAppends
  <2>5. Review!OrdersAreGiven'
    BY <1>0, <2>2, <2>4 DEF Review!OrdersAreGiven, Review!Promised
  <2>6. Review!TypeOK'
    BY <1>2, <2>2, <2>4, ReviewTypesHave, Zenon DEF Review!TypeOK
  <2> QED
    BY <2>2, <2>5, <2>6 DEF Review!ReviewInv, GivenOnly
<1>4. CASE Review!ApplyItem
  <2>1. PICK o : o = [is |-> "set", of |-> reviewVisit, date |-> reviewShown.date,
                      state |-> "applied"]
    OBVIOUS
  <2>2. /\ Review!OnReview /\ reviewRuns' = reviewRuns \cup {o}
        /\ given' = given \cup {<<reviewShown.date, "applied">>}
        /\ UNCHANGED <<lastReview, pendingFlag, itemStates, reviewVisit, pickedDate, reviewShown,
                       listedReviews, reviewLoading, reviewLoads, stateOrders, reviewAstray>>
    BY <1>4, <2>1 DEF Review!ApplyItem, Review!Order
  <2>3. o \in Review!CallType /\ <<o.date, o.state>> \in given'
    BY <1>0, <1>1, <2>1, <2>2 DEF Review!CallType, Review!States
  <2>4. reviewRuns' \subseteq Review!CallType
    BY <1>0, <2>2, <2>3
  <2>5. given' \subseteq Review!Dates \X Review!States
    BY <1>0, <1>2, <2>2 DEF Review!States
  <2>6. Review!OrdersAreGiven'
    <3>1. given \subseteq given' /\ UNCHANGED stateOrders
      BY <2>2
    <3>2. \A r \in reviewRuns' \ reviewRuns : r.is = "set" => <<r.date, r.state>> \in given'
      BY <2>2, <2>3
    <3> QED
      BY <3>1, <3>2, ReviewKeepsOrders
  <2>7. Review!TypeOK'
    BY <1>2, <2>2, <2>4, <2>5, ReviewTypesHave, Zenon DEF Review!TypeOK
  <2> QED
    BY <2>2, <2>6, <2>7 DEF Review!ReviewInv, GivenOnly
<1>5. ASSUME NEW d \in Review!Dates, Review!PickReview(d) PROVE Review!ReviewInv' /\ GivenOnly
  <2>1. /\ Review!OnReview /\ pickedDate' = d /\ reviewVisit' = reviewVisit
        /\ Review!BeginLoad(d)
        /\ UNCHANGED <<lastReview, pendingFlag, itemStates, reviewShown, listedReviews,
                       stateOrders, reviewRuns, given>>
    BY <1>5 DEF Review!PickReview
  <2>2. d \in 0..MaxReviews
    BY ReviewAssumption DEF Review!Dates
  <2>3. /\ reviewLoads' \subseteq Review!LoadType /\ reviewLoading' \in BOOLEAN
        /\ reviewAstray' \in BOOLEAN
    BY <2>1, <2>2, ReviewBegins
  <2>4. Review!OrdersAreGiven'
    BY <2>1, ReviewKeepsOrders
  <2>5. Review!TypeOK'
    BY <1>2, <2>1, <2>2, <2>3, ReviewTypesHave, Zenon DEF Review!TypeOK
  <2> QED
    BY <2>1, <2>4, <2>5 DEF Review!ReviewInv, GivenOnly
<1>6. ASSUME NEW s \in {"pending", "dismissed", "snoozed"}, Review!GiveState(s)
      PROVE  Review!ReviewInv' /\ GivenOnly
  <2>1. PICK o : o = [is |-> "set", of |-> reviewVisit, date |-> reviewShown.date, state |-> s]
    OBVIOUS
  <2>2. /\ Review!OnReview /\ stateOrders' = Append(stateOrders, o)
        /\ given' = given \cup {<<reviewShown.date, s>>}
        /\ UNCHANGED <<lastReview, pendingFlag, itemStates, reviewVisit, pickedDate, reviewShown,
                       listedReviews, reviewLoading, reviewLoads, reviewRuns, reviewAstray>>
    BY <1>6, <2>1 DEF Review!GiveState, Review!Order
  <2>3. o \in Review!CallType /\ <<o.date, o.state>> \in given' /\ given \subseteq given'
    BY <1>0, <1>1, <2>1, <2>2 DEF Review!CallType, Review!States
  <2>4. /\ stateOrders' \in Seq(Review!CallType)
        /\ \A i \in DOMAIN stateOrders' :
             stateOrders'[i].is = "set" =>
               <<stateOrders'[i].date, stateOrders'[i].state>> \in given'
    BY <2>2, <2>3, ReviewAppends
  <2>5. given' \subseteq Review!Dates \X Review!States
    BY <1>0, <1>2, <2>2 DEF Review!States
  <2>6. Review!OrdersAreGiven'
    BY <1>0, <2>2, <2>3, <2>4 DEF Review!OrdersAreGiven, Review!Promised
  <2>7. Review!TypeOK'
    BY <1>2, <2>2, <2>4, <2>5, ReviewTypesHave, Zenon DEF Review!TypeOK
  <2> QED
    BY <2>2, <2>6, <2>7 DEF Review!ReviewInv, GivenOnly
<1>7. ASSUME NEW r \in reviewRuns, Review!Applied(r) PROVE Review!ReviewInv' /\ GivenOnly
  <2>1. /\ reviewRuns' = reviewRuns \ {r} /\ stateOrders' = Append(stateOrders, r)
        /\ UNCHANGED <<lastReview, pendingFlag, itemStates, reviewVisit, pickedDate, reviewShown,
                       listedReviews, reviewLoading, reviewLoads, given, reviewAstray,
                       reviewClicks>>
    BY <1>7 DEF Review!Applied
  <2>2. /\ r \in Review!CallType /\ given \subseteq given'
        /\ r.is = "set" => <<r.date, r.state>> \in given'
    BY <1>0, <2>1 DEF Review!Promised
  <2>3. /\ stateOrders' \in Seq(Review!CallType)
        /\ \A i \in DOMAIN stateOrders' :
             stateOrders'[i].is = "set" =>
               <<stateOrders'[i].date, stateOrders'[i].state>> \in given'
    BY <2>1, <2>2, ReviewAppends
  <2>4. reviewRuns' \subseteq Review!CallType
    BY <1>0, <2>1
  <2>5. Review!OrdersAreGiven'
    BY <1>0, <2>1, <2>3 DEF Review!OrdersAreGiven, Review!Promised
  <2>6. Review!TypeOK'
    BY <2>1, <2>3, <2>4, ReviewTypesHave, Zenon DEF Review!TypeOK
  <2> QED
    BY <2>1, <2>5, <2>6 DEF Review!ReviewInv, GivenOnly
<1> QED
  BY <1>3, <1>4, <1>5, <1>6, <1>7

\* The first call on its way is handled.
LEMMA ReviewHandles ==
  ASSUME Review!ReviewInv, Review!OrderHandled
  PROVE  Review!ReviewInv' /\ GivenOnly
<1>0. /\ stateOrders \in Seq(Review!CallType) /\ stateOrders # <<>>
      /\ \A i \in DOMAIN stateOrders : Review!Promised(stateOrders[i])
      /\ \A r \in reviewRuns : Review!Promised(r)
      /\ itemStates \in [Review!Dates -> Review!States] /\ pendingFlag \in BOOLEAN
      /\ given \subseteq Review!Dates \X Review!States
  BY ReviewTypesHave DEF Review!OrderHandled
<1>1. PICK o : o = Head(stateOrders)
  OBVIOUS
<1>2. /\ o = stateOrders[1] /\ o \in Review!CallType /\ 1 \in DOMAIN stateOrders
      /\ Tail(stateOrders) \in Seq(Review!CallType)
      /\ \A i \in DOMAIN Tail(stateOrders) :
           i + 1 \in DOMAIN stateOrders /\ Tail(stateOrders)[i] = stateOrders[i + 1]
  BY ONLY <1>0, <1>1
<1>3. Review!Promised(o) /\ o.date \in 0..MaxReviews
  BY <1>0, <1>2 DEF Review!CallType
<1>4. /\ stateOrders' = Tail(stateOrders) /\ reviewVisit' = reviewVisit
      /\ itemStates' \in IF o.is = "set" THEN {itemStates, [itemStates EXCEPT ![o.date] = o.state]}
                                         ELSE {itemStates}
      /\ pendingFlag' \in IF o.is = "flag" THEN {pendingFlag, FALSE} ELSE {pendingFlag}
      /\ IF o.of = reviewVisit THEN Review!BeginLoad(o.date)
         ELSE reviewAstray' = TRUE /\ UNCHANGED <<reviewLoads, reviewLoading>>
      /\ UNCHANGED <<lastReview, pickedDate, reviewShown, listedReviews, reviewRuns, given,
                     reviewClicks>>
  BY <1>1 DEF Review!OrderHandled
<1>5. itemStates' = itemStates \/
        /\ o.is = "set" /\ itemStates' = [itemStates EXCEPT ![o.date] = o.state]
        /\ <<o.date, o.state>> \in given
  BY <1>3, <1>4 DEF Review!Promised
<1>6. itemStates' \in [Review!Dates -> Review!States] /\ GivenOnly
  <2>1. CASE itemStates' = itemStates
    BY <1>0, <2>1 DEF GivenOnly
  <2>2. CASE /\ itemStates' = [itemStates EXCEPT ![o.date] = o.state]
             /\ <<o.date, o.state>> \in given
    <3>1. o.date \in Review!Dates /\ o.state \in Review!States
      BY <1>0, <2>2
    <3>2. \A d \in Review!Dates : d # o.date => itemStates'[d] = itemStates[d]
      BY <1>0, <2>2, <3>1
    <3>3. itemStates'[o.date] = o.state /\ itemStates' \in [Review!Dates -> Review!States]
      BY <1>0, <2>2, <3>1
    <3> QED
      BY <2>2, <3>2, <3>3 DEF GivenOnly
  <2> QED
    BY <1>5, <2>1, <2>2
<1>7. pendingFlag' \in BOOLEAN
  <2>1. pendingFlag' = pendingFlag \/ pendingFlag' = FALSE
    BY <1>4
  <2> QED
    BY <1>0, <2>1, Zenon
<1>8. /\ reviewLoads' \subseteq Review!LoadType /\ reviewLoading' \in BOOLEAN
      /\ reviewAstray' \in BOOLEAN
  <2>1. CASE o.of = reviewVisit
    <3>1. UNCHANGED reviewVisit /\ Review!BeginLoad(o.date)
      BY <1>4, <2>1
    <3> QED
      BY <1>3, <3>1, ReviewBegins
  <2>2. CASE o.of # reviewVisit
    BY <1>4, <2>2, ReviewTypesHave, Zenon
  <2> QED
    BY <2>1, <2>2
<1>9. Review!OrdersAreGiven'
  <2>1. \A i \in DOMAIN stateOrders' :
          stateOrders'[i].is = "set" =>
            <<stateOrders'[i].date, stateOrders'[i].state>> \in given'
    BY <1>0, <1>2, <1>4 DEF Review!Promised
  <2> QED
    BY <1>0, <1>4, <2>1 DEF Review!OrdersAreGiven, Review!Promised
<1>10. Review!TypeOK'
  <2>1. stateOrders' \in Seq(Review!CallType)
    BY <1>2, <1>4
  <2> QED
    BY <1>4, <1>6, <1>7, <1>8, <2>1, ReviewTypesHave, Zenon DEF Review!TypeOK
<1> QED
  BY <1>6, <1>9, <1>10 DEF Review!ReviewInv

LEMMA ReviewStep ==
  ASSUME Review!ReviewInv, [Review!Next]_reviewVars
  PROVE  Review!ReviewInv' /\ GivenOnly
<1>1. CASE UNCHANGED reviewVars
  <2>1. UNCHANGED <<lastReview, pendingFlag, itemStates, reviewVisit, pickedDate, reviewShown,
                    listedReviews, reviewLoading, reviewLoads, stateOrders, reviewRuns, given,
                    reviewAstray, reviewClicks>>
    BY <1>1 DEF reviewVars
  <2>2. Review!OrdersAreGiven'
    BY <2>1, ReviewKeepsOrders
  <2>3. Review!TypeOK'
    BY <2>1, ReviewTypesHave, Zenon DEF Review!TypeOK
  <2> QED
    BY <2>1, <2>2, <2>3 DEF Review!ReviewInv, GivenOnly
<1>2. CASE Review!Next
  BY <1>2, ReviewLoads, ReviewClicks, ReviewHandles DEF Review!Next
<1> QED
  BY <1>1, <1>2

(***************************************************************************)
(* The launches of the Tools page.                                          *)
(***************************************************************************)

\* Why a launch is where it is: what it answered, what of its child, and what the shell said.
LEMMA LaunchHas ==
  ASSUME Tool!ToolInv, NEW l \in Launches
  PROVE  /\ answers[l] = IF told[l] = "nothing" THEN 0 ELSE 1
         /\ shell[l] # "none" => child[l] = "EACCES"
         /\ shell[l] = "asked" => told[l] = "nothing"
         /\ told[l] = "launched" => child[l] \in {"has pid", "by explorer"} \/ shell[l] = "opened"
  BY DEF Tool!ToolInv, Tool!AnswersAreCounted, Tool!LaunchedIsRunning, Tool!Open

\* A step is of one launch.
LEMMA OneLaunches ==
  ASSUME Tool!ToolInv, Tool!TypeOK', NEW l \in Launches,
         \A m \in Launches \ {l} : /\ child'[m] = child[m] /\ shell'[m] = shell[m]
                                   /\ told'[m] = told[m] /\ answers'[m] = answers[m],
         answers'[l] = (IF told'[l] = "nothing" THEN 0 ELSE 1),
         shell'[l] # "none" => child'[l] = "EACCES",
         shell'[l] = "asked" => told'[l] = "nothing",
         told'[l] = "launched" => child'[l] \in {"has pid", "by explorer"} \/ shell'[l] = "opened"
  PROVE  Tool!ToolInv'
<1>1. ASSUME NEW m \in Launches
      PROVE  /\ answers'[m] = IF told'[m] = "nothing" THEN 0 ELSE 1
             /\ shell'[m] # "none" => child'[m] = "EACCES"
             /\ shell'[m] = "asked" => told'[m] = "nothing"
             /\ told'[m] = "launched" => child'[m] \in {"has pid", "by explorer"} \/ shell'[m] = "opened"
  <2>1. CASE m = l
    BY <2>1
  <2>2. CASE m # l
    <3>1. /\ child'[m] = child[m] /\ shell'[m] = shell[m]
          /\ told'[m] = told[m] /\ answers'[m] = answers[m]
      BY <2>2
    <3> QED
      BY <3>1, LaunchHas
  <2> QED
    BY <2>1, <2>2
<1>2. ASSUME NEW m \in Launches PROVE answers'[m] <= 1
  <2>1. answers'[m] = 0 \/ answers'[m] = 1
    BY <1>1
  <2> QED
    BY ONLY <2>1
<1>3. Tool!AnswersAreCounted'
  BY <1>1 DEF Tool!AnswersAreCounted, Tool!Open
<1>4. Tool!LaunchedIsRunning'
  BY <1>1, <1>2 DEF Tool!LaunchedIsRunning
<1> QED
  BY <1>3, <1>4 DEF Tool!ToolInv

LEMMA ToolTypesHave ==
  ASSUME Tool!TypeOK
  PROVE  /\ child \in [Launches -> {"none", "new", "has pid", "no pid", "EACCES", "other", "by explorer"}]
         /\ queued \in [Launches -> SUBSET {"spawn", "error"}] /\ timer \in [Launches -> BOOLEAN]
         /\ shell \in [Launches -> {"none", "asked", "opened", "refused"}]
         /\ told \in [Launches -> {"nothing", "launched", "error"}] /\ answers \in [Launches -> Nat]
  BY DEF Tool!TypeOK

LEMMA ToolInit == Tool!Init => Tool!ToolInv
<1> SUFFICES ASSUME Tool!Init PROVE Tool!ToolInv
  OBVIOUS
<1>1. /\ child = [l \in Launches |-> "none"] /\ queued = [l \in Launches |-> {}]
      /\ timer = [l \in Launches |-> FALSE] /\ shell = [l \in Launches |-> "none"]
      /\ told = [l \in Launches |-> "nothing"] /\ answers = [l \in Launches |-> 0]
  BY DEF Tool!Init
<1>2. Tool!TypeOK
  BY <1>1 DEF Tool!TypeOK
<1> QED
  BY <1>1, <1>2 DEF Tool!ToolInv, Tool!AnswersAreCounted, Tool!LaunchedIsRunning, Tool!Open

\* An answer, if there was none.
LEMMA ToolTells ==
  ASSUME Tool!ToolInv, NEW l \in Launches, NEW what \in {"launched", "error"},
         Tool!Tell(l, what), told[l] = "nothing"
  PROVE  /\ told' \in [Launches -> {"nothing", "launched", "error"}] /\ answers' \in [Launches -> Nat]
         /\ told'[l] = what /\ answers'[l] = 1
         /\ \A m \in Launches \ {l} : told'[m] = told[m] /\ answers'[m] = answers[m]
<1>1. /\ told \in [Launches -> {"nothing", "launched", "error"}] /\ answers \in [Launches -> Nat]
      /\ answers[l] = 0
  BY LaunchHas DEF Tool!ToolInv, Tool!TypeOK
<1>2. told' = [told EXCEPT ![l] = what] /\ answers' = [answers EXCEPT ![l] = answers[l] + 1]
  BY DEF Tool!Tell
<1> QED
  BY <1>1, <1>2

\* A tool is launched: a child is there, or the launch is answered.
LEMMA ToolLaunches ==
  ASSUME Tool!ToolInv, NEW l \in Launches, Tool!LaunchTool(l)
  PROVE  Tool!ToolInv'
<1>1. /\ told[l] = "nothing" /\ child[l] = "none" /\ UNCHANGED <<found, queued, shell>>
  BY DEF Tool!LaunchTool, Tool!Open
<1>2. Tool!TypeOK /\ answers[l] = 0 /\ shell[l] = "none"
  BY <1>1, LaunchHas DEF Tool!ToolInv, Tool!TypeOK
<1>3. CASE /\ child' = [child EXCEPT ![l] = "new"] /\ timer' = [timer EXCEPT ![l] = TRUE]
           /\ UNCHANGED <<told, answers>>
  <2>1. Tool!TypeOK'
    BY <1>1, <1>2, <1>3 DEF Tool!TypeOK
  <2>2. \A m \in Launches \ {l} : /\ child'[m] = child[m] /\ shell'[m] = shell[m]
                                  /\ told'[m] = told[m] /\ answers'[m] = answers[m]
    BY <1>1, <1>2, <1>3, ToolTypesHave
  <2> QED
    BY <1>1, <1>2, <1>3, <2>1, <2>2, OneLaunches
<1>4. CASE /\ child' = [child EXCEPT ![l] = "by explorer"] /\ Tool!Tell(l, "launched")
           /\ UNCHANGED timer
  <2>1. child' \in [Launches -> {"none", "new", "has pid", "no pid", "EACCES", "other", "by explorer"}]
        /\ child'[l] = "by explorer" /\ \A m \in Launches \ {l} : child'[m] = child[m]
    BY <1>2, <1>4, ToolTypesHave
  <2>2. /\ told' \in [Launches -> {"nothing", "launched", "error"}] /\ answers' \in [Launches -> Nat]
        /\ told'[l] = "launched" /\ answers'[l] = 1
        /\ \A m \in Launches \ {l} : told'[m] = told[m] /\ answers'[m] = answers[m]
    BY <1>1, <1>4, ToolTells
  <2>3. Tool!TypeOK'
    BY <1>1, <1>2, <1>4, <2>1, <2>2 DEF Tool!TypeOK
  <2>4. shell' = shell
    BY <1>1
  <2> QED
    BY <1>2, <2>1, <2>2, <2>3, <2>4, OneLaunches
<1>5. CASE Tool!Tell(l, "error") /\ UNCHANGED <<child, timer>>
  <2>1. /\ told' \in [Launches -> {"nothing", "launched", "error"}] /\ answers' \in [Launches -> Nat]
        /\ told'[l] = "error" /\ answers'[l] = 1
        /\ \A m \in Launches \ {l} : told'[m] = told[m] /\ answers'[m] = answers[m]
    BY <1>1, <1>5, ToolTells
  <2>2. Tool!TypeOK'
    BY <1>1, <1>2, <1>5, <2>1 DEF Tool!TypeOK
  <2>3. shell' = shell /\ child' = child
    BY <1>1, <1>5
  <2> QED
    BY <1>2, <2>1, <2>2, <2>3, OneLaunches
<1> QED
  BY <1>3, <1>4, <1>5 DEF Tool!LaunchTool

\* The child moves on: it was asked for, and nobody was told of it.
LEMMA ToolChildMoves ==
  ASSUME Tool!ToolInv, NEW l \in Launches, Tool!ChildMoves(l)
  PROVE  Tool!ToolInv'
<1>1. PICK to \in {"has pid", "no pid", "EACCES", "other"}, events \in SUBSET {"spawn", "error"} :
        child' = [child EXCEPT ![l] = to] /\ queued' = [queued EXCEPT ![l] = events]
  BY DEF Tool!ChildMoves
<1>2. child[l] = "new" /\ UNCHANGED <<found, timer, shell, told, answers>>
  BY DEF Tool!ChildMoves
<1>3. Tool!TypeOK
  BY DEF Tool!ToolInv
<1>4. /\ child' \in [Launches -> {"none", "new", "has pid", "no pid", "EACCES", "other", "by explorer"}]
      /\ queued' \in [Launches -> SUBSET {"spawn", "error"}]
      /\ \A m \in Launches \ {l} : child'[m] = child[m]
  BY <1>1, <1>3, ToolTypesHave
<1>5. Tool!TypeOK'
  BY <1>2, <1>3, <1>4 DEF Tool!TypeOK
<1>6. shell[l] = "none" /\ told[l] # "launched" /\ answers[l] = IF told[l] = "nothing" THEN 0 ELSE 1
  BY <1>2, LaunchHas
<1> QED
  BY <1>2, <1>4, <1>5, <1>6, OneLaunches

\* A launch that nobody was told of is told of: launched only with a pid.
LEMMA ToolSettles ==
  ASSUME Tool!ToolInv, NEW l \in Launches, NEW what \in {"launched", "error"},
         what = "launched" => child[l] = "has pid",
         Tool!Tell(l, what), told[l] = "nothing", shell[l] = "none",
         queued' \in [Launches -> SUBSET {"spawn", "error"}], timer' \in [Launches -> BOOLEAN],
         UNCHANGED <<child, shell>>
  PROVE  Tool!ToolInv'
<1>1. /\ told' \in [Launches -> {"nothing", "launched", "error"}] /\ answers' \in [Launches -> Nat]
      /\ told'[l] = what /\ answers'[l] = 1
      /\ \A m \in Launches \ {l} : told'[m] = told[m] /\ answers'[m] = answers[m]
  BY ToolTells
<1>2. Tool!TypeOK'
  BY <1>1, ToolTypesHave DEF Tool!TypeOK, Tool!ToolInv
<1> QED
  BY <1>1, <1>2, OneLaunches

\* Nothing is told and the shell is not asked.
LEMMA ToolWaits ==
  ASSUME Tool!ToolInv, queued' \in [Launches -> SUBSET {"spawn", "error"}],
         timer' \in [Launches -> BOOLEAN], UNCHANGED <<child, shell, told, answers>>
  PROVE  Tool!ToolInv'
<1>1. Tool!TypeOK'
  BY DEF Tool!TypeOK, Tool!ToolInv
<1> QED
  BY <1>1, Zenon DEF Tool!ToolInv, Tool!AnswersAreCounted, Tool!LaunchedIsRunning, Tool!Open

LEMMA ToolEvent ==
  ASSUME Tool!ToolInv, NEW l \in Launches, NEW e \in {"spawn", "error"}, Tool!Event(l, e)
  PROVE  Tool!ToolInv'
<1>1. /\ queued' = [queued EXCEPT ![l] = {}] /\ UNCHANGED <<found, child, timer>>
      /\ Tool!TypeOK
  BY DEF Tool!Event, Tool!ToolInv
<1>2. /\ queued' \in [Launches -> SUBSET {"spawn", "error"}] /\ timer' \in [Launches -> BOOLEAN]
  BY <1>1, ToolTypesHave
<1>3. CASE ~Tool!MaySettle(l)
  BY <1>1, <1>2, <1>3, ToolWaits DEF Tool!Event
<1>4. CASE Tool!MaySettle(l)
  <2>1. told[l] = "nothing" /\ shell[l] = "none"
    BY <1>4 DEF Tool!MaySettle, Tool!Settled, Tool!Open
  <2>2. CASE child[l] = "EACCES" /\ shell' = [shell EXCEPT ![l] = "asked"] /\ UNCHANGED <<told, answers>>
    <3>1. /\ shell' \in [Launches -> {"none", "asked", "opened", "refused"}] /\ shell'[l] = "asked"
          /\ \A m \in Launches \ {l} : shell'[m] = shell[m]
      BY <1>1, <2>2, ToolTypesHave
    <3>2. Tool!TypeOK'
      BY <1>1, <1>2, <2>2, <3>1 DEF Tool!TypeOK
    <3>3. answers[l] = 0
      BY <2>1, LaunchHas
    <3> QED
      BY <1>1, <2>1, <2>2, <3>1, <3>2, <3>3, OneLaunches
  <2>3. CASE \E what \in {"launched", "error"} :
               /\ Tool!Tell(l, what) /\ UNCHANGED shell
               /\ what = "launched" => child[l] = "has pid"
    <3>1. PICK what \in {"launched", "error"} :
               /\ Tool!Tell(l, what) /\ UNCHANGED shell
               /\ what = "launched" => child[l] = "has pid"
      BY <2>3
    <3> QED
      BY <1>1, <1>2, <2>1, <3>1, ToolSettles
  <2>4. Tool!Settle(l, e = "spawn" /\ child[l] = "has pid")
    BY <1>4 DEF Tool!Event
  <2> QED
    BY <2>2, <2>3, <2>4 DEF Tool!Settle
<1> QED
  BY <1>3, <1>4

LEMMA ToolTimerFires ==
  ASSUME Tool!ToolInv, NEW l \in Launches, Tool!TimerFires(l)
  PROVE  Tool!ToolInv'
<1>1. /\ timer' = [timer EXCEPT ![l] = FALSE] /\ UNCHANGED <<found, child, queued, shell>>
      /\ Tool!TypeOK
  BY DEF Tool!TimerFires, Tool!ToolInv
<1>2. timer \in [Launches -> BOOLEAN] /\ queued \in [Launches -> SUBSET {"spawn", "error"}]
  BY <1>1, ToolTypesHave
<1>3. queued' \in [Launches -> SUBSET {"spawn", "error"}] /\ timer' \in [Launches -> BOOLEAN]
  BY <1>1, <1>2
<1>4. CASE ~Tool!MaySettle(l)
  BY <1>1, <1>3, <1>4, ToolWaits DEF Tool!TimerFires
<1>5. CASE Tool!MaySettle(l)
  <2>1. told[l] = "nothing" /\ shell[l] = "none"
    BY <1>5 DEF Tool!MaySettle, Tool!Settled, Tool!Open
  <2>2. CASE child[l] = "has pid" /\ Tool!Tell(l, "launched")
    BY <1>1, <1>3, <2>1, <2>2, ToolSettles
  <2>3. CASE Tool!Tell(l, "error")
    BY <1>1, <1>3, <2>1, <2>3, ToolSettles
  <2> QED
    BY <1>5, <2>2, <2>3 DEF Tool!TimerFires, Tool!StartedForTimer
<1> QED
  BY <1>4, <1>5

LEMMA ToolShellAnswers ==
  ASSUME Tool!ToolInv, NEW l \in Launches, Tool!ShellAnswers(l)
  PROVE  Tool!ToolInv'
<1>1. PICK ok \in BOOLEAN :
        /\ shell' = [shell EXCEPT ![l] = IF ok THEN "opened" ELSE "refused"]
        /\ Tool!Tell(l, IF ok THEN "launched" ELSE "error")
  BY DEF Tool!ShellAnswers
<1>2. shell[l] = "asked" /\ UNCHANGED <<found, child, queued, timer>> /\ Tool!TypeOK
  BY DEF Tool!ShellAnswers, Tool!ToolInv
<1>3. told[l] = "nothing" /\ child[l] = "EACCES"
  BY <1>2, LaunchHas
<1>4. PICK what \in {"launched", "error"}, now \in {"opened", "refused"} :
        /\ shell' = [shell EXCEPT ![l] = now] /\ Tool!Tell(l, what)
        /\ what = "launched" => now = "opened"
  BY <1>1, Zenon
<1>5. /\ told' \in [Launches -> {"nothing", "launched", "error"}] /\ answers' \in [Launches -> Nat]
      /\ told'[l] = what /\ answers'[l] = 1
      /\ \A m \in Launches \ {l} : told'[m] = told[m] /\ answers'[m] = answers[m]
  BY <1>3, <1>4, ToolTells
<1>6. /\ shell' \in [Launches -> {"none", "asked", "opened", "refused"}] /\ shell'[l] = now
      /\ \A m \in Launches \ {l} : shell'[m] = shell[m]
  BY <1>2, <1>4, ToolTypesHave
<1>7. Tool!TypeOK'
  BY <1>2, <1>5, <1>6 DEF Tool!TypeOK
<1> QED
  BY <1>2, <1>3, <1>4, <1>5, <1>6, <1>7, OneLaunches, ZenonT(60)

\* The launches keep their invariant.
LEMMA ToolStep == Tool!ToolInv /\ [Tool!Next]_toolVars => Tool!ToolInv'
<1> SUFFICES ASSUME Tool!ToolInv, [Tool!Next]_toolVars PROVE Tool!ToolInv'
  OBVIOUS
<1>1. CASE UNCHANGED toolVars
  BY <1>1, ToolTypesHave, ToolWaits DEF toolVars, Tool!ToolInv
<1>2. CASE Tool!Next
  BY <1>2, ToolLaunches, ToolChildMoves, ToolEvent, ToolTimerFires, ToolShellAnswers DEF Tool!Next
<1> QED
  BY <1>1, <1>2

(***************************************************************************)
(* The auto-updater.                                                        *)
(***************************************************************************)

News == [tick : BOOLEAN, status : Update!Statuses]
SaysReady(q) == \E i \in DOMAIN q : q[i].status = "ready"

LEMMA NewsAppended ==
  ASSUME news \in Seq(News), NEW n \in News
  PROVE  /\ Append(news, n) \in Seq(News)
         /\ SaysReady(Append(news, n)) => n.status = "ready" \/ SaysReady(news)
<1>1. Append(news, n) \in Seq(News)
  OBVIOUS
<1>2. ASSUME NEW i \in DOMAIN Append(news, n), Append(news, n)[i].status = "ready"
      PROVE  n.status = "ready" \/ SaysReady(news)
  <2>1. CASE i = Len(news) + 1
    BY <1>2, <2>1
  <2>2. CASE i # Len(news) + 1
    <3>1. i \in DOMAIN news /\ Append(news, n)[i] = news[i]
      BY <2>2
    <3> QED
      BY <1>2, <3>1 DEF SaysReady
  <2> QED
    BY <2>1, <2>2
<1> QED
  BY <1>1, <1>2 DEF SaysReady

LEMMA NewsTaken ==
  ASSUME news \in Seq(News), news # <<>>
  PROVE  /\ Head(news) \in News /\ Tail(news) \in Seq(News)
         /\ Head(news).status = "ready" => SaysReady(news)
         /\ SaysReady(Tail(news)) => SaysReady(news)
<1>1. Head(news) \in News /\ Tail(news) \in Seq(News)
  OBVIOUS
<1>2. 1 \in DOMAIN news /\ Head(news) = news[1]
  OBVIOUS
<1>3. ASSUME NEW i \in DOMAIN Tail(news), Tail(news)[i].status = "ready" PROVE SaysReady(news)
  <2>1. i + 1 \in DOMAIN news /\ Tail(news)[i] = news[i + 1]
    OBVIOUS
  <2> QED
    BY <1>3, <2>1 DEF SaysReady
<1> QED
  BY <1>1, <1>2, <1>3 DEF SaysReady

LEMMA UpdateHas ==
  ASSUME Update!UpdateInv
  PROVE  /\ updater \in Update!Statuses /\ updateShown \in Update!Statuses
         /\ news \in Seq(News)
         /\ downloaded \in BOOLEAN /\ offered \in BOOLEAN /\ installed \in BOOLEAN
         /\ updater = "ready" \/ updateShown = "ready" \/ offered \/ SaysReady(news) => downloaded
         /\ installed => downloaded
  BY DEF Update!UpdateInv, Update!TypeOK, Update!ReadyIsDownloaded, Update!InstallsWhatIsThere,
         News, SaysReady

\* What an update of the state has to see to.
LEMMA UpdateMakes ==
  ASSUME /\ updater' \in Update!Statuses /\ updateShown' \in Update!Statuses
         /\ news' \in Seq(News)
         /\ downloaded' \in BOOLEAN /\ offered' \in BOOLEAN /\ installed' \in BOOLEAN,
         updater' = "ready" => downloaded', updateShown' = "ready" => downloaded',
         offered' => downloaded', SaysReady(news') => downloaded', installed' => downloaded'
  PROVE  Update!UpdateInv'
<1>1. Update!TypeOK'
  BY DEF Update!TypeOK, News
<1>2. Update!ReadyIsDownloaded'
  BY DEF Update!ReadyIsDownloaded, SaysReady
<1> QED
  BY <1>1, <1>2 DEF Update!UpdateInv, Update!InstallsWhatIsThere

LEMMA UpdateInit == Update!Init => Update!UpdateInv
<1> SUFFICES ASSUME Update!Init PROVE Update!UpdateInv
  OBVIOUS
<1>1. /\ updater = "idle" /\ updateShown = "idle" /\ news = <<>> /\ downloaded = FALSE
      /\ offered = FALSE /\ installed = FALSE
  BY DEF Update!Init
<1>2. news \in Seq([tick : BOOLEAN, status : Update!Statuses]) /\ DOMAIN news = {}
  BY <1>1
<1>3. Update!TypeOK
  BY <1>1, <1>2 DEF Update!TypeOK, Update!Statuses
<1> QED
  BY <1>1, <1>2, <1>3 DEF Update!UpdateInv, Update!ReadyIsDownloaded, Update!InstallsWhatIsThere

\* An installer stays on the disk: who says "ready" says what was said, or a download of it.
LEMMA UpdateStep == Update!UpdateInv /\ [Update!Next]_updateVars => Update!UpdateInv'
<1> SUFFICES ASSUME Update!UpdateInv, [Update!Next]_updateVars PROVE Update!UpdateInv'
  OBVIOUS
<1> USE DEF Update!Statuses
<1>1. ASSUME NEW by \in {"timer", "page"}, Update!BeginCheck(by) PROVE Update!UpdateInv'
  <2>1. updater' = "checking" /\ UNCHANGED <<downloaded, offered, installed, updateShown, news>>
    BY <1>1 DEF Update!BeginCheck
  <2> QED
    BY <2>1, UpdateHas, UpdateMakes
<1>2. ASSUME NEW c \in checking, NEW s \in Update!CheckEnds, Update!EndCheck(c, s)
      PROVE  Update!UpdateInv'
  <2>1. /\ updater' = s /\ s \in Update!Statuses /\ s # "ready"
        /\ UNCHANGED <<downloaded, offered, installed, updateShown>>
    BY <1>2 DEF Update!EndCheck, Update!CheckEnds
  <2> DEFINE n == [tick |-> FALSE, status |-> s]
  <2>2. n \in News /\ n.status = s
    BY <2>1 DEF News
  <2>3. news' = Append(news, n) \/ news' = news
    BY <1>2 DEF Update!EndCheck
  <2> HIDE DEF n
  <2>4. news' \in Seq(News) /\ (SaysReady(news') => SaysReady(news))
    BY <2>1, <2>2, <2>3, UpdateHas, NewsAppended
  <2> QED
    BY <2>1, <2>4, UpdateHas, UpdateMakes
<1>3. ASSUME NEW d \in downloads, NEW s \in {"ready", "error", "idle"}, Update!EndDownload(d, s)
      PROVE  Update!UpdateInv'
  <2>1. /\ updater' = s /\ s \in Update!Statuses /\ UNCHANGED <<installed, updateShown>>
        /\ downloaded' = (downloaded \/ s = "ready") /\ offered' = (offered \/ s = "ready")
    BY <1>3 DEF Update!EndDownload
  <2> DEFINE n == [tick |-> FALSE, status |-> s]
  <2>2. n \in News /\ n.status = s
    BY <2>1 DEF News
  <2>3. news' = Append(news, n)
    BY <1>3 DEF Update!EndDownload
  <2> HIDE DEF n
  <2>4. news' \in Seq(News) /\ (SaysReady(news') => s = "ready" \/ SaysReady(news))
    BY <2>1, <2>2, <2>3, UpdateHas, NewsAppended
  <2> QED
    BY <2>1, <2>4, UpdateHas, UpdateMakes
<1>4. ASSUME NEW now \in BOOLEAN, Update!DialogAnswers(now) PROVE Update!UpdateInv'
  <2>1. /\ offered /\ offered' = FALSE /\ installed' = (installed \/ now)
        /\ UNCHANGED <<updater, downloaded, updateShown, news>>
    BY <1>4 DEF Update!DialogAnswers
  <2> QED
    BY <2>1, UpdateHas, UpdateMakes
<1>5. CASE Update!Progresses
  <2>1. updater' = "downloading" /\ UNCHANGED <<downloaded, offered, installed, updateShown, news>>
    BY <1>5 DEF Update!Progresses
  <2> QED
    BY <2>1, UpdateHas, UpdateMakes
<1>6. CASE Update!UpdateTick
  <2>1. UNCHANGED <<updater, downloaded, offered, installed, updateShown>>
    BY <1>6 DEF Update!UpdateTick
  <2> DEFINE n == [tick |-> TRUE, status |-> updater]
  <2>2. n \in News /\ n.status = updater
    BY UpdateHas DEF News
  <2>3. news' = Append(news, n)
    BY <1>6 DEF Update!UpdateTick
  <2> HIDE DEF n
  <2>4. news' \in Seq(News) /\ (SaysReady(news') => updater = "ready" \/ SaysReady(news))
    BY <2>2, <2>3, UpdateHas, NewsAppended
  <2> QED
    BY <2>1, <2>4, UpdateHas, UpdateMakes
<1>7. CASE Update!UpdateArrives
  <2>1. /\ news # <<>> /\ news' = Tail(news) /\ updateShown' = Head(news).status
        /\ UNCHANGED <<updater, downloaded, offered, installed>>
    BY <1>7 DEF Update!UpdateArrives
  <2>2. /\ Head(news).status \in Update!Statuses /\ news' \in Seq(News)
        /\ Head(news).status = "ready" \/ SaysReady(news') => SaysReady(news)
    BY <2>1, UpdateHas, NewsTaken DEF News
  <2> QED
    BY <2>1, <2>2, UpdateHas, UpdateMakes
<1>8. CASE Update!DownloadUpdate
  <2>1. UNCHANGED <<updater, downloaded, offered, installed, updateShown, news>>
    BY <1>8 DEF Update!DownloadUpdate
  <2> QED
    BY <2>1, UpdateHas, UpdateMakes
<1>9. CASE Update!InstallUpdate
  <2>1. /\ updateShown = "ready" /\ installed' = TRUE
        /\ UNCHANGED <<updater, downloaded, offered, updateShown, news>>
    BY <1>9 DEF Update!InstallUpdate, Update!InstallShown
  <2> QED
    BY <2>1, UpdateHas, UpdateMakes
<1>10. CASE UNCHANGED updateVars
  <2>1. UNCHANGED <<updater, downloaded, offered, installed, updateShown, news>>
    BY <1>10 DEF updateVars
  <2> QED
    BY <2>1, UpdateHas, UpdateMakes
<1> QED
  BY <1>1, <1>2, <1>3, <1>4, <1>5, <1>6, <1>7, <1>8, <1>9, <1>10 DEF Update!Next

(***************************************************************************)
(* Undoing on the Services page.                                            *)
(***************************************************************************)

LEMMA UndoHas ==
  ASSUME Undo!UndoInv
  PROVE  /\ toast = Undo!None \/ toast \in Undo!ToastType
         /\ undos \subseteq [call : Undo!Calls, by : {"toast", "center", "left"}]
         /\ rows \subseteq Undo!Calls /\ undone \subseteq Undo!Calls
         /\ toast # Undo!None => (toast.done => toast.undoing \in undone)
  BY DEF Undo!UndoInv, Undo!TypeOK, Undo!ToastIsTrue

LEMMA UndoMakes ==
  ASSUME /\ toast' = Undo!None \/ toast' \in Undo!ToastType
         /\ undos' \subseteq [call : Undo!Calls, by : {"toast", "center", "left"}]
         /\ rows' \subseteq Undo!Calls /\ undone' \subseteq Undo!Calls,
         toast' # Undo!None => (toast'.done => toast'.undoing \in undone')
  PROVE  Undo!UndoInv'
<1>1. Undo!TypeOK'
  BY DEF Undo!TypeOK, Undo!None
<1>2. Undo!ToastIsTrue'
  BY DEF Undo!ToastIsTrue, Undo!None
<1> QED
  BY <1>1, <1>2 DEF Undo!UndoInv

LEMMA UndoInit == Undo!Init => Undo!UndoInv
<1> SUFFICES ASSUME Undo!Init PROVE Undo!UndoInv
  OBVIOUS
<1>1. toast = Undo!None /\ rows = {} /\ undos = {} /\ undone = {}
  BY DEF Undo!Init
<1> QED
  BY <1>1 DEF Undo!UndoInv, Undo!TypeOK, Undo!ToastIsTrue

\* The calls and who waits for them.
UndoCalls == [call : Undo!Calls, by : {"toast", "center", "left"}]
Reverts(u, ok) ==
  /\ undone' = IF ok THEN undone \cup {u.call} ELSE undone
  /\ undos' = undos \ {u}

\* A step keeps the invariant, and what it does to the toast and to the rows is true.
UndoIsTrue ==
  /\ Undo!UndoInv'
  /\ page' = page => (~loading => rows \ rows' \subseteq undone')

\* The toast stays, and what was undone stays so.
LEMMA UndoWaits ==
  ASSUME Undo!UndoInv, undone' = undone, undos' \subseteq UndoCalls, rows' \subseteq Undo!Calls,
         toast' = toast \/ toast' = Undo!None,
         page' = page /\ ~loading => rows' = rows
  PROVE  UndoIsTrue
<1>1. Undo!UndoInv'
  BY UndoHas, UndoMakes DEF UndoCalls
<1>2. page' = page => (~loading => rows \ rows' \subseteq undone')
  OBVIOUS
<1> QED
  BY <1>1, <1>2 DEF UndoIsTrue

LEMMA UndoNavigates ==
  ASSUME Undo!UndoInv, Undo!Navigate
  PROVE  UndoIsTrue
<1>1. /\ page' # page /\ toast' = Undo!None /\ rows' = {} /\ undone' = undone
      /\ undos' = {[u EXCEPT !.by = "left"] : u \in undos}
  BY DEF Undo!Navigate
<1>2. undos' \subseteq UndoCalls
  BY <1>1, UndoHas DEF UndoCalls
<1> QED
  BY <1>1, <1>2, UndoWaits

LEMMA UndoLists ==
  ASSUME Undo!UndoInv, Undo!Listed
  PROVE  UndoIsTrue
<1>1. loading /\ (rows' = rows \/ rows' = Undo!Undoable) /\ UNCHANGED <<toast, undos, undone>>
  BY DEF Undo!Listed
<1>2. rows' \subseteq Undo!Calls
  BY <1>1, UndoHas DEF Undo!Undoable
<1> QED
  BY <1>1, <1>2, UndoHas, UndoWaits DEF UndoCalls

LEMMA UndoMutates ==
  ASSUME Undo!UndoInv, NEW c \in Undo!Calls, NEW ok \in BOOLEAN, Undo!CallAnswers(c, ok)
  PROVE  UndoIsTrue
<1>1. UNCHANGED <<page, rows, undos, undone>> /\ toast' = IF ok THEN Undo!Toasted(c) ELSE toast
  BY DEF Undo!CallAnswers
<1>2. CASE toast' = toast
  BY <1>1, <1>2, UndoHas, UndoWaits DEF UndoCalls
<1>3. CASE toast = Undo!None /\ toast' = [is |-> c, undoing |-> 0, done |-> FALSE]
  <2>1. toast' \in Undo!ToastType /\ ~toast'.done
    BY <1>3 DEF Undo!ToastType
  <2>2. Undo!UndoInv'
    BY <1>1, <2>1, UndoHas, UndoMakes
  <2> QED
    BY <1>1, <2>2 DEF UndoIsTrue
<1>4. CASE toast # Undo!None /\ toast' = [toast EXCEPT !.is = c]
  <2>1. toast \in Undo!ToastType
    BY <1>4, UndoHas
  <2>2. toast' \in Undo!ToastType /\ toast'.done = toast.done /\ toast'.undoing = toast.undoing
    BY <1>4, <2>1 DEF Undo!ToastType
  <2>3. Undo!UndoInv'
    BY <1>1, <1>4, <2>2, UndoHas, UndoMakes
  <2> QED
    BY <1>1, <2>3 DEF UndoIsTrue
<1> QED
  BY <1>1, <1>2, <1>3, <1>4 DEF Undo!Toasted

LEMMA UndoToastAsks ==
  ASSUME Undo!UndoInv, Undo!ToastUndo
  PROVE  UndoIsTrue
<1>1. /\ toast # Undo!None /\ ~toast.done /\ toast' = [toast EXCEPT !.undoing = toast.is]
      /\ undos' = undos \cup {[call |-> toast.is, by |-> "toast"]}
      /\ UNCHANGED <<page, rows, undone>>
  BY DEF Undo!ToastUndo
<1>2. toast \in Undo!ToastType
  BY <1>1, UndoHas
<1>3. /\ toast' \in Undo!ToastType /\ toast'.done = toast.done
      /\ [call |-> toast.is, by |-> "toast"] \in UndoCalls
  BY <1>1, <1>2 DEF Undo!ToastType, UndoCalls
<1>4. Undo!UndoInv'
  BY <1>1, <1>3, UndoHas, UndoMakes DEF UndoCalls
<1> QED
  BY <1>1, <1>4 DEF UndoIsTrue

\* The toast says "Reverted" when the undo it asked for has succeeded.
LEMMA UndoToastAnswers ==
  ASSUME Undo!UndoInv, NEW u \in undos, NEW ok \in BOOLEAN, Undo!ToastUndoAnswers(u, ok)
  PROVE  UndoIsTrue
<1>1. /\ Reverts(u, ok) /\ UNCHANGED <<page, rows>>
      /\ IF ok THEN toast' = IF toast = Undo!None \/ toast.undoing # u.call THEN toast
                             ELSE [toast EXCEPT !.done = TRUE]
               ELSE toast' = Undo!None
  BY DEF Undo!ToastUndoAnswers, Undo!Resolves, Reverts
<1>2. u \in UndoCalls /\ u.call \in Undo!Calls
  BY UndoHas DEF UndoCalls
<1>3. undone \subseteq undone' /\ undone' \subseteq Undo!Calls /\ undos' \subseteq UndoCalls
  BY <1>1, <1>2, UndoHas DEF Reverts, UndoCalls
<1>4. CASE toast' = Undo!None \/ toast' = toast
  <2>1. Undo!UndoInv'
    BY <1>1, <1>3, <1>4, UndoHas, UndoMakes DEF UndoCalls
  <2> QED
    BY <1>1, <2>1 DEF UndoIsTrue
<1>5. CASE ok /\ toast # Undo!None /\ toast.undoing = u.call /\ toast' = [toast EXCEPT !.done = TRUE]
  <2>1. toast \in Undo!ToastType
    BY <1>5, UndoHas
  <2>2. toast' \in Undo!ToastType /\ toast'.undoing = u.call
    BY <1>5, <2>1 DEF Undo!ToastType
  <2>3. u.call \in undone'
    BY <1>1, <1>5 DEF Reverts
  <2>4. Undo!UndoInv'
    BY <1>1, <1>3, <2>2, <2>3, UndoHas, UndoMakes DEF UndoCalls
  <2> QED
    BY <1>1, <2>4 DEF UndoIsTrue
<1> QED
  BY <1>1, <1>4, <1>5

\* A row goes when its undo has succeeded.
LEMMA UndoAnswers ==
  ASSUME Undo!UndoInv, NEW u \in undos, NEW ok \in BOOLEAN,
         Undo!CenterUndoAnswers(u, ok) \/ Undo!LeftUndoAnswers(u, ok)
  PROVE  UndoIsTrue
<1>1. /\ Reverts(u, ok) /\ UNCHANGED <<page, toast>>
      /\ rows' = rows \/ (ok /\ rows' = rows \ {u.call})
  <2>1. CASE Undo!CenterUndoAnswers(u, ok)
    BY <2>1 DEF Undo!CenterUndoAnswers, Reverts
  <2>2. CASE Undo!LeftUndoAnswers(u, ok)
    BY <2>2 DEF Undo!LeftUndoAnswers, Reverts
  <2> QED
    BY <2>1, <2>2
<1>2. u \in UndoCalls /\ u.call \in Undo!Calls
  BY UndoHas DEF UndoCalls
<1>3. undone \subseteq undone' /\ undone' \subseteq Undo!Calls /\ undos' \subseteq UndoCalls
  BY <1>1, <1>2, UndoHas DEF Reverts, UndoCalls
<1>4. rows' \subseteq Undo!Calls /\ rows \ rows' \subseteq undone'
  BY <1>1, UndoHas DEF Reverts
<1>5. Undo!UndoInv'
  BY <1>1, <1>3, <1>4, UndoHas, UndoMakes DEF UndoCalls
<1> QED
  BY <1>4, <1>5 DEF UndoIsTrue

LEMMA UndoCenterAsks ==
  ASSUME Undo!UndoInv, NEW c \in Undo!Calls, Undo!CenterUndo(c)
  PROVE  UndoIsTrue
<1>1. undos' = undos \cup {[call |-> c, by |-> "center"]} /\ UNCHANGED <<page, rows, undone, toast>>
  BY DEF Undo!CenterUndo
<1>2. undos' \subseteq UndoCalls
  BY <1>1, UndoHas DEF UndoCalls
<1> QED
  BY <1>1, <1>2, UndoHas, UndoWaits

\* What the pages for services keep, and what they show.
LEMMA UndoStep == Undo!UndoInv /\ [Undo!Next]_servicesVars => UndoIsTrue
<1> SUFFICES ASSUME Undo!UndoInv, [Undo!Next]_servicesVars PROVE UndoIsTrue
  OBVIOUS
<1>1. ASSUME UNCHANGED <<rows, undos, undone>>, toast' = toast \/ toast' = Undo!None PROVE UndoIsTrue
  BY <1>1, UndoHas, UndoWaits DEF UndoCalls
<1>2. CASE \/ UNCHANGED servicesVars
           \/ \E s \in Services : Undo!PreviewArrives(s) \/ Undo!OpenConfirm(s)
           \/ \E c \in Undo!Calls, ok \in BOOLEAN : Undo!LeftCallAnswers(c, ok)
           \/ Undo!Refresh \/ Undo!Understand \/ Undo!Cancel
  <2>1. UNCHANGED <<rows, undos, undone, toast>>
    BY <1>2 DEF servicesVars, Undo!PreviewArrives, Undo!OpenConfirm, Undo!LeftCallAnswers,
                Undo!Refresh, Undo!Understand, Undo!Cancel
  <2> QED
    BY <1>1, <2>1
<1>3. CASE Undo!Confirm \/ Undo!ToastExpires \/ Undo!ToastCloses \/ Undo!Dismiss
  <2>1. UNCHANGED <<rows, undos, undone>> /\ (toast' = toast \/ toast' = Undo!None)
    BY <1>3 DEF Undo!Confirm, Undo!ToastExpires, Undo!ToastCloses, Undo!Dismiss
  <2> QED
    BY <1>1, <2>1
<1>4. CASE \E c \in Undo!Calls, ok \in BOOLEAN : Undo!CallAnswers(c, ok)
  BY <1>4, UndoMutates
<1>5. CASE \E u \in undos, ok \in BOOLEAN :
             Undo!ToastUndoAnswers(u, ok) \/ Undo!CenterUndoAnswers(u, ok) \/ Undo!LeftUndoAnswers(u, ok)
  BY <1>5, UndoToastAnswers, UndoAnswers
<1>6. CASE Undo!Listed
  BY <1>6, UndoLists
<1>7. CASE Undo!Navigate
  BY <1>7, UndoNavigates
<1>8. CASE Undo!ToastUndo
  BY <1>8, UndoToastAsks
<1>9. CASE \E c \in Undo!Calls : Undo!CenterUndo(c)
  BY <1>9, UndoCenterAsks
<1> QED
  BY <1>2, <1>3, <1>4, <1>5, <1>6, <1>7, <1>8, <1>9 DEF Undo!Next, Undo!Answer

(***************************************************************************)
(* The boxes of the rules.                                                  *)
(***************************************************************************)

LEMMA RulesListHas ==
  ASSUME Rules!RulesInv, NEW i \in DOMAIN lists
  PROVE  lists[i].order \in Rules!Orders \cup {0}
<1> DEFINE L == [table : Rules!Tables, order : Rules!Orders \cup {0}]
<1>1. lists \in Seq(L)
  BY RulesTypesHave
<1>2. \A l \in L : l.order \in Rules!Orders \cup {0}
  OBVIOUS
<1> HIDE DEF L
<1>3. lists[i] \in L
  BY <1>1
<1> QED
  BY <1>2, <1>3

\* A call moves on, and the others stay.
LEMMA OrderMoves ==
  ASSUME Rules!RulesInv, NEW o \in Rules!Orders, orders[o] # Rules!NoOrder,
         NEW s \in {"asked", "success", "error", "listing", "listed"},
         orders' = [orders EXCEPT ![o].at = s]
  PROVE  /\ orders'[o] # Rules!NoOrder /\ orders'[o].at = s
         /\ \A b \in Rules!Orders \ {o} : orders'[b] = orders[b]
<1>1. orders \in [Rules!Orders -> {Rules!NoOrder} \cup Rules!CallType] /\ orders[o] \in Rules!CallType
  BY RulesTypesHave
<1>2. orders' = [orders EXCEPT ![o] = [orders[o] EXCEPT !.at = s]]
  OBVIOUS
<1>3. orders'[o] = [orders[o] EXCEPT !.at = s] /\ \A b \in Rules!Orders \ {o} : orders'[b] = orders[b]
  BY <1>1, <1>2
<1>4. orders'[o].at = s /\ orders'[o].is \in {"enable", "snooze", "run", "import"}
  BY <1>1, <1>3 DEF Rules!CallType
<1>5. Rules!NoOrder.is = "none"
  BY DEF Rules!NoOrder
<1> QED
  BY <1>3, <1>4, <1>5

\* The page's rules and the lists on their way stay, and no call that would ask for a list is done with.
LEMMA BoxesStay ==
  ASSUME Rules!RulesInv, Rules!BoxesFollow, NEW o \in Rules!Orders,
         \A b \in Rules!Orders \ {o} : orders'[b] = orders[b],
         UNCHANGED <<ruleOn, rulesShown, lists, listLost>>,
         orders[o] = Rules!NoOrder \/ orders[o].at \in {"asked", "error"}
  PROVE  Rules!BoxesFollow'
<1>1. Rules!Refreshing => Rules!Refreshing'
  <2> SUFFICES ASSUME NEW b \in Rules!Orders, orders[b] # Rules!NoOrder, orders[b].at = "success"
               PROVE  Rules!Refreshing'
    BY DEF Rules!Refreshing
  <2>1. orders'[b] = orders[b]
    OBVIOUS
  <2> QED
    BY <2>1 DEF Rules!Refreshing
<1>2. \A i \in DOMAIN lists : lists[i].order # 0 =>
        orders'[lists[i].order] # Rules!NoOrder /\ orders'[lists[i].order].at \in {"listing", "listed"}
  <2> SUFFICES ASSUME NEW i \in DOMAIN lists, lists[i].order # 0
               PROVE  /\ orders'[lists[i].order] # Rules!NoOrder
                      /\ orders'[lists[i].order].at \in {"listing", "listed"}
    OBVIOUS
  <2>1. /\ orders[lists[i].order] # Rules!NoOrder
        /\ orders[lists[i].order].at \in {"listing", "listed"}
    BY DEF Rules!BoxesFollow
  <2>2. lists[i].order \in Rules!Orders \cup {0}
    BY RulesListHas
  <2>3. lists[i].order \in Rules!Orders \ {o}
    BY <2>1, <2>2
  <2> QED
    BY <2>1, <2>3
<1> QED
  BY <1>1, <1>2, Zenon DEF Rules!BoxesFollow

LEMMA BoxesInit == Rules!Init => Rules!BoxesFollow
<1> SUFFICES ASSUME Rules!Init PROVE Rules!BoxesFollow
  OBVIOUS
<1>1. lists = <<[table |-> Rules!Table, order |-> 0]>>
  BY DEF Rules!Init
<1>2. Len(lists) = 1 /\ DOMAIN lists = {1} /\ lists[1].table.on = ruleOn /\ lists[1].order = 0
  BY <1>1 DEF Rules!Table
<1> QED
  BY <1>1, <1>2 DEF Rules!BoxesFollow

\* The user's clicks and the handlers.
LEMMA BoxesOrder ==
  ASSUME Rules!RulesInv, Rules!BoxesFollow, NEW r \in RuleIds,
         \/ Rules!ToggleEnabled(r) \/ Rules!Snooze(r) \/ Rules!RunRuleNow(r)
         \/ \E value \in {"on", "off"} : Rules!ImportRules(r, value)
  PROVE  Rules!BoxesFollow'
<1>1. UNCHANGED <<ruleOn, rulesShown, lists, listLost>>
  BY DEF Rules!ToggleEnabled, Rules!Snooze, Rules!RunRuleNow, Rules!ImportRules
<1>2. \E o \in Rules!Orders : orders[o] = Rules!NoOrder /\ \E c : orders' = [orders EXCEPT ![o] = c]
  BY Zenon DEF Rules!ToggleEnabled, Rules!Snooze, Rules!RunRuleNow, Rules!ImportRules, Rules!Order
<1>3. PICK o \in Rules!Orders : orders[o] = Rules!NoOrder /\ \E c : orders' = [orders EXCEPT ![o] = c]
  BY <1>2
<1>4. \A b \in Rules!Orders \ {o} : orders'[b] = orders[b]
  BY <1>3, RulesTypesHave
<1> QED
  BY <1>1, <1>3, <1>4, BoxesStay

LEMMA BoxesHandle ==
  ASSUME Rules!RulesInv, Rules!BoxesFollow, NEW o \in Rules!Orders, NEW ok \in BOOLEAN,
         Rules!Handled(o, ok)
  PROVE  Rules!BoxesFollow'
<1>1. /\ orders[o] # Rules!NoOrder /\ orders[o].at = "asked"
      /\ orders' = [orders EXCEPT ![o].at = IF ok THEN "success" ELSE "error"]
      /\ UNCHANGED <<rulesShown, lists, listLost>>
  BY DEF Rules!Handled
<1>2. CASE ok
  <2>1. /\ orders'[o] # Rules!NoOrder /\ orders'[o].at = "success"
        /\ \A b \in Rules!Orders \ {o} : orders'[b] = orders[b]
    BY <1>1, <1>2, OrderMoves
  <2>2. Rules!Refreshing'
    BY <2>1 DEF Rules!Refreshing
  <2>3. ASSUME NEW i \in DOMAIN lists, lists[i].order # 0
        PROVE  /\ orders'[lists[i].order] # Rules!NoOrder
               /\ orders'[lists[i].order].at \in {"listing", "listed"}
    <3>1. /\ orders[lists[i].order] # Rules!NoOrder
          /\ orders[lists[i].order].at \in {"listing", "listed"}
      BY <2>3 DEF Rules!BoxesFollow
    <3>2. lists[i].order \in Rules!Orders \cup {0}
      BY RulesListHas
    <3>3. lists[i].order \in Rules!Orders \ {o}
      BY <1>1, <2>3, <3>1, <3>2
    <3> QED
      BY <2>1, <3>1, <3>3
  <2> QED
    BY <1>1, <2>2, <2>3, Zenon DEF Rules!BoxesFollow
<1>3. CASE ~ok
  <2>1. ruleOn' = ruleOn
    BY <1>3 DEF Rules!Handled
  <2>2. \A b \in Rules!Orders \ {o} : orders'[b] = orders[b]
    BY <1>1, <1>3, OrderMoves
  <2> QED
    BY <1>1, <2>1, <2>2, BoxesStay
<1> QED
  BY <1>2, <1>3

\* The list of a call is read when the call is answered, and shows the table of that time.
LEMMA BoxesAnswer ==
  ASSUME Rules!RulesInv, Rules!BoxesFollow, NEW o \in Rules!Orders, Rules!Answered(o)
  PROVE  Rules!BoxesFollow'
<1> DEFINE L == [table : Rules!Tables, order : Rules!Orders \cup {0}]
<1>0. lists \in Seq(L)
  BY RulesTypesHave
<1>1. /\ orders[o] # Rules!NoOrder /\ UNCHANGED <<ruleOn, rulesShown, listLost>>
  BY DEF Rules!Answered
<1>2. CASE orders[o].at = "success"
  <2>1. /\ orders' = [orders EXCEPT ![o].at = "listing"]
        /\ lists' = Append(lists, [table |-> Rules!Table, order |-> o])
    BY <1>2 DEF Rules!Answered, Rules!Refreshes
  <2>2. /\ orders'[o] # Rules!NoOrder /\ orders'[o].at = "listing"
        /\ \A b \in Rules!Orders \ {o} : orders'[b] = orders[b]
    BY <1>1, <2>1, OrderMoves
  <2> DEFINE l == [table |-> Rules!Table, order |-> o]
  <2>3. l.table.on = ruleOn /\ l.order = o /\ l \in L
    BY RulesTypesHave DEF Rules!Table
  <2>4. lists' = Append(lists, l)
    BY <2>1
  <2> HIDE DEF l, L
  <2>5. lists' # <<>> /\ lists'[Len(lists')] = l
    BY <1>0, <2>3, <2>4
  <2>6. ASSUME NEW i \in DOMAIN lists', lists'[i].order # 0
        PROVE  /\ orders'[lists'[i].order] # Rules!NoOrder
               /\ orders'[lists'[i].order].at \in {"listing", "listed"}
    <3>1. CASE lists'[i] = l
      BY <2>2, <2>3, <3>1
    <3>2. CASE lists'[i] # l
      <4>1. i \in DOMAIN lists /\ lists'[i] = lists[i]
        BY <1>0, <2>3, <2>4, <3>2
      <4>2. /\ orders[lists[i].order] # Rules!NoOrder
            /\ orders[lists[i].order].at \in {"listing", "listed"}
        BY <2>6, <4>1 DEF Rules!BoxesFollow
      <4>4. lists[i].order \in Rules!Orders
        BY <2>6, <4>1, RulesListHas
      <4>5. lists[i].order # o
        BY <1>2, <4>2
      <4> QED
        BY <2>2, <4>1, <4>2, <4>4, <4>5
    <3> QED
      BY <3>1, <3>2
  <2>7. lists'[Len(lists')].table.on = ruleOn'
    BY <1>1, <2>3, <2>5
  <2> QED
    BY <2>5, <2>6, <2>7, Zenon DEF Rules!BoxesFollow
<1>3. CASE orders[o].at # "success"
  <2>1. /\ orders' = [orders EXCEPT ![o].at = "listed"] /\ lists' = lists /\ orders[o].at = "error"
    BY <1>3 DEF Rules!Answered, Rules!Refreshes
  <2>2. \A b \in Rules!Orders \ {o} : orders'[b] = orders[b]
    BY <1>1, <2>1, OrderMoves
  <2> QED
    BY <1>1, <2>1, <2>2, BoxesStay
<1> QED
  BY <1>2, <1>3

\* The list that comes last is shown last.
LEMMA BoxesArrive ==
  ASSUME Rules!RulesInv, Rules!BoxesFollow, NEW ok \in BOOLEAN, Rules!ListArrives(ok)
  PROVE  Rules!BoxesFollow'
<1> DEFINE L == [table : Rules!Tables, order : Rules!Orders \cup {0}]
           o == Head(lists).order
<1>0. /\ lists # <<>> /\ lists' = Tail(lists) /\ ruleOn' = ruleOn /\ listLost' = ~ok
      /\ ok => rulesShown' = Head(lists).table
      /\ o = 0 => orders' = orders
      /\ o # 0 => orders' = [orders EXCEPT ![o].at = "listed"]
  BY DEF Rules!ListArrives, Rules!RowsAfter
<1>a. lists \in Seq(L)
  BY RulesTypesHave
<1> HIDE DEF L
<1>1. /\ 1 \in DOMAIN lists /\ Head(lists) = lists[1]
      /\ \A i \in DOMAIN lists' : i + 1 \in DOMAIN lists /\ lists'[i] = lists[i + 1]
      /\ lists' = <<>> => lists[Len(lists)] = lists[1]
      /\ lists' # <<>> => lists'[Len(lists')] = lists[Len(lists)]
  <2>1. Len(lists) \in Nat /\ Len(lists) # 0 /\ Len(lists') = Len(lists) - 1
    BY <1>0, <1>a
  <2>2. 1 \in DOMAIN lists /\ Head(lists) = lists[1]
    BY <1>0, <1>a
  <2>3. \A i \in DOMAIN lists' : i + 1 \in DOMAIN lists /\ lists'[i] = lists[i + 1]
    BY <1>0, <1>a
  <2>4. lists' = <<>> => Len(lists) = 1
    BY <2>1
  <2>5. lists' # <<>> => lists'[Len(lists')] = lists[Len(lists)]
    BY <1>0, <1>a, <2>1, <2>3
  <2> QED
    BY <2>2, <2>3, <2>4, <2>5
<1>2. o \in Rules!Orders \cup {0} /\ (o # 0 => orders[o] # Rules!NoOrder /\ orders[o].at \in {"listing", "listed"})
  BY <1>1, RulesListHas DEF Rules!BoxesFollow
<1>3. \A b \in Rules!Orders :
        \/ orders'[b] = orders[b]
        \/ /\ b = o /\ orders'[b] # Rules!NoOrder /\ orders'[b].at = "listed"
           /\ orders[b] # Rules!NoOrder /\ orders[b].at \in {"listing", "listed"}
  <2>1. CASE o = 0
    BY <1>0, <2>1
  <2>2. CASE o # 0
    BY <1>0, <1>2, <2>2, OrderMoves
  <2> QED
    BY <2>1, <2>2
<1> HIDE DEF o
<1>4. Rules!Refreshing => Rules!Refreshing'
  <2> SUFFICES ASSUME NEW b \in Rules!Orders, orders[b] # Rules!NoOrder, orders[b].at = "success"
               PROVE  Rules!Refreshing'
    BY DEF Rules!Refreshing
  <2>1. orders'[b] = orders[b]
    BY <1>3
  <2> QED
    BY <2>1 DEF Rules!Refreshing
<1>5. ASSUME NEW i \in DOMAIN lists', lists'[i].order # 0
      PROVE  /\ orders'[lists'[i].order] # Rules!NoOrder
             /\ orders'[lists'[i].order].at \in {"listing", "listed"}
  <2>1. i + 1 \in DOMAIN lists /\ lists'[i] = lists[i + 1]
    BY <1>1
  <2>2. /\ orders[lists[i + 1].order] # Rules!NoOrder
        /\ orders[lists[i + 1].order].at \in {"listing", "listed"}
    BY <1>5, <2>1 DEF Rules!BoxesFollow
  <2>4. lists[i + 1].order \in Rules!Orders
    BY <1>5, <2>1, RulesListHas
  <2> QED
    BY <1>3, <2>1, <2>2, <2>4
<1>6. IF lists' = <<>> THEN listLost' \/ rulesShown'.on = lists[Len(lists)].table.on
      ELSE lists'[Len(lists')].table.on = lists[Len(lists)].table.on
  BY <1>0, <1>1
<1>7. Rules!Refreshing \/ lists[Len(lists)].table.on = ruleOn
  BY <1>0, Zenon DEF Rules!BoxesFollow
<1>8. Rules!Refreshing' \/ (IF lists' = <<>> THEN listLost' \/ rulesShown'.on = ruleOn'
                                            ELSE lists'[Len(lists')].table.on = ruleOn')
  BY <1>0, <1>4, <1>6, <1>7
<1> QED
  BY <1>5, <1>8, Zenon DEF Rules!BoxesFollow

\* Behind every change of the table a list of it comes.
LEMMA BoxesStep == Rules!RulesInv /\ Rules!BoxesFollow /\ [Rules!Next]_rulesVars => Rules!BoxesFollow'
<1> SUFFICES ASSUME Rules!RulesInv, Rules!BoxesFollow, [Rules!Next]_rulesVars
             PROVE  Rules!BoxesFollow'
  OBVIOUS
<1>1. CASE UNCHANGED rulesVars \/ \E r \in RuleIds : Rules!TelegramSnoozes(r)
  <2>1. UNCHANGED <<ruleOn, rulesShown, orders, lists, listLost>>
    BY <1>1 DEF rulesVars, Rules!TelegramSnoozes
  <2> QED
    BY <2>1, Zenon DEF Rules!BoxesFollow, Rules!Refreshing
<1>2. CASE Rules!LaunchSeeds
  <2>1. PICK on : on = ruleOn' /\ lists' = <<[table |-> [on |-> on, asleep |-> asleep], order |-> 0]>>
    BY <1>2 DEF Rules!LaunchSeeds
  <2>2. /\ lists' # <<>> /\ lists'[Len(lists')].table.on = ruleOn'
        /\ \A i \in DOMAIN lists' : lists'[i].order = 0
    BY <2>1
  <2> QED
    BY <2>2, Zenon DEF Rules!BoxesFollow
<1>3. CASE \E ok \in BOOLEAN : Rules!ListArrives(ok)
  BY <1>3, BoxesArrive
<1>4. CASE \E r \in RuleIds :
             \/ Rules!ToggleEnabled(r) \/ Rules!Snooze(r) \/ Rules!RunRuleNow(r)
             \/ \E value \in {"on", "off"} : Rules!ImportRules(r, value)
  BY <1>4, BoxesOrder
<1>5. CASE \E o \in Rules!Orders : Rules!Answered(o) \/ \E ok \in BOOLEAN : Rules!Handled(o, ok)
  BY <1>5, BoxesAnswer, BoxesHandle
<1> QED
  BY <1>1, <1>2, <1>3, <1>4, <1>5 DEF Rules!Next

LEMMA BoxesAreTrue == Rules!BoxesFollow => Rules!BoxesShowTheTable
<1> SUFFICES ASSUME Rules!BoxesFollow, Rules!Idle PROVE listLost \/ rulesShown.on = ruleOn
  BY DEF Rules!BoxesShowTheTable
<1>1. ~Rules!Refreshing /\ lists = <<>>
  BY DEF Rules!Refreshing, Rules!Idle
<1> QED
  BY <1>1, Zenon DEF Rules!BoxesFollow

(***************************************************************************)
(* The items of the review.                                                 *)
(***************************************************************************)

LEMMA FollowsInit == Review!Init => Review!ReviewFollows
<1> SUFFICES ASSUME Review!Init PROVE Review!ReviewFollows
  OBVIOUS
<1> DEFINE l == [of |-> 1, date |-> 0, seen |-> Review!NoReview, read |-> FALSE]
<1>1. reviewLoads = {l} /\ reviewVisit = 1
  BY DEF Review!Init
<1>2. l.of = 1 /\ ~l.read
  OBVIOUS
<1> HIDE DEF l
<1>3. Review!LoadsHere = {l}
  BY <1>1, <1>2 DEF Review!LoadsHere
<1> QED
  BY <1>2, <1>3 DEF Review!ReviewFollows

LEMMA FollowsStays ==
  ASSUME Review!ReviewFollows,
         UNCHANGED <<reviewLoads, reviewVisit, itemStates, reviewShown, reviewAstray>>
  PROVE  Review!ReviewFollows'
  BY DEF Review!ReviewFollows, Review!LoadsHere

\* A load that begins has read nothing; if it is not alone, what is shown counts no longer.
LEMMA FollowsBegins ==
  ASSUME NEW d, Review!BeginLoad(d), reviewVisit' = reviewVisit
  PROVE  Review!ReviewFollows'
<1> DEFINE n == Review!NewLoad(d)
<1>1. /\ reviewLoads' = reviewLoads \cup {n} /\ reviewAstray' = (Review!LoadsHere # {})
      /\ n.of = reviewVisit /\ ~n.read
  BY DEF Review!BeginLoad, Review!NewLoad
<1> HIDE DEF n
<1>2. CASE Review!LoadsHere = {}
  <2>1. Review!LoadsHere' = {n}
    BY <1>1, <1>2 DEF Review!LoadsHere
  <2> QED
    BY <1>1, <2>1 DEF Review!ReviewFollows
<1>3. CASE Review!LoadsHere # {}
  BY <1>1, <1>3 DEF Review!ReviewFollows
<1> QED
  BY <1>2, <1>3

\* What is read is what is stored.
LEMMA FollowsReads ==
  ASSUME Review!ReviewInv, Review!ReviewFollows, NEW l \in reviewLoads, Review!ReviewRead(l)
  PROVE  Review!ReviewFollows'
<1> DEFINE date == IF l.date = 0 THEN lastReview ELSE l.date
           s == [date |-> date, state |-> itemStates[date], flag |-> pendingFlag]
           n == [l EXCEPT !.read = TRUE, !.seen = s]
<1>1. /\ reviewLoads' = (reviewLoads \ {l}) \cup {n}
      /\ UNCHANGED <<itemStates, reviewVisit, reviewShown, reviewAstray>>
  BY DEF Review!ReviewRead
<1>2. l \in Review!LoadType
  BY ReviewTypesHave
<1>3. n.of = l.of /\ n.seen = s
  BY <1>2 DEF Review!LoadType
<1>4. s.state = itemStates[s.date]
  OBVIOUS
<1> HIDE DEF n, s
<1>5. n.of = l.of /\ n.seen.state = itemStates[n.seen.date]
  BY <1>3, <1>4
<1>6. \A m \in Review!LoadsHere' : m = n \/ m \in Review!LoadsHere
  BY <1>1 DEF Review!LoadsHere
<1>7. Review!LoadsHere' = {} => Review!LoadsHere = {}
  BY <1>1, <1>5 DEF Review!LoadsHere
<1> SUFFICES ASSUME ~reviewAstray'
             PROVE  /\ \A m \in Review!LoadsHere' : m.read => m.seen.state = itemStates'[m.seen.date]
                    /\ Review!LoadsHere' = {} /\ reviewShown'.date # 0
                         => reviewShown'.state = itemStates'[reviewShown'.date]
  BY Zenon DEF Review!ReviewFollows
<1>8. /\ \A m \in Review!LoadsHere : m.read => m.seen.state = itemStates[m.seen.date]
      /\ Review!LoadsHere = {} /\ reviewShown.date # 0 => reviewShown.state = itemStates[reviewShown.date]
  BY <1>1 DEF Review!ReviewFollows
<1>9. itemStates' = itemStates /\ reviewShown' = reviewShown
  BY <1>1
<1> QED
  BY <1>5, <1>6, <1>7, <1>8, <1>9

\* What arrives, and what is on its way still, was read since.
LEMMA FollowsArrives ==
  ASSUME Review!ReviewFollows, NEW l \in reviewLoads, NEW ok \in BOOLEAN, Review!ReviewArrives(l, ok)
  PROVE  Review!ReviewFollows'
<1>1. l.read /\ reviewLoads' = reviewLoads \ {l} /\ UNCHANGED <<itemStates, reviewVisit>>
  BY DEF Review!ReviewArrives
<1>2. CASE l.of # reviewVisit
  <2>1. UNCHANGED <<reviewShown, reviewAstray>>
    BY <1>2 DEF Review!ReviewArrives
  <2>2. Review!LoadsHere' = Review!LoadsHere
    BY <1>1, <1>2 DEF Review!LoadsHere
  <2> QED
    BY <1>1, <2>1, <2>2, Zenon DEF Review!ReviewFollows
<1>3. CASE l.of = reviewVisit /\ ~ok
  <2>1. reviewAstray'
    BY <1>3 DEF Review!ReviewArrives
  <2> QED
    BY <2>1, Zenon DEF Review!ReviewFollows
<1>4. CASE l.of = reviewVisit /\ ok
  <2>1. reviewShown' = l.seen /\ (reviewAstray' = (reviewAstray \/ FALSE))
    BY <1>4 DEF Review!ReviewArrives
  <2>2. l \in Review!LoadsHere /\ Review!LoadsHere' \subseteq Review!LoadsHere
    BY <1>1, <1>4 DEF Review!LoadsHere
  <2>3. ASSUME ~reviewAstray'
        PROVE  /\ \A m \in Review!LoadsHere' : m.read => m.seen.state = itemStates'[m.seen.date]
               /\ reviewShown'.state = itemStates'[reviewShown'.date]
    <3>1. \A m \in Review!LoadsHere : m.read => m.seen.state = itemStates[m.seen.date]
      BY <2>1, <2>3, Zenon DEF Review!ReviewFollows
    <3>2. itemStates' = itemStates
      BY <1>1
    <3> QED
      BY <1>1, <2>1, <2>2, <3>1, <3>2
  <2> QED
    BY <2>3, Zenon DEF Review!ReviewFollows
<1> QED
  BY <1>2, <1>3, <1>4

LEMMA FollowsReturns ==
  ASSUME Review!ReturnToReview
  PROVE  Review!ReviewFollows'
<1> DEFINE n == [of |-> reviewVisit', date |-> 0, seen |-> Review!NoReview, read |-> FALSE]
<1>1. reviewLoads' = {n}
  BY DEF Review!ReturnToReview, Review!NewLoad
<1>2. n.of = reviewVisit' /\ ~n.read
  OBVIOUS
<1> HIDE DEF n
<1>3. Review!LoadsHere' = {n}
  BY <1>1, <1>2 DEF Review!LoadsHere
<1> QED
  BY <1>2, <1>3, Zenon DEF Review!ReviewFollows

LEMMA FollowsHandles ==
  ASSUME Review!OrderHandled
  PROVE  Review!ReviewFollows'
<1>1. /\ reviewVisit' = reviewVisit
      /\ IF Head(stateOrders).of = reviewVisit THEN Review!BeginLoad(Head(stateOrders).date)
         ELSE reviewAstray' = TRUE
  BY DEF Review!OrderHandled
<1>2. CASE Head(stateOrders).of = reviewVisit
  BY <1>1, <1>2, FollowsBegins
<1>3. CASE Head(stateOrders).of # reviewVisit
  BY <1>1, <1>3, Zenon DEF Review!ReviewFollows
<1> QED
  BY <1>2, <1>3

\* What is stored changes only when a call is handled, and then the page loads anew.
LEMMA FollowsStep ==
  Review!ReviewInv /\ Review!ReviewFollows /\ [Review!Next]_reviewVars => Review!ReviewFollows'
<1> SUFFICES ASSUME Review!ReviewInv, Review!ReviewFollows, [Review!Next]_reviewVars
             PROVE  Review!ReviewFollows'
  OBVIOUS
<1>1. CASE \/ UNCHANGED reviewVars \/ Review!ReviewWritten \/ Review!MarkReviewed \/ Review!ApplyItem
           \/ \E s \in {"pending", "dismissed", "snoozed"} : Review!GiveState(s)
           \/ \E r \in reviewRuns : Review!Applied(r)
  <2>1. UNCHANGED <<reviewLoads, reviewVisit, itemStates, reviewShown, reviewAstray>>
    BY <1>1 DEF reviewVars, Review!ReviewWritten, Review!MarkReviewed, Review!ApplyItem,
                Review!GiveState, Review!Applied
  <2> QED
    BY <2>1, FollowsStays
<1>2. CASE \E l \in reviewLoads : Review!LoadStep(l)
  BY <1>2, FollowsReads, FollowsArrives DEF Review!LoadStep
<1>3. ASSUME NEW d \in Review!Dates, Review!PickReview(d) PROVE Review!ReviewFollows'
  <2>1. Review!BeginLoad(d) /\ reviewVisit' = reviewVisit
    BY <1>3 DEF Review!PickReview
  <2> QED
    BY <2>1, FollowsBegins
<1>4. CASE Review!OrderHandled
  BY <1>4, FollowsHandles
<1>5. CASE Review!ReturnToReview
  BY <1>5, FollowsReturns
<1> QED
  BY <1>1, <1>2, <1>3, <1>4, <1>5 DEF Review!Next

LEMMA ReviewsAreTrue == Review!ReviewFollows => Review!ReviewIsTrue
  BY Zenon DEF Review!ReviewFollows, Review!ReviewIsTrue

(***************************************************************************)
(* The page Windows Updates.                                                *)
(***************************************************************************)

ReadingType == [to : Nat, then : BOOLEAN, seen : Nat \cup {-1}]
UpdateRuns == [run : Nat \ {0}, action : Updates!WuActions, of : Nat]
NvidiaChecks == [version : Nat \ {0}, of : Nat]

LEMMA UpdatesHave ==
  ASSUME Updates!TypeOK
  PROVE  /\ visit \in Nat \ {0} /\ installsDone \in Nat /\ listShown \in Nat \cup {-1}
         /\ listLoading \in BOOLEAN /\ listFailed \in BOOLEAN
         /\ readings \in Seq(ReadingType)
         /\ wuConfirm \in Updates!WuActions \cup {"none"} /\ wuRunning \in Updates!WuActions \cup {"none"}
         /\ installRuns \subseteq UpdateRuns /\ nvChecks \subseteq NvidiaChecks
         /\ nvCache \in Nat /\ nvShown \in Nat /\ dellLog \in Nat /\ dellShown \in Nat
         /\ letters \in Seq(Updates!LetterType) /\ astray \subseteq Updates!Parts
         /\ nvFaults \in Nat /\ installsBegun \in Nat /\ nvBegun \in Nat
  BY Zenon DEF Updates!TypeOK, ReadingType, UpdateRuns, NvidiaChecks

LEMMA UpdatesMake ==
  ASSUME visit' \in Nat \ {0}, installsDone' \in Nat, listShown' \in Nat \cup {-1},
         listLoading' \in BOOLEAN, listFailed' \in BOOLEAN,
         readings' \in Seq(ReadingType),
         wuConfirm' \in Updates!WuActions \cup {"none"}, wuRunning' \in Updates!WuActions \cup {"none"},
         installRuns' \subseteq UpdateRuns, nvChecks' \subseteq NvidiaChecks,
         nvCache' \in Nat, nvShown' \in Nat, dellLog' \in Nat, dellShown' \in Nat,
         letters' \in Seq(Updates!LetterType), astray' \subseteq Updates!Parts,
         nvFaults' \in Nat, installsBegun' \in Nat, nvBegun' \in Nat
  PROVE  Updates!TypeOK'
  BY Zenon DEF Updates!TypeOK, ReadingType, UpdateRuns, NvidiaChecks

(***************************************************************************)
(* Readings and letters.                                                   *)
(***************************************************************************)

\* A reading begins under a number of its own.
LEMMA LoadAdds ==
  ASSUME readings \in Seq(ReadingType), NEW to \in Nat, NEW then \in BOOLEAN, Updates!Load(to, then)
  PROVE  /\ readings' \in Seq(ReadingType)
         /\ \E k \in Nat : /\ k \notin DOMAIN readings /\ DOMAIN readings' = DOMAIN readings \cup {k}
                           /\ readings'[k] = Updates!Reading(to, then)
                           /\ \A l \in DOMAIN readings : readings'[l] = readings[l]
<1> DEFINE n == Len(readings)
           r == Updates!Reading(to, then)
<1>1. r \in ReadingType
  BY DEF Updates!Reading, ReadingType
<1>2. readings' = Append(readings, r)
  BY DEF Updates!Load
<1> HIDE DEF r
<1>3. n \in Nat /\ DOMAIN readings = 1..n
  OBVIOUS
<1>4. /\ readings' \in Seq(ReadingType) /\ DOMAIN readings' = 1..(n + 1) /\ readings'[n + 1] = r
      /\ \A l \in 1..n : readings'[l] = readings[l]
  BY <1>1, <1>2
<1>5. n + 1 \in Nat /\ n + 1 \notin 1..n /\ 1..(n + 1) = 1..n \cup {n + 1}
  BY <1>3
<1> QED
  BY <1>3, <1>4, <1>5 DEF r

\* A reading moves on.
LEMMA ReadingMoves ==
  ASSUME readings \in Seq(ReadingType), NEW l \in DOMAIN readings, NEW r \in ReadingType,
         readings' = [readings EXCEPT ![l] = r]
  PROVE  /\ readings' \in Seq(ReadingType) /\ DOMAIN readings' = DOMAIN readings
         /\ readings'[l] = r /\ \A m \in DOMAIN readings \ {l} : readings'[m] = readings[m]
  OBVIOUS

LEMMA ReadingHas ==
  ASSUME readings \in Seq(ReadingType), NEW l \in DOMAIN readings
  PROVE  readings[l] \in ReadingType
  OBVIOUS

\* A short answer is sent, and the first of them arrives.
LEMMA LetterAppended ==
  ASSUME NEW q \in Seq(Updates!LetterType), NEW m \in Updates!LetterType
  PROVE  /\ Append(q, m) \in Seq(Updates!LetterType)
         /\ DOMAIN Append(q, m) = DOMAIN q \cup {Len(q) + 1}
         /\ Append(q, m)[Len(q) + 1] = m
         /\ \A i \in DOMAIN q : Append(q, m)[i] = q[i] /\ i < Len(q) + 1
         /\ DOMAIN q \subseteq Nat \ {0} /\ Len(q) \in Nat
<1>1. Append(q, m) \in Seq(Updates!LetterType) /\ Len(Append(q, m)) = Len(q) + 1 /\ Len(q) \in Nat
  OBVIOUS
<1>2. DOMAIN q = 1..Len(q) /\ DOMAIN Append(q, m) = 1..(Len(q) + 1)
  OBVIOUS
<1>3. Append(q, m)[Len(q) + 1] = m /\ \A i \in 1..Len(q) : Append(q, m)[i] = q[i]
  OBVIOUS
<1>4. 1..(Len(q) + 1) = 1..Len(q) \cup {Len(q) + 1}
  BY <1>1
<1> QED
  BY <1>1, <1>2, <1>3, <1>4

LEMMA LetterTaken ==
  ASSUME NEW q \in Seq(Updates!LetterType), q # <<>>
  PROVE  /\ Tail(q) \in Seq(Updates!LetterType) /\ Head(q) \in Updates!LetterType
         /\ 1 \in DOMAIN q /\ Head(q) = q[1] /\ DOMAIN q \subseteq Nat \ {0}
         /\ \A i : i \in DOMAIN Tail(q) <=> i \in Nat \ {0} /\ i + 1 \in DOMAIN q
         /\ \A i \in DOMAIN Tail(q) : Tail(q)[i] = q[i + 1]
<1>1. /\ Tail(q) \in Seq(Updates!LetterType) /\ Head(q) \in Updates!LetterType
      /\ Len(q) \in Nat \ {0} /\ Len(Tail(q)) = Len(q) - 1
  OBVIOUS
<1>2. DOMAIN q = 1..Len(q) /\ DOMAIN Tail(q) = 1..(Len(q) - 1)
  BY <1>1
<1>3. Head(q) = q[1] /\ \A i \in 1..(Len(q) - 1) : Tail(q)[i] = q[i + 1]
  OBVIOUS
<1>4. \A i : i \in 1..(Len(q) - 1) <=> i \in Nat \ {0} /\ i + 1 \in 1..Len(q)
  BY <1>1
<1> QED
  BY <1>1, <1>2, <1>3, <1>4

\* What is sent is a letter.
LEMMA UpdateLetters ==
  ASSUME Updates!TypeOK, NEW to \in Nat
  PROVE  /\ Updates!SettingsLetter(to) \in Updates!LetterType
         /\ Updates!DellLetter(to) \in Updates!LetterType
         /\ \A c \in NvidiaChecks : Updates!NvidiaLetter(c) \in Updates!LetterType
<1>1. nvCache \in Nat /\ dellLog \in Nat
  BY UpdatesHave
<1>2. Updates!SettingsLetter(to) \in Updates!LetterType
  BY <1>1 DEF Updates!SettingsLetter, Updates!SafeNv, Updates!LetterType
<1>3. Updates!DellLetter(to) \in Updates!LetterType
  BY <1>1 DEF Updates!DellLetter, Updates!LetterType
<1>4. ASSUME NEW c \in NvidiaChecks PROVE Updates!NvidiaLetter(c) \in Updates!LetterType
  BY DEF Updates!NvidiaLetter, Updates!LetterType, NvidiaChecks
<1> QED
  BY <1>2, <1>3, <1>4

LEMMA LetterHas ==
  ASSUME NEW m \in Updates!LetterType
  PROVE  /\ m.to \in Nat /\ m.is \in {"settings", "nvidia", "dell"}
         /\ m.is \in {"settings", "nvidia"} => m.nv \in Nat
         /\ m.is = "dell" => m.dell \in Nat
  BY DEF Updates!LetterType

LEMMA UpdatesTypesInit == Updates!Init => Updates!TypeOK
<1> SUFFICES ASSUME Updates!Init PROVE Updates!TypeOK
  OBVIOUS
<1>1. /\ visit = 1 /\ installsDone = 0 /\ listShown = -1 /\ listLoading = TRUE /\ listFailed = FALSE
      /\ readings = <<Updates!Reading(1, FALSE)>>
      /\ wuConfirm = "none" /\ wuRunning = "none" /\ installRuns = {}
      /\ nvCache = 0 /\ nvShown = 0 /\ nvChecks = {} /\ dellLog = 0 /\ dellShown = 0
      /\ letters = <<[is |-> "settings", to |-> 1, nv |-> 0]>>
      /\ astray = {} /\ nvFaults = 0 /\ installsBegun = 0 /\ nvBegun = 0
  BY DEF Updates!Init
<1>2. readings \in Seq(ReadingType)
  <2> DEFINE r == Updates!Reading(1, FALSE)
  <2>1. r \in ReadingType
    BY DEF Updates!Reading, ReadingType
  <2>2. readings = <<r>>
    BY <1>1
  <2> HIDE DEF r
  <2> QED
    BY <2>1, <2>2
<1>3. letters \in Seq(Updates!LetterType)
  <2>1. [is |-> "settings", to |-> 1, nv |-> 0] \in Updates!LetterType
    BY DEF Updates!LetterType
  <2> QED
    BY <1>1, <2>1
<1> QED
  <2>1. /\ visit \in Nat \ {0} /\ installsDone \in Nat /\ listShown \in Nat \cup {-1}
        /\ nvCache \in Nat /\ nvShown \in Nat /\ dellLog \in Nat /\ dellShown \in Nat
        /\ nvFaults \in Nat /\ installsBegun \in Nat /\ nvBegun \in Nat
    BY <1>1
  <2>2. /\ wuConfirm \in Updates!WuActions \cup {"none"} /\ wuRunning \in Updates!WuActions \cup {"none"}
        /\ installRuns \subseteq UpdateRuns /\ nvChecks \subseteq NvidiaChecks
        /\ astray \subseteq Updates!Parts
    BY <1>1
  <2>3. listLoading \in BOOLEAN /\ listFailed \in BOOLEAN
    BY <1>1, Zenon
  <2> QED
    BY <1>2, <1>3, <2>1, <2>2, <2>3, Zenon DEF Updates!TypeOK, ReadingType, UpdateRuns, NvidiaChecks

\* The list is asked for, read and shown.
LEMMA UpdatesListTypes ==
  ASSUME Updates!TypeOK,
         \/ Updates!RefreshList
         \/ \E l \in DOMAIN readings :
              Updates!ListIsRead(l) \/ \E ok \in BOOLEAN : Updates!ListAnswers(l, ok)
  PROVE  Updates!TypeOK'
<1>0. /\ readings \in Seq(ReadingType) /\ visit \in Nat /\ installsDone \in Nat
      /\ letters \in Seq(Updates!LetterType) /\ astray \subseteq Updates!Parts
      /\ listShown \in Nat \cup {-1}
  BY UpdatesHave
<1>1. CASE Updates!RefreshList
  <2>1. /\ listLoading' = TRUE /\ Updates!Load(visit, FALSE) /\ astray' = Updates!ListAstray
        /\ UNCHANGED <<visit, installsDone, listShown, listFailed, wuConfirm, wuRunning,
                       installRuns, nvCache, nvShown, nvChecks, dellLog, dellShown, letters,
                       nvFaults, installsBegun, nvBegun>>
    BY <1>1 DEF Updates!RefreshList
  <2>2. readings' \in Seq(ReadingType)
    BY <1>0, <2>1, LoadAdds
  <2>3. astray' \subseteq Updates!Parts
    BY <1>0, <2>1 DEF Updates!ListAstray, Updates!Parts
  <2> QED
    BY <2>1, <2>2, <2>3, UpdatesHave, UpdatesMake, Zenon
<1>2. ASSUME NEW l \in DOMAIN readings, Updates!ListIsRead(l) PROVE Updates!TypeOK'
  <2> DEFINE r == [readings[l] EXCEPT !.seen = installsDone]
  <2>1. /\ readings' = [readings EXCEPT ![l] = r]
        /\ UNCHANGED <<visit, installsDone, listShown, listLoading, listFailed, wuConfirm,
                       wuRunning, installRuns, nvCache, nvShown, nvChecks, dellLog, dellShown,
                       letters, astray, nvFaults, installsBegun, nvBegun>>
    BY <1>2 DEF Updates!ListIsRead
  <2>2. r \in ReadingType
    BY <1>0, ReadingHas DEF ReadingType
  <2>3. readings' \in Seq(ReadingType)
    BY <1>0, <2>1, <2>2, ReadingMoves
  <2> QED
    BY <2>1, <2>3, UpdatesHave, UpdatesMake, Zenon
<1>3. ASSUME NEW l \in DOMAIN readings, NEW ok \in BOOLEAN, Updates!ListAnswers(l, ok)
      PROVE  Updates!TypeOK'
  <2> DEFINE r == readings[l]
             m == Updates!SettingsLetter(r.to)
  <2>0. r.to \in Nat /\ r.seen \in Nat \cup {-1} /\ r.then \in BOOLEAN
    BY <1>0, ReadingHas DEF ReadingType
  <2>1. /\ readings' = [readings EXCEPT ![l] = Updates!Over]
        /\ UNCHANGED <<visit, installsDone, wuConfirm, wuRunning, installRuns, nvCache, nvShown,
                       nvChecks, dellLog, dellShown, nvFaults, installsBegun, nvBegun>>
    BY <1>3 DEF Updates!ListAnswers
  <2>2. readings' \in Seq(ReadingType)
    BY <1>0, <2>1, ReadingMoves DEF Updates!Over, ReadingType
  <2>3. listShown' = listShown \/ listShown' = r.seen
    BY <1>3 DEF Updates!ListAnswers
  <2>4. listFailed' = listFailed \/ listFailed' = ~ok
    BY <1>3 DEF Updates!ListAnswers
  <2>5. listLoading' = listLoading \/ listLoading' = FALSE
    BY <1>3 DEF Updates!ListAnswers
  <2>6. letters' = letters \/ letters' = Append(letters, m)
    BY <1>3 DEF Updates!ListAnswers
  <2>7. astray' \subseteq astray
    BY <1>3 DEF Updates!ListAnswers, Updates!Refreshed
  <2>8. m \in Updates!LetterType
    BY <2>0, UpdateLetters
  <2> HIDE DEF m, r
  <2>9. letters' \in Seq(Updates!LetterType)
    BY <1>0, <2>6, <2>8, LetterAppended
  <2>10. listShown' \in Nat \cup {-1} /\ astray' \subseteq Updates!Parts
    BY <1>0, <2>0, <2>3, <2>7
  <2>11. listFailed' \in BOOLEAN /\ listLoading' \in BOOLEAN
    BY <2>4, <2>5, UpdatesHave, Zenon
  <2> QED
    BY <2>1, <2>2, <2>9, <2>10, <2>11, UpdatesHave, UpdatesMake, Zenon
<1> QED
  BY <1>1, <1>2, <1>3

\* Installs.
LEMMA UpdatesInstallTypes ==
  ASSUME Updates!TypeOK,
         \/ \E a \in Updates!WuActions : Updates!ClickInstall(a)
         \/ \E yes \in BOOLEAN : Updates!ConfirmInstall(yes)
         \/ \E r \in installRuns, ok \in BOOLEAN : Updates!InstallEnds(r, ok)
  PROVE  Updates!TypeOK'
<1>0. /\ readings \in Seq(ReadingType) /\ visit \in Nat /\ installsDone \in Nat
      /\ astray \subseteq Updates!Parts /\ installRuns \subseteq UpdateRuns
      /\ installsBegun \in Nat /\ dellLog \in Nat
      /\ wuConfirm \in Updates!WuActions \cup {"none"} /\ wuRunning \in Updates!WuActions \cup {"none"}
  BY UpdatesHave
<1>1. ASSUME NEW a \in Updates!WuActions, Updates!ClickInstall(a) PROVE Updates!TypeOK'
  <2>1. /\ wuConfirm' = a
        /\ UNCHANGED <<visit, installsDone, listShown, listLoading, listFailed, readings,
                       wuRunning, installRuns, nvCache, nvShown, nvChecks, dellLog, dellShown,
                       letters, astray, nvFaults, installsBegun, nvBegun>>
    BY <1>1 DEF Updates!ClickInstall
  <2>2. wuConfirm' \in Updates!WuActions \cup {"none"}
    BY <2>1
  <2> QED
    BY <2>1, <2>2, UpdatesHave, UpdatesMake, Zenon
<1>2. ASSUME NEW yes \in BOOLEAN, Updates!ConfirmInstall(yes) PROVE Updates!TypeOK'
  <2>1. /\ wuConfirm # "none" /\ wuConfirm' = "none"
        /\ UNCHANGED <<visit, installsDone, listShown, listLoading, listFailed, readings, nvCache,
                       nvShown, nvChecks, dellLog, dellShown, letters, astray, nvFaults, nvBegun>>
    BY <1>2 DEF Updates!ConfirmInstall
  <2>2. \/ UNCHANGED <<installsBegun, installRuns, wuRunning>>
        \/ /\ installsBegun' = installsBegun + 1 /\ wuRunning' = wuConfirm
           /\ installRuns' = installRuns \cup {[run |-> installsBegun + 1, action |-> wuConfirm, of |-> visit]}
    BY <1>2 DEF Updates!ConfirmInstall
  <2>3. installsBegun' \in Nat /\ wuRunning' \in Updates!WuActions \cup {"none"}
    BY <1>0, <2>2
  <2>4. installRuns' \subseteq UpdateRuns
    <3>1. [run |-> installsBegun + 1, action |-> wuConfirm, of |-> visit] \in UpdateRuns
      BY <1>0, <2>1 DEF UpdateRuns
    <3> QED
      BY <1>0, <2>2, <3>1
  <2>5. wuConfirm' \in Updates!WuActions \cup {"none"}
    BY <2>1
  <2> QED
    BY <2>1, <2>3, <2>4, <2>5, UpdatesHave, UpdatesMake, Zenon
<1>3. ASSUME NEW r \in installRuns, NEW ok \in BOOLEAN, Updates!InstallEnds(r, ok)
      PROVE  Updates!TypeOK'
  <2>1. /\ installRuns' = installRuns \ {r} /\ installsDone' = installsDone + 1
        /\ Updates!Load(r.of, TRUE)
        /\ UNCHANGED <<visit, listShown, listFailed, wuConfirm, nvCache, nvShown, nvChecks,
                       dellShown, letters, nvFaults, installsBegun, nvBegun>>
    BY <1>3 DEF Updates!InstallEnds
  <2>2. r.of \in Nat /\ r.run \in Nat
    BY <1>0 DEF UpdateRuns
  <2>3. readings' \in Seq(ReadingType)
    BY <1>0, <2>1, <2>2, LoadAdds
  <2>4. dellLog' = r.run \/ dellLog' = dellLog
    BY <1>3 DEF Updates!InstallEnds
  <2>5. wuRunning' = "none" \/ wuRunning' = wuRunning
    BY <1>3 DEF Updates!InstallEnds
  <2>6. listLoading' = (listLoading \/ r.of = visit)
    BY <1>3 DEF Updates!InstallEnds
  <2>7. astray' \subseteq astray \cup {"list", "dell"}
    BY <1>3 DEF Updates!InstallEnds, Updates!ListAstray
  <2>8. dellLog' \in Nat /\ installsDone' \in Nat /\ installRuns' \subseteq UpdateRuns
    BY <1>0, <2>1, <2>2, <2>4
  <2>9. wuRunning' \in Updates!WuActions \cup {"none"}
    BY <1>0, <2>5
  <2>10. astray' \subseteq Updates!Parts
    BY <1>0, <2>7 DEF Updates!Parts
  <2>11. listLoading' \in BOOLEAN
    BY <2>6, Zenon
  <2> QED
    BY <2>1, <2>3, <2>8, <2>9, <2>10, <2>11, UpdatesHave, UpdatesMake, Zenon
<1> QED
  BY <1>1, <1>2, <1>3

\* The tiles, and the way back to the page.
LEMMA UpdatesTileTypes ==
  ASSUME Updates!TypeOK,
         \/ Updates!CheckNvidia \/ Updates!ComeBack
         \/ \E ok \in BOOLEAN : Updates!LetterArrives(ok)
         \/ \E c \in nvChecks, outcome \in {"cached", "uncached", "error"} :
              Updates!NvidiaEnds(c, outcome)
  PROVE  Updates!TypeOK'
<1>0. /\ readings \in Seq(ReadingType) /\ visit \in Nat /\ nvBegun \in Nat
      /\ letters \in Seq(Updates!LetterType) /\ astray \subseteq Updates!Parts
      /\ nvChecks \subseteq NvidiaChecks /\ nvFaults \in Nat
      /\ nvCache \in Nat /\ nvShown \in Nat /\ dellShown \in Nat
  BY UpdatesHave
<1>1. CASE Updates!CheckNvidia
  <2>1. /\ nvBegun' = nvBegun + 1
        /\ nvChecks' = nvChecks \cup {[version |-> nvBegun + 1, of |-> visit]}
        /\ UNCHANGED <<visit, installsDone, listShown, listLoading, listFailed, readings,
                       wuConfirm, wuRunning, installRuns, nvCache, nvShown, dellLog, dellShown,
                       letters, astray, nvFaults, installsBegun>>
    BY <1>1 DEF Updates!CheckNvidia
  <2>2. [version |-> nvBegun + 1, of |-> visit] \in NvidiaChecks /\ nvBegun' \in Nat
    BY <1>0, <2>1 DEF NvidiaChecks
  <2>3. nvChecks' \subseteq NvidiaChecks
    BY <1>0, <2>1, <2>2
  <2> QED
    BY <2>1, <2>2, <2>3, UpdatesHave, UpdatesMake, Zenon
<1>2. ASSUME NEW c \in nvChecks, NEW outcome \in {"cached", "uncached", "error"},
             Updates!NvidiaEnds(c, outcome)
      PROVE  Updates!TypeOK'
  <2> DEFINE m == Updates!NvidiaLetter(c)
  <2>1. /\ nvChecks' = nvChecks \ {c}
        /\ nvFaults' = nvFaults + 1 \/ nvFaults' = nvFaults
        /\ nvCache' = c.version \/ nvCache' = nvCache
        /\ letters' = letters \/ letters' = Append(letters, m)
        /\ astray' \subseteq astray \cup {"nv"}
        /\ UNCHANGED <<visit, installsDone, listShown, listLoading, listFailed, readings,
                       wuConfirm, wuRunning, installRuns, nvShown, dellLog, dellShown,
                       installsBegun, nvBegun>>
    BY <1>2 DEF Updates!NvidiaEnds
  <2>2. c \in NvidiaChecks /\ m \in Updates!LetterType
    BY <1>0, UpdateLetters
  <2>3. c.version \in Nat
    BY <2>2 DEF NvidiaChecks
  <2> HIDE DEF m
  <2>4. letters' \in Seq(Updates!LetterType)
    BY <1>0, <2>1, <2>2, LetterAppended
  <2>5. /\ nvChecks' \subseteq NvidiaChecks /\ nvFaults' \in Nat /\ nvCache' \in Nat
        /\ astray' \subseteq Updates!Parts
    BY <1>0, <2>1, <2>3 DEF Updates!Parts
  <2> QED
    BY <2>1, <2>4, <2>5, UpdatesHave, UpdatesMake, Zenon
<1>3. ASSUME NEW ok \in BOOLEAN, Updates!LetterArrives(ok) PROVE Updates!TypeOK'
  <2> DEFINE m == Head(letters)
             q == Tail(letters)
             d == Updates!DellLetter(m.to)
  <2>1. /\ letters # <<>>
        /\ UNCHANGED <<visit, installsDone, listShown, listLoading, listFailed, readings,
                       wuConfirm, wuRunning, installRuns, nvCache, nvChecks, dellLog, nvFaults,
                       installsBegun, nvBegun>>
    BY <1>3 DEF Updates!LetterArrives
  <2>a. nvShown' = nvShown \/ (m.is \in {"settings", "nvidia"} /\ nvShown' = m.nv)
    BY <1>3 DEF Updates!LetterArrives, Updates!SaysNv
  <2>b. dellShown' = dellShown \/ (m.is = "dell" /\ dellShown' = m.dell)
    BY <1>3 DEF Updates!LetterArrives, Updates!SaysDell
  <2>c. letters' = q \/ letters' = Append(q, d)
    BY <1>3 DEF Updates!LetterArrives
  <2>d. astray' \subseteq astray \cup {"nv", "dell"}
    BY <1>3 DEF Updates!LetterArrives, Updates!Unsaid
  <2>2. m \in Updates!LetterType /\ q \in Seq(Updates!LetterType)
    BY <1>0, <2>1, LetterTaken
  <2>3. d \in Updates!LetterType
    BY <2>2, LetterHas, UpdateLetters
  <2> HIDE DEF d, q
  <2>4. letters' \in Seq(Updates!LetterType)
    BY <2>c, <2>2, <2>3, LetterAppended
  <2>5. nvShown' \in Nat /\ dellShown' \in Nat /\ astray' \subseteq Updates!Parts
    BY <1>0, <2>2, <2>a, <2>b, <2>d, LetterHas DEF Updates!Parts
  <2> QED
    BY <2>1, <2>4, <2>5, UpdatesHave, UpdatesMake, Zenon
<1>4. CASE Updates!ComeBack
  <2> DEFINE m == Updates!SettingsLetter(visit + 1)
  <2>1. /\ visit' = visit + 1 /\ Updates!Load(visit + 1, FALSE)
        /\ astray' = Updates!Refreshed(astray \ {"list"})
        /\ listShown' = -1 /\ listLoading' = TRUE /\ listFailed' = FALSE /\ wuRunning' = "none"
        /\ nvShown' = 0 /\ dellShown' = 0
        /\ letters' = Append(letters, m)
        /\ UNCHANGED <<installsDone, wuConfirm, installRuns, nvCache, nvChecks, dellLog, nvFaults,
                       installsBegun, nvBegun>>
    BY <1>4 DEF Updates!ComeBack
  <2>2. visit' \in Nat \ {0} /\ visit + 1 \in Nat
    BY <1>0, <2>1
  <2>3. readings' \in Seq(ReadingType)
    BY <1>0, <2>1, <2>2, LoadAdds
  <2>4. m \in Updates!LetterType
    BY <2>2, UpdateLetters
  <2>5. letters' \in Seq(Updates!LetterType)
    BY <1>0, <2>1, <2>4, LetterAppended
  <2>6. astray' \subseteq Updates!Parts
    BY <1>0, <2>1 DEF Updates!Refreshed
  <2>7. /\ listShown' \in Nat \cup {-1} /\ wuRunning' \in Updates!WuActions \cup {"none"}
        /\ nvShown' \in Nat /\ dellShown' \in Nat
    BY <2>1
  <2>8. listLoading' \in BOOLEAN /\ listFailed' \in BOOLEAN
    BY <2>1, Zenon
  <2> QED
    BY <2>1, <2>2, <2>3, <2>5, <2>6, <2>7, <2>8, UpdatesHave, UpdatesMake, Zenon
<1> QED
  BY <1>1, <1>2, <1>3, <1>4

LEMMA UpdatesTypesStep == Updates!TypeOK /\ [Updates!Next]_updatesVars => Updates!TypeOK'
<1> SUFFICES ASSUME Updates!TypeOK, [Updates!Next]_updatesVars PROVE Updates!TypeOK'
  OBVIOUS
<1>1. CASE UNCHANGED updatesVars
  BY <1>1, UpdatesHave, UpdatesMake, Zenon DEF updatesVars
<1>2. CASE Updates!Next
  BY <1>2, UpdatesListTypes, UpdatesInstallTypes, UpdatesTileTypes DEF Updates!Next
<1> QED
  BY <1>1, <1>2

(***************************************************************************)
(* Nothing comes early.                                                    *)
(***************************************************************************)

LEMMA EarlyReadings ==
  ASSUME readings \in Seq(ReadingType), NEW v \in Nat,
         \A l \in DOMAIN readings : readings[l].to <= v,
         NEW to \in Nat, NEW then \in BOOLEAN, to <= v, Updates!Load(to, then)
  PROVE  \A l \in DOMAIN readings' : readings'[l].to <= v
<1>1. PICK k \in Nat : /\ k \notin DOMAIN readings /\ DOMAIN readings' = DOMAIN readings \cup {k}
                       /\ readings'[k] = Updates!Reading(to, then)
                       /\ \A l \in DOMAIN readings : readings'[l] = readings[l]
  BY LoadAdds
<1>2. readings'[k].to = to
  BY <1>1 DEF Updates!Reading
<1> QED
  BY <1>1, <1>2

LEMMA EarlyLetters ==
  ASSUME NEW q \in Seq(Updates!LetterType), NEW v \in Nat, \A i \in DOMAIN q : q[i].to <= v,
         NEW m \in Updates!LetterType, m.to <= v
  PROVE  \A i \in DOMAIN Append(q, m) : Append(q, m)[i].to <= v
<1> DEFINE p == Append(q, m)
<1>1. /\ DOMAIN p = DOMAIN q \cup {Len(q) + 1} /\ p[Len(q) + 1] = m
      /\ \A i \in DOMAIN q : p[i] = q[i]
  BY LetterAppended
<1> HIDE DEF p
<1>2. \A i \in DOMAIN p : p[i].to <= v
  BY <1>1
<1> QED
  BY <1>2 DEF p

LEMMA EarlyInit == Updates!Init => Updates!NothingComesEarly
<1> SUFFICES ASSUME Updates!Init PROVE Updates!NothingComesEarly
  OBVIOUS
<1> DEFINE r == Updates!Reading(1, FALSE)
           m == [is |-> "settings", to |-> 1, nv |-> 0]
<1>1. /\ visit = 1 /\ installRuns = {} /\ nvChecks = {} /\ readings = <<r>> /\ letters = <<m>>
  BY DEF Updates!Init
<1>2. r.to = 1 /\ m.to = 1
  BY DEF Updates!Reading
<1> HIDE DEF r, m
<1>3. DOMAIN readings = {1} /\ readings[1] = r /\ DOMAIN letters = {1} /\ letters[1] = m
  BY <1>1
<1> QED
  BY <1>1, <1>2, <1>3 DEF Updates!NothingComesEarly

LEMMA EarlyListStep ==
  ASSUME Updates!TypeOK, Updates!NothingComesEarly,
         \/ Updates!RefreshList
         \/ \E l \in DOMAIN readings :
              Updates!ListIsRead(l) \/ \E ok \in BOOLEAN : Updates!ListAnswers(l, ok)
  PROVE  Updates!NothingComesEarly'
<1>0. /\ readings \in Seq(ReadingType) /\ visit \in Nat /\ installsDone \in Nat
      /\ letters \in Seq(Updates!LetterType)
      /\ \A l \in DOMAIN readings : readings[l].to <= visit
      /\ \A i \in DOMAIN letters : letters[i].to <= visit
  BY UpdatesHave DEF Updates!NothingComesEarly
<1>1. CASE Updates!RefreshList
  <2>1. Updates!Load(visit, FALSE) /\ UNCHANGED <<visit, installRuns, nvChecks, letters>>
    BY <1>1 DEF Updates!RefreshList
  <2>2. \A l \in DOMAIN readings' : readings'[l].to <= visit
    <3>1. visit <= visit
      BY <1>0
    <3> QED
      BY <1>0, <2>1, <3>1, EarlyReadings
  <2> QED
    BY <2>1, <2>2 DEF Updates!NothingComesEarly
<1>2. ASSUME NEW l \in DOMAIN readings, Updates!ListIsRead(l) PROVE Updates!NothingComesEarly'
  <2> DEFINE r == [readings[l] EXCEPT !.seen = installsDone]
  <2>1. readings' = [readings EXCEPT ![l] = r] /\ UNCHANGED <<visit, installRuns, nvChecks, letters>>
    BY <1>2 DEF Updates!ListIsRead
  <2>2. r \in ReadingType /\ r.to = readings[l].to
    BY <1>0, ReadingHas DEF ReadingType
  <2> HIDE DEF r
  <2>3. DOMAIN readings' = DOMAIN readings /\ readings'[l] = r
        /\ \A k \in DOMAIN readings \ {l} : readings'[k] = readings[k]
    BY <1>0, <2>1, <2>2, ReadingMoves
  <2>4. \A k \in DOMAIN readings' : readings'[k].to = readings[k].to
    BY <2>2, <2>3
  <2> QED
    BY <2>1, <2>3, <2>4 DEF Updates!NothingComesEarly
<1>3. ASSUME NEW l \in DOMAIN readings, NEW ok \in BOOLEAN, Updates!ListAnswers(l, ok)
      PROVE  Updates!NothingComesEarly'
  <2> DEFINE m == Updates!SettingsLetter(readings[l].to)
  <2>1. /\ readings' = [readings EXCEPT ![l] = Updates!Over]
        /\ letters' = letters \/ letters' = Append(letters, m)
        /\ UNCHANGED <<visit, installRuns, nvChecks>>
    BY <1>3 DEF Updates!ListAnswers
  <2>2. readings[l].to \in Nat
    BY <1>0, ReadingHas DEF ReadingType
  <2>3. m \in Updates!LetterType /\ m.to = readings[l].to
    BY <2>2, UpdateLetters DEF Updates!SettingsLetter
  <2> HIDE DEF m
  <2>4. \A i \in DOMAIN letters' : letters'[i].to <= visit
    BY <1>0, <2>1, <2>3, EarlyLetters
  <2>5. Updates!Over \in ReadingType /\ Updates!Over.to = 0
    BY DEF Updates!Over, ReadingType
  <2>6. DOMAIN readings' = DOMAIN readings /\ readings'[l] = Updates!Over
        /\ \A k \in DOMAIN readings \ {l} : readings'[k] = readings[k]
    BY <1>0, <2>1, <2>5, ReadingMoves
  <2>7. \A k \in DOMAIN readings' : readings'[k].to <= visit
    BY <1>0, <2>5, <2>6
  <2> QED
    BY <2>1, <2>4, <2>7 DEF Updates!NothingComesEarly
<1> QED
  BY <1>1, <1>2, <1>3

LEMMA EarlyInstallStep ==
  ASSUME Updates!TypeOK, Updates!NothingComesEarly,
         \/ \E a \in Updates!WuActions : Updates!ClickInstall(a)
         \/ \E yes \in BOOLEAN : Updates!ConfirmInstall(yes)
         \/ \E r \in installRuns, ok \in BOOLEAN : Updates!InstallEnds(r, ok)
  PROVE  Updates!NothingComesEarly'
<1>0. /\ readings \in Seq(ReadingType) /\ visit \in Nat /\ installRuns \subseteq UpdateRuns
      /\ \A l \in DOMAIN readings : readings[l].to <= visit
      /\ \A r \in installRuns : r.of <= visit
  BY UpdatesHave DEF Updates!NothingComesEarly
<1>1. ASSUME NEW a \in Updates!WuActions, Updates!ClickInstall(a) PROVE Updates!NothingComesEarly'
  BY <1>1 DEF Updates!ClickInstall, Updates!NothingComesEarly
<1>2. ASSUME NEW yes \in BOOLEAN, Updates!ConfirmInstall(yes) PROVE Updates!NothingComesEarly'
  <2> DEFINE r == [run |-> installsBegun + 1, action |-> wuConfirm, of |-> visit]
  <2>1. /\ installRuns' = installRuns \/ installRuns' = installRuns \cup {r}
        /\ UNCHANGED <<visit, readings, nvChecks, letters>>
    BY <1>2 DEF Updates!ConfirmInstall
  <2>2. r.of <= visit
    BY <1>0
  <2> HIDE DEF r
  <2>3. \A s \in installRuns' : s.of <= visit
    BY <1>0, <2>1, <2>2
  <2> QED
    BY <2>1, <2>3 DEF Updates!NothingComesEarly
<1>3. ASSUME NEW r \in installRuns, NEW ok \in BOOLEAN, Updates!InstallEnds(r, ok)
      PROVE  Updates!NothingComesEarly'
  <2>1. /\ installRuns' = installRuns \ {r} /\ Updates!Load(r.of, TRUE)
        /\ UNCHANGED <<visit, nvChecks, letters>>
    BY <1>3 DEF Updates!InstallEnds
  <2>2. r.of \in Nat /\ r.of <= visit
    BY <1>0 DEF UpdateRuns
  <2>3. \A l \in DOMAIN readings' : readings'[l].to <= visit
    BY <1>0, <2>1, <2>2, EarlyReadings
  <2> QED
    BY <2>1, <2>3 DEF Updates!NothingComesEarly
<1> QED
  BY <1>1, <1>2, <1>3

LEMMA EarlyTileStep ==
  ASSUME Updates!TypeOK, Updates!NothingComesEarly,
         \/ Updates!CheckNvidia \/ Updates!ComeBack
         \/ \E ok \in BOOLEAN : Updates!LetterArrives(ok)
         \/ \E c \in nvChecks, outcome \in {"cached", "uncached", "error"} :
              Updates!NvidiaEnds(c, outcome)
  PROVE  Updates!NothingComesEarly'
<1>0. /\ readings \in Seq(ReadingType) /\ visit \in Nat /\ letters \in Seq(Updates!LetterType)
      /\ nvChecks \subseteq NvidiaChecks /\ installRuns \subseteq UpdateRuns
      /\ \A l \in DOMAIN readings : readings[l].to <= visit
      /\ \A i \in DOMAIN letters : letters[i].to <= visit
      /\ \A c \in nvChecks : c.of <= visit
      /\ \A r \in installRuns : r.of <= visit
  BY UpdatesHave DEF Updates!NothingComesEarly
<1>1. CASE Updates!CheckNvidia
  <2> DEFINE c == [version |-> nvBegun + 1, of |-> visit]
  <2>1. nvChecks' = nvChecks \cup {c} /\ UNCHANGED <<visit, readings, installRuns, letters>>
    BY <1>1 DEF Updates!CheckNvidia
  <2>2. c.of <= visit
    BY <1>0
  <2> HIDE DEF c
  <2>3. \A d \in nvChecks' : d.of <= visit
    BY <1>0, <2>1, <2>2
  <2> QED
    BY <2>1, <2>3 DEF Updates!NothingComesEarly
<1>2. ASSUME NEW c \in nvChecks, NEW outcome \in {"cached", "uncached", "error"},
             Updates!NvidiaEnds(c, outcome)
      PROVE  Updates!NothingComesEarly'
  <2> DEFINE m == Updates!NvidiaLetter(c)
  <2>1. /\ nvChecks' = nvChecks \ {c}
        /\ letters' = letters \/ letters' = Append(letters, m)
        /\ UNCHANGED <<visit, readings, installRuns>>
    BY <1>2 DEF Updates!NvidiaEnds
  <2>2. m \in Updates!LetterType /\ m.to = c.of
    BY <1>0, UpdateLetters DEF Updates!NvidiaLetter
  <2> HIDE DEF m
  <2>3. \A i \in DOMAIN letters' : letters'[i].to <= visit
    BY <1>0, <2>1, <2>2, EarlyLetters
  <2> QED
    BY <2>1, <2>3 DEF Updates!NothingComesEarly
<1>3. ASSUME NEW ok \in BOOLEAN, Updates!LetterArrives(ok) PROVE Updates!NothingComesEarly'
  <2> DEFINE m == Head(letters)
             q == Tail(letters)
             d == Updates!DellLetter(m.to)
  <2>1. /\ letters # <<>>
        /\ letters' = q \/ letters' = Append(q, d)
        /\ UNCHANGED <<visit, readings, installRuns, nvChecks>>
    BY <1>3 DEF Updates!LetterArrives
  <2>2. /\ m \in Updates!LetterType /\ q \in Seq(Updates!LetterType)
        /\ 1 \in DOMAIN letters /\ m = letters[1]
        /\ \A i \in DOMAIN q : i + 1 \in DOMAIN letters /\ q[i] = letters[i + 1]
    BY <1>0, <2>1, LetterTaken
  <2>3. d \in Updates!LetterType /\ d.to = m.to
    BY <2>2, LetterHas, UpdateLetters DEF Updates!DellLetter
  <2> HIDE DEF d, q, m
  <2>4. (\A i \in DOMAIN q : q[i].to <= visit) /\ m.to <= visit
    BY <1>0, <2>2
  <2>5. \A i \in DOMAIN letters' : letters'[i].to <= visit
    BY <1>0, <2>1, <2>2, <2>3, <2>4, EarlyLetters
  <2> QED
    BY <2>1, <2>5 DEF Updates!NothingComesEarly
<1>4. CASE Updates!ComeBack
  <2> DEFINE v == visit + 1
             m == Updates!SettingsLetter(v)
  <2>1. /\ visit' = v /\ Updates!Load(v, FALSE) /\ letters' = Append(letters, m)
        /\ UNCHANGED <<installRuns, nvChecks>>
    BY <1>4 DEF Updates!ComeBack
  <2>2. /\ v \in Nat /\ v <= v
        /\ \A l \in DOMAIN readings : readings[l].to <= v
        /\ \A i \in DOMAIN letters : letters[i].to <= v
        /\ \A r \in installRuns : r.of <= v
        /\ \A c \in nvChecks : c.of <= v
    <3>1. ASSUME NEW n \in Nat, n <= visit PROVE n <= v
      BY <1>0, <3>1
    <3>2. \A l \in DOMAIN readings : readings[l].to \in Nat
      BY <1>0, ReadingHas DEF ReadingType
    <3>3. \A i \in DOMAIN letters : letters[i].to \in Nat
      BY <1>0, LetterHas
    <3>4. /\ \A r \in installRuns : r.of \in Nat
          /\ \A c \in nvChecks : c.of \in Nat
      BY <1>0 DEF UpdateRuns, NvidiaChecks
    <3>5. v \in Nat /\ v <= v
      BY <1>0
    <3> HIDE DEF v
    <3> QED
      BY <1>0, <3>1, <3>2, <3>3, <3>4, <3>5
  <2>3. m \in Updates!LetterType /\ m.to = v
    BY <2>2, UpdateLetters DEF Updates!SettingsLetter
  <2> HIDE DEF m, v
  <2>4. \A l \in DOMAIN readings' : readings'[l].to <= v
    BY <1>0, <2>1, <2>2, EarlyReadings
  <2>5. \A i \in DOMAIN letters' : letters'[i].to <= v
    BY <1>0, <2>1, <2>2, <2>3, EarlyLetters
  <2> QED
    BY <2>1, <2>2, <2>4, <2>5 DEF Updates!NothingComesEarly
<1> QED
  BY <1>1, <1>2, <1>3, <1>4

LEMMA EarlyStep ==
  Updates!TypeOK /\ Updates!NothingComesEarly /\ [Updates!Next]_updatesVars => Updates!NothingComesEarly'
<1> SUFFICES ASSUME Updates!TypeOK, Updates!NothingComesEarly, [Updates!Next]_updatesVars
             PROVE  Updates!NothingComesEarly'
  OBVIOUS
<1>1. CASE UNCHANGED updatesVars
  BY <1>1 DEF updatesVars, Updates!NothingComesEarly
<1>2. CASE Updates!Next
  BY <1>2, EarlyListStep, EarlyInstallStep, EarlyTileStep DEF Updates!Next
<1> QED
  BY <1>1, <1>2

(***************************************************************************)
(* The list follows the machine.                                           *)
(***************************************************************************)

\* What was read for the page is untouched, and the list has missed no more than before.
LEMMA ListStays ==
  ASSUME Updates!ListFollows, "list" \in astray => "list" \in astray',
         UNCHANGED <<visit, readings, installsDone, listShown, listFailed>>
  PROVE  Updates!ListFollows'
  BY DEF Updates!ListFollows, Updates!UnderWay

\* A reading begun for the page while none is under way has still to look at the machine.
LEMMA ListBegins ==
  ASSUME readings \in Seq(ReadingType), visit \in Nat, NEW then \in BOOLEAN,
         visit' = visit, Updates!Load(visit, then), astray' = Updates!ListAstray
  PROVE  Updates!ListFollows'
<1> SUFFICES ASSUME "list" \notin astray'
             PROVE  /\ \A l \in Updates!UnderWay' : readings'[l].seen = -1
                    /\ Updates!UnderWay' # {}
  BY DEF Updates!ListFollows
<1>1. \A l \in DOMAIN readings : readings[l].to # visit
  BY DEF Updates!ListAstray, Updates!UnderWay
<1>2. PICK k \in Nat : /\ k \notin DOMAIN readings /\ DOMAIN readings' = DOMAIN readings \cup {k}
                       /\ readings'[k] = Updates!Reading(visit, then)
                       /\ \A l \in DOMAIN readings : readings'[l] = readings[l]
  BY LoadAdds
<1>3. readings'[k].to = visit /\ readings'[k].seen = -1
  BY <1>2 DEF Updates!Reading
<1>4. Updates!UnderWay' = {k}
  BY <1>1, <1>2, <1>3 DEF Updates!UnderWay
<1> QED
  BY <1>3, <1>4

LEMMA ListAnswersStep ==
  ASSUME Updates!TypeOK, Updates!ListFollows,
         NEW l \in DOMAIN readings, NEW ok \in BOOLEAN, Updates!ListAnswers(l, ok)
  PROVE  Updates!ListFollows'
<1>0. readings \in Seq(ReadingType) /\ visit \in Nat \ {0} /\ installsDone \in Nat
  BY UpdatesHave
<1> SUFFICES ASSUME "list" \notin astray'
             PROVE  /\ \A k \in Updates!UnderWay' : readings'[k].seen \in {-1, installsDone'}
                    /\ Updates!UnderWay' = {} => listFailed' \/ listShown' = installsDone'
  BY DEF Updates!ListFollows
<1>1. /\ readings[l].seen >= 0 /\ readings' = [readings EXCEPT ![l] = Updates!Over]
      /\ visit' = visit /\ installsDone' = installsDone
  BY DEF Updates!ListAnswers
<1>2. "list" \notin astray
  BY DEF Updates!ListAnswers, Updates!Refreshed
<1>3. /\ \A k \in Updates!UnderWay : readings[k].seen \in {-1, installsDone}
      /\ Updates!UnderWay = {} => listFailed \/ listShown = installsDone
  BY <1>2 DEF Updates!ListFollows
<1>4. Updates!Over \in ReadingType /\ Updates!Over.to = 0
  BY DEF Updates!Over, ReadingType
<1>5. /\ DOMAIN readings' = DOMAIN readings /\ readings'[l] = Updates!Over
      /\ \A k \in DOMAIN readings \ {l} : readings'[k] = readings[k]
  BY <1>0, <1>1, <1>4, ReadingMoves
<1>6. Updates!UnderWay' = Updates!UnderWay \ {l}
  BY <1>0, <1>1, <1>4, <1>5 DEF Updates!UnderWay
<1>7. \A k \in Updates!UnderWay' : readings'[k].seen \in {-1, installsDone'}
  BY <1>1, <1>3, <1>5, <1>6 DEF Updates!UnderWay
<1>8. CASE readings[l].to = visit
  <2>1. readings[l].seen = installsDone
    BY <1>0, <1>1, <1>3, <1>8 DEF Updates!UnderWay
  <2>2. (listShown' = IF ok THEN readings[l].seen ELSE listShown) /\ listFailed' = ~ok
    BY <1>8 DEF Updates!ListAnswers
  <2>3. listFailed' \/ listShown' = installsDone
    BY <2>1, <2>2, Zenon
  <2> QED
    BY <1>1, <1>7, <2>3
<1>9. CASE readings[l].to # visit
  <2>1. UNCHANGED <<listShown, listFailed>>
    BY <1>9 DEF Updates!ListAnswers
  <2>2. Updates!UnderWay' = Updates!UnderWay
    BY <1>6, <1>9 DEF Updates!UnderWay
  <2> QED
    BY <1>1, <1>3, <1>7, <2>1, <2>2
<1> QED
  BY <1>8, <1>9

LEMMA ListReadStep ==
  ASSUME Updates!TypeOK, Updates!ListFollows, NEW l \in DOMAIN readings, Updates!ListIsRead(l)
  PROVE  Updates!ListFollows'
<1>0. readings \in Seq(ReadingType) /\ installsDone \in Nat
  BY UpdatesHave
<1> DEFINE r == [readings[l] EXCEPT !.seen = installsDone]
<1>1. /\ readings' = [readings EXCEPT ![l] = r]
      /\ UNCHANGED <<visit, installsDone, listShown, listFailed, astray>>
  BY DEF Updates!ListIsRead
<1>2. r \in ReadingType /\ r.to = readings[l].to /\ r.seen = installsDone
  BY <1>0, ReadingHas DEF ReadingType
<1> HIDE DEF r
<1>3. /\ DOMAIN readings' = DOMAIN readings /\ readings'[l] = r
      /\ \A k \in DOMAIN readings \ {l} : readings'[k] = readings[k]
  BY <1>0, <1>1, <1>2, ReadingMoves
<1>4. Updates!UnderWay' = Updates!UnderWay
  BY <1>1, <1>2, <1>3 DEF Updates!UnderWay
<1>5. \A k \in Updates!UnderWay : readings'[k].seen = readings[k].seen \/ readings'[k].seen = installsDone
  BY <1>2, <1>3 DEF Updates!UnderWay
<1> QED
  BY <1>1, <1>4, <1>5 DEF Updates!ListFollows

\* The page that is opened anew waits for its first reading.
LEMMA ListComesBack ==
  ASSUME Updates!TypeOK, Updates!NothingComesEarly, Updates!ComeBack
  PROVE  Updates!ListFollows'
<1>0. readings \in Seq(ReadingType) /\ visit \in Nat
  BY UpdatesHave
<1> DEFINE v == visit + 1
<1>1. visit' = v /\ Updates!Load(v, FALSE)
  BY DEF Updates!ComeBack
<1>2. \A l \in DOMAIN readings : readings[l].to # v
  <2>1. \A l \in DOMAIN readings : readings[l].to \in Nat /\ readings[l].to <= visit
    BY <1>0, ReadingHas DEF ReadingType, Updates!NothingComesEarly
  <2> QED
    BY <1>0, <2>1
<1>3. v \in Nat
  BY <1>0
<1> HIDE DEF v
<1>4. PICK k \in Nat : /\ k \notin DOMAIN readings /\ DOMAIN readings' = DOMAIN readings \cup {k}
                       /\ readings'[k] = Updates!Reading(v, FALSE)
                       /\ \A l \in DOMAIN readings : readings'[l] = readings[l]
  BY <1>0, <1>1, <1>3, LoadAdds
<1>5. readings'[k].to = v /\ readings'[k].seen = -1
  BY <1>4 DEF Updates!Reading
<1>6. Updates!UnderWay' = {k}
  BY <1>1, <1>2, <1>4, <1>5 DEF Updates!UnderWay
<1> QED
  BY <1>5, <1>6 DEF Updates!ListFollows

LEMMA ListInit == Updates!Init => Updates!ListFollows
<1> SUFFICES ASSUME Updates!Init PROVE Updates!ListFollows
  OBVIOUS
<1> DEFINE r == Updates!Reading(1, FALSE)
<1>1. visit = 1 /\ readings = <<r>>
  BY DEF Updates!Init
<1>2. r.to = 1 /\ r.seen = -1
  BY DEF Updates!Reading
<1> HIDE DEF r
<1>3. DOMAIN readings = {1} /\ readings[1] = r
  BY <1>1
<1>4. Updates!UnderWay = {1}
  BY <1>1, <1>2, <1>3 DEF Updates!UnderWay
<1> QED
  BY <1>2, <1>3, <1>4 DEF Updates!ListFollows

LEMMA ListStep ==
  Updates!TypeOK /\ Updates!NothingComesEarly /\ Updates!ListFollows /\ [Updates!Next]_updatesVars
    => Updates!ListFollows'
<1> SUFFICES ASSUME Updates!TypeOK, Updates!NothingComesEarly, Updates!ListFollows,
                    [Updates!Next]_updatesVars
             PROVE  Updates!ListFollows'
  OBVIOUS
<1>0. readings \in Seq(ReadingType) /\ visit \in Nat
  BY UpdatesHave
<1>1. CASE UNCHANGED updatesVars
  BY <1>1, ListStays DEF updatesVars
<1>2. CASE Updates!RefreshList
  <2>1. visit' = visit /\ Updates!Load(visit, FALSE) /\ astray' = Updates!ListAstray
    BY <1>2 DEF Updates!RefreshList
  <2> QED
    BY <1>0, <2>1, ListBegins
<1>3. CASE Updates!CheckNvidia
  BY <1>3, ListStays DEF Updates!CheckNvidia
<1>4. ASSUME NEW ok \in BOOLEAN, Updates!LetterArrives(ok) PROVE Updates!ListFollows'
  <2>1. UNCHANGED <<visit, readings, installsDone, listShown, listFailed>>
    BY <1>4 DEF Updates!LetterArrives
  <2>2. "list" \in astray => "list" \in astray'
    BY <1>4 DEF Updates!LetterArrives
  <2> QED
    BY <2>1, <2>2, ListStays
<1>5. CASE Updates!ComeBack
  BY <1>5, ListComesBack
<1>6. ASSUME NEW a \in Updates!WuActions, Updates!ClickInstall(a) PROVE Updates!ListFollows'
  BY <1>6, ListStays DEF Updates!ClickInstall
<1>7. ASSUME NEW yes \in BOOLEAN, Updates!ConfirmInstall(yes) PROVE Updates!ListFollows'
  BY <1>7, ListStays DEF Updates!ConfirmInstall
<1>8. ASSUME NEW l \in DOMAIN readings, Updates!ListIsRead(l) PROVE Updates!ListFollows'
  BY <1>8, ListReadStep
<1>9. ASSUME NEW l \in DOMAIN readings, NEW ok \in BOOLEAN, Updates!ListAnswers(l, ok)
      PROVE  Updates!ListFollows'
  BY <1>9, ListAnswersStep
<1>10. ASSUME NEW r \in installRuns, NEW ok \in BOOLEAN, Updates!InstallEnds(r, ok)
       PROVE  Updates!ListFollows'
  <2>1. visit' = visit /\ Updates!Load(r.of, TRUE)
    BY <1>10 DEF Updates!InstallEnds
  <2>2. CASE r.of = visit
    <3>1. astray' = Updates!ListAstray
      BY <1>10, <2>2 DEF Updates!InstallEnds
    <3> QED
      BY <1>0, <2>1, <2>2, <3>1, ListBegins
  <2>3. CASE r.of # visit
    <3>1. "list" \in astray'
      BY <1>10, <2>3 DEF Updates!InstallEnds
    <3> QED
      BY <3>1 DEF Updates!ListFollows
  <2> QED
    BY <2>2, <2>3
<1>11. ASSUME NEW c \in nvChecks, NEW outcome \in {"cached", "uncached", "error"},
              Updates!NvidiaEnds(c, outcome)
       PROVE  Updates!ListFollows'
  <2>1. UNCHANGED <<visit, readings, installsDone, listShown, listFailed>>
    BY <1>11 DEF Updates!NvidiaEnds
  <2>2. "list" \in astray => "list" \in astray'
    BY <1>11 DEF Updates!NvidiaEnds
  <2> QED
    BY <2>1, <2>2, ListStays
<1> QED
  BY <1>1, <1>2, <1>3, <1>4, <1>5, <1>6, <1>7, <1>8, <1>9, <1>10, <1>11 DEF Updates!Next

(***************************************************************************)
(* The last answer that says something.                                    *)
(***************************************************************************)

\* Of the positions said, the last says what is wanted; if nothing is said it is shown.
LastWordIs(said, word, onPage, wanted) ==
  /\ said = {} => onPage = wanted
  /\ \A i \in said : (\A j \in said : j <= i) => word[i] = wanted

\* What the answers q say to the page v.
NvSaid(q, v) ==
  {i \in DOMAIN q : q[i].to = v /\ q[i].is \in {"settings", "nvidia"} /\ q[i].nv # 0}
DellSaid(q, v) ==
  {i \in DOMAIN q : q[i].to = v /\ q[i].is = "dell" /\ q[i].dell # 0}
NvOf(q) == [i \in DOMAIN q |-> q[i].nv]
DellOf(q) == [i \in DOMAIN q |-> q[i].dell]

\* A new last word.
LEMMA LastWord ==
  ASSUME NEW said \in SUBSET Nat, NEW n \in Nat, \A i \in said : i < n,
         NEW word, NEW onPage, NEW wanted, word[n] = wanted
  PROVE  LastWordIs(said \cup {n}, word, onPage, wanted)
<1>1. ASSUME NEW i \in said \cup {n}, \A j \in said \cup {n} : j <= i PROVE i = n
  BY <1>1
<1> QED
  BY <1>1 DEF LastWordIs

\* Words that keep their place.
LEMMA SameWords ==
  ASSUME NEW said, NEW word, NEW word2, NEW onPage, NEW wanted,
         LastWordIs(said, word, onPage, wanted), \A i \in said : word2[i] = word[i]
  PROVE  LastWordIs(said, word2, onPage, wanted)
  BY DEF LastWordIs

\* The first answer is taken, and is shown if it says something.
LEMMA WordsTaken ==
  ASSUME NEW said \in SUBSET (Nat \ {0}), NEW said2 \in SUBSET (Nat \ {0}),
         \A i \in Nat \ {0} : i \in said2 <=> i + 1 \in said,
         NEW word, NEW word2, \A i \in said2 : word2[i] = word[i + 1],
         NEW onPage, NEW onPage2, NEW wanted, LastWordIs(said, word, onPage, wanted),
         1 \in said => onPage2 = word[1], 1 \notin said => onPage2 = onPage
  PROVE  LastWordIs(said2, word2, onPage2, wanted)
<1>0. /\ said = {} => onPage = wanted
      /\ \A i \in said : (\A j \in said : j <= i) => word[i] = wanted
  BY DEF LastWordIs
<1>1. \A j \in said : j = 1 \/ \E i \in said2 : j = i + 1
  <2> SUFFICES ASSUME NEW j \in said, j # 1 PROVE \E i \in said2 : j = i + 1
    OBVIOUS
  <2>1. j - 1 \in Nat \ {0} /\ j = (j - 1) + 1
    OBVIOUS
  <2>2. j - 1 \in said2
    BY <2>1
  <2> QED
    BY <2>1, <2>2
<1>2. ASSUME said2 = {} PROVE onPage2 = wanted
  <2>1. \A j \in said : j = 1
    BY <1>1, <1>2
  <2>2. CASE 1 \in said
    <3>1. \A j \in said : j <= 1
      BY <2>1
    <3> QED
      BY <1>0, <2>2, <3>1
  <2>3. CASE 1 \notin said
    BY <1>0, <2>1, <2>3
  <2> QED
    BY <2>2, <2>3
<1>3. ASSUME NEW i \in said2, \A j \in said2 : j <= i PROVE word2[i] = wanted
  <2>1. i \in Nat \ {0} /\ i + 1 \in said
    OBVIOUS
  <2>2. \A j \in said : j <= i + 1
    <3> SUFFICES ASSUME NEW j \in said PROVE j <= i + 1
      OBVIOUS
    <3>1. CASE j = 1
      BY <2>1, <3>1
    <3>2. CASE \E k \in said2 : j = k + 1
      <4>1. PICK k \in said2 : j = k + 1
        BY <3>2
      <4>2. k \in Nat /\ k <= i
        BY <1>3
      <4> QED
        BY <2>1, <4>1, <4>2
    <3> QED
      BY <1>1, <3>1, <3>2
  <2> QED
    BY <1>0, <2>1, <2>2
<1> QED
  BY <1>2, <1>3 DEF LastWordIs

\* An answer joins the others.
LEMMA SaidAppended ==
  ASSUME NEW q \in Seq(Updates!LetterType), NEW m \in Updates!LetterType, NEW v
  PROVE  LET p == Append(q, m)
             n == Len(q) + 1
         IN /\ n \in Nat /\ p[n] = m
            /\ NvSaid(q, v) \in SUBSET (Nat \ {0}) /\ DellSaid(q, v) \in SUBSET (Nat \ {0})
            /\ \A i \in DOMAIN q : i < n /\ p[i] = q[i]
            /\ NvSaid(p, v) = NvSaid(q, v) \cup {i \in {n} : m.to = v /\ m.is \in {"settings", "nvidia"} /\ m.nv # 0}
            /\ DellSaid(p, v) = DellSaid(q, v) \cup {i \in {n} : m.to = v /\ m.is = "dell" /\ m.dell # 0}
            /\ NvOf(p)[n] = m.nv /\ \A i \in DOMAIN q : NvOf(p)[i] = NvOf(q)[i]
            /\ DellOf(p)[n] = m.dell /\ \A i \in DOMAIN q : DellOf(p)[i] = DellOf(q)[i]
            /\ DOMAIN p = DOMAIN q \cup {n}
<1> DEFINE p == Append(q, m)
           n == Len(q) + 1
<1>1. /\ DOMAIN p = DOMAIN q \cup {n} /\ p[n] = m /\ Len(q) \in Nat /\ DOMAIN q \subseteq Nat \ {0}
      /\ \A i \in DOMAIN q : p[i] = q[i] /\ i < n
  BY LetterAppended
<1>2. n \in Nat
  BY <1>1
<1> HIDE DEF p, n
<1>3. NvSaid(p, v) = NvSaid(q, v) \cup {i \in {n} : m.to = v /\ m.is \in {"settings", "nvidia"} /\ m.nv # 0}
  BY <1>1 DEF NvSaid
<1>4. DellSaid(p, v) = DellSaid(q, v) \cup {i \in {n} : m.to = v /\ m.is = "dell" /\ m.dell # 0}
  BY <1>1 DEF DellSaid
<1>5. NvOf(p)[n] = m.nv /\ \A i \in DOMAIN q : NvOf(p)[i] = NvOf(q)[i]
  BY <1>1 DEF NvOf
<1>6. DellOf(p)[n] = m.dell /\ \A i \in DOMAIN q : DellOf(p)[i] = DellOf(q)[i]
  BY <1>1 DEF DellOf
<1>7. NvSaid(q, v) \in SUBSET (Nat \ {0}) /\ DellSaid(q, v) \in SUBSET (Nat \ {0})
  BY <1>1 DEF NvSaid, DellSaid
<1> QED
  BY <1>1, <1>2, <1>3, <1>4, <1>5, <1>6, <1>7 DEF p, n

\* The first of the answers leaves them.
LEMMA SaidTaken ==
  ASSUME NEW q \in Seq(Updates!LetterType), q # <<>>, NEW v
  PROVE  /\ NvSaid(Tail(q), v) \in SUBSET (Nat \ {0}) /\ NvSaid(q, v) \in SUBSET (Nat \ {0})
         /\ \A i \in Nat \ {0} : i \in NvSaid(Tail(q), v) <=> i + 1 \in NvSaid(q, v)
         /\ \A i \in NvSaid(Tail(q), v) : NvOf(Tail(q))[i] = NvOf(q)[i + 1]
         /\ NvOf(q)[1] = Head(q).nv
         /\ 1 \in NvSaid(q, v) <=> Head(q).to = v /\ Head(q).is \in {"settings", "nvidia"} /\ Head(q).nv # 0
         /\ DellSaid(Tail(q), v) \in SUBSET (Nat \ {0}) /\ DellSaid(q, v) \in SUBSET (Nat \ {0})
         /\ \A i \in Nat \ {0} : i \in DellSaid(Tail(q), v) <=> i + 1 \in DellSaid(q, v)
         /\ \A i \in DellSaid(Tail(q), v) : DellOf(Tail(q))[i] = DellOf(q)[i + 1]
         /\ DellOf(q)[1] = Head(q).dell
         /\ 1 \in DellSaid(q, v) <=> Head(q).to = v /\ Head(q).is = "dell" /\ Head(q).dell # 0
<1> DEFINE t == Tail(q)
           m == Head(q)
<1>1. /\ t \in Seq(Updates!LetterType) /\ 1 \in DOMAIN q /\ m = q[1] /\ DOMAIN q \subseteq Nat \ {0}
      /\ \A i : i \in DOMAIN t <=> i \in Nat \ {0} /\ i + 1 \in DOMAIN q
      /\ \A i \in DOMAIN t : t[i] = q[i + 1]
  BY LetterTaken
<1> HIDE DEF t, m
<1>2. NvSaid(t, v) \in SUBSET (Nat \ {0}) /\ NvSaid(q, v) \in SUBSET (Nat \ {0})
  BY <1>1 DEF NvSaid
<1>3. DellSaid(t, v) \in SUBSET (Nat \ {0}) /\ DellSaid(q, v) \in SUBSET (Nat \ {0})
  BY <1>1 DEF DellSaid
<1>4. \A i \in Nat \ {0} : i \in NvSaid(t, v) <=> i + 1 \in NvSaid(q, v)
  BY <1>1 DEF NvSaid
<1>5. \A i \in Nat \ {0} : i \in DellSaid(t, v) <=> i + 1 \in DellSaid(q, v)
  BY <1>1 DEF DellSaid
<1>6. \A i \in NvSaid(t, v) : NvOf(t)[i] = NvOf(q)[i + 1]
  BY <1>1 DEF NvSaid, NvOf
<1>7. \A i \in DellSaid(t, v) : DellOf(t)[i] = DellOf(q)[i + 1]
  BY <1>1 DEF DellSaid, DellOf
<1>8. NvOf(q)[1] = m.nv /\ DellOf(q)[1] = m.dell
  BY <1>1 DEF NvOf, DellOf
<1>9. 1 \in NvSaid(q, v) <=> m.to = v /\ m.is \in {"settings", "nvidia"} /\ m.nv # 0
  BY <1>1 DEF NvSaid
<1>10. 1 \in DellSaid(q, v) <=> m.to = v /\ m.is = "dell" /\ m.dell # 0
  BY <1>1 DEF DellSaid
<1> QED
  BY <1>2, <1>3, <1>4, <1>5, <1>6, <1>7, <1>8, <1>9, <1>10 DEF t, m

(***************************************************************************)
(* The tile of the Nvidia driver.                                          *)
(***************************************************************************)
LEMMA NvHas ==
  ASSUME Updates!NvFollows, "nv" \notin astray
  PROVE  LastWordIs(NvSaid(letters, visit), NvOf(letters), nvShown, nvCache)
<1>1. Updates!NvLetters = NvSaid(letters, visit)
  BY DEF Updates!NvLetters, NvSaid
<1>2. \A i \in NvSaid(letters, visit) : NvOf(letters)[i] = letters[i].nv
  BY DEF NvSaid, NvOf
<1> QED
  BY <1>1, <1>2 DEF Updates!NvFollows, LastWordIs

LEMMA NvMakes ==
  ASSUME "nv" \in astray' \/ LastWordIs(NvSaid(letters', visit'), NvOf(letters'), nvShown', nvCache')
  PROVE  Updates!NvFollows'
<1>1. Updates!NvLetters' = NvSaid(letters', visit')
  BY DEF Updates!NvLetters, NvSaid
<1>2. \A i \in NvSaid(letters', visit') : NvOf(letters')[i] = letters'[i].nv
  BY DEF NvSaid, NvOf
<1> QED
  BY <1>1, <1>2 DEF Updates!NvFollows, LastWordIs

LEMMA NvStays ==
  ASSUME Updates!NvFollows, "nv" \in astray => "nv" \in astray',
         UNCHANGED <<visit, letters, nvShown, nvCache>>
  PROVE  Updates!NvFollows'
  BY DEF Updates!NvFollows, Updates!NvLetters

\* An answer joins the others: what is kept, or nothing about the tile.
LEMMA NvSent ==
  ASSUME Updates!TypeOK, NEW m \in Updates!LetterType, letters' = Append(letters, m),
         visit' = visit, nvShown' = nvShown,
         \/ m.to = visit /\ m.is \in {"settings", "nvidia"} /\ m.nv # 0 /\ m.nv = nvCache'
         \/ /\ ~(m.to = visit /\ m.is \in {"settings", "nvidia"} /\ m.nv # 0)
            /\ "nv" \in astray => "nv" \in astray'
            /\ nvCache' = nvCache /\ Updates!NvFollows
  PROVE  Updates!NvFollows'
<1>0. letters \in Seq(Updates!LetterType)
  BY UpdatesHave
<1> DEFINE n == Len(letters) + 1
           said == NvSaid(letters, visit)
           speaks == m.to = visit /\ m.is \in {"settings", "nvidia"} /\ m.nv # 0
<1>1. /\ n \in Nat /\ said \in SUBSET Nat
      /\ \A i \in DOMAIN letters : i < n
      /\ NvSaid(letters', visit) = said \cup {i \in {n} : speaks}
      /\ NvOf(letters')[n] = m.nv
      /\ \A i \in DOMAIN letters : NvOf(letters')[i] = NvOf(letters)[i]
  BY <1>0, SaidAppended
<1>2. \A i \in said : i \in DOMAIN letters
  BY DEF NvSaid
<1>3. CASE speaks /\ m.nv = nvCache'
  <2>1. NvSaid(letters', visit) = said \cup {n}
    BY <1>1, <1>3
  <2>2. LastWordIs(said \cup {n}, NvOf(letters'), nvShown', nvCache')
    BY <1>1, <1>2, <1>3, LastWord
  <2> QED
    BY <2>1, <2>2, NvMakes
<1>4. CASE ~speaks
  <2>1. NvSaid(letters', visit) = said
    BY <1>1, <1>4
  <2>2. CASE "nv" \in astray
    BY <1>4, <2>2, NvMakes
  <2>3. CASE "nv" \notin astray
    <3>1. LastWordIs(said, NvOf(letters), nvShown, nvCache)
      BY <1>4, <2>3, NvHas
    <3>2. \A i \in said : NvOf(letters')[i] = NvOf(letters)[i]
      BY <1>1, <1>2
    <3>3. LastWordIs(said, NvOf(letters'), nvShown, nvCache)
      BY <3>1, <3>2, SameWords
    <3> QED
      BY <1>4, <2>1, <3>3, NvMakes
  <2> QED
    BY <2>2, <2>3
<1> QED
  BY <1>3, <1>4

LEMMA NvAnswersStep ==
  ASSUME Updates!TypeOK, Updates!NvFollows,
         NEW l \in DOMAIN readings, NEW ok \in BOOLEAN, Updates!ListAnswers(l, ok)
  PROVE  Updates!NvFollows'
<1> DEFINE r == readings[l]
           m == Updates!SettingsLetter(r.to)
<1>1. /\ letters' = IF r.then THEN Append(letters, m) ELSE letters
      /\ astray' = IF r.then /\ r.to = visit THEN Updates!Refreshed(astray) ELSE astray
      /\ UNCHANGED <<visit, nvShown, nvCache>>
  BY DEF Updates!ListAnswers
<1>2. r.to \in Nat
  BY UpdatesHave, ReadingHas DEF ReadingType
<1>3. m \in Updates!LetterType /\ m.to = r.to /\ m.is = "settings" /\ m.nv = nvCache
  BY <1>2, UpdateLetters DEF Updates!SettingsLetter, Updates!SafeNv
<1> HIDE DEF r, m
<1>4. CASE r.then
  <2>1. letters' = Append(letters, m)
    BY <1>1, <1>4
  <2>2. CASE r.to = visit /\ nvCache # 0
    BY <1>1, <1>3, <2>1, <2>2, NvSent
  <2>3. CASE ~(r.to = visit /\ nvCache # 0)
    <3>1. "nv" \in astray => "nv" \in astray'
      BY <1>1, <2>3 DEF Updates!Refreshed
    <3> QED
      BY <1>1, <1>3, <2>1, <2>3, <3>1, NvSent
  <2> QED
    BY <2>2, <2>3
<1>5. CASE ~r.then
  BY <1>1, <1>5, NvStays
<1> QED
  BY <1>4, <1>5

LEMMA NvEndsStep ==
  ASSUME Updates!TypeOK, Updates!NvFollows,
         NEW c \in nvChecks, NEW outcome \in {"cached", "uncached", "error"},
         Updates!NvidiaEnds(c, outcome)
  PROVE  Updates!NvFollows'
<1> DEFINE m == Updates!NvidiaLetter(c)
<1>1. UNCHANGED <<visit, nvShown>>
  BY DEF Updates!NvidiaEnds
<1>2. CASE outcome = "error"
  <2>1. UNCHANGED <<letters, nvCache>> /\ astray' = astray
    BY <1>2 DEF Updates!NvidiaEnds
  <2> QED
    BY <1>1, <2>1, NvStays
<1>3. CASE outcome = "cached" /\ c.of = visit
  <2>1. nvCache' = c.version /\ letters' = Append(letters, m)
    BY <1>3 DEF Updates!NvidiaEnds
  <2>2. c \in NvidiaChecks
    BY UpdatesHave
  <2>3. m \in Updates!LetterType
    BY <2>2, UpdatesHave, UpdateLetters
  <2>4. m.to = c.of /\ m.is = "nvidia" /\ m.nv = c.version /\ c.version # 0
    BY <2>2 DEF Updates!NvidiaLetter, NvidiaChecks
  <2> HIDE DEF m
  <2> QED
    BY <1>1, <1>3, <2>1, <2>3, <2>4, NvSent
<1>4. CASE outcome # "error" /\ ~(outcome = "cached" /\ c.of = visit)
  <2>1. "nv" \in astray'
    BY <1>4 DEF Updates!NvidiaEnds
  <2> QED
    BY <2>1, NvMakes
<1> QED
  BY <1>2, <1>3, <1>4

LEMMA NvArrivesStep ==
  ASSUME Updates!TypeOK, Updates!NvFollows, NEW ok \in BOOLEAN, Updates!LetterArrives(ok)
  PROVE  Updates!NvFollows'
<1>0. letters \in Seq(Updates!LetterType)
  BY UpdatesHave
<1> DEFINE m == Head(letters)
           q == Tail(letters)
           d == Updates!DellLetter(m.to)
           speaks == m.to = visit /\ m.is \in {"settings", "nvidia"} /\ m.nv # 0
<1>0a. speaks <=> m.to = visit /\ Updates!SaysNv(m)
  BY DEF Updates!SaysNv
<1>1. letters # <<>> /\ visit' = visit /\ nvCache' = nvCache
  BY DEF Updates!LetterArrives
<1>1a. ok => nvShown' = IF speaks THEN m.nv ELSE nvShown
  BY <1>0a DEF Updates!LetterArrives
<1>1b. ~ok => nvShown' = nvShown /\ (speaks => "nv" \in astray')
  BY <1>0a DEF Updates!LetterArrives, Updates!Unsaid
<1>2. letters' = IF m.is = "settings" THEN Append(q, d) ELSE q
  BY DEF Updates!LetterArrives
<1>3. "nv" \in astray => "nv" \in astray'
  BY DEF Updates!LetterArrives
<1>4. CASE "nv" \in astray \/ (speaks /\ ~ok)
  BY <1>1b, <1>3, <1>4, NvMakes
<1>5. CASE "nv" \notin astray /\ ~(speaks /\ ~ok)
  <2>0. nvShown' = IF speaks THEN m.nv ELSE nvShown
    BY <1>1a, <1>1b, <1>5
  <2>1. LastWordIs(NvSaid(letters, visit), NvOf(letters), nvShown, nvCache)
    BY <1>5, NvHas
  <2>2. /\ NvSaid(q, visit) \in SUBSET (Nat \ {0}) /\ NvSaid(letters, visit) \in SUBSET (Nat \ {0})
        /\ \A i \in Nat \ {0} : i \in NvSaid(q, visit) <=> i + 1 \in NvSaid(letters, visit)
        /\ \A i \in NvSaid(q, visit) : NvOf(q)[i] = NvOf(letters)[i + 1]
        /\ NvOf(letters)[1] = m.nv
        /\ 1 \in NvSaid(letters, visit) <=> speaks
    BY <1>0, <1>1, SaidTaken
  <2>3. q \in Seq(Updates!LetterType) /\ m \in Updates!LetterType
    BY <1>0, <1>1, LetterTaken
  <2>4. d \in Updates!LetterType /\ d.is = "dell"
    BY <2>3, LetterHas, UpdateLetters DEF Updates!DellLetter
  <2> HIDE DEF m, q, d
  <2>5. LastWordIs(NvSaid(q, visit), NvOf(q), nvShown', nvCache)
    BY ONLY <2>0, <2>1, <2>2, WordsTaken
  <2>6. NvSaid(letters', visit) = NvSaid(q, visit)
    <3>1. CASE letters' = q
      BY <3>1
    <3>2. CASE letters' = Append(q, d)
      <4>1. NvSaid(Append(q, d), visit) =
              NvSaid(q, visit) \cup {i \in {Len(q) + 1} :
                                       d.to = visit /\ d.is \in {"settings", "nvidia"} /\ d.nv # 0}
        BY <2>3, <2>4, SaidAppended
      <4> QED
        BY <2>4, <3>2, <4>1
    <3> QED
      BY <1>2, <3>1, <3>2
  <2>7. \A i \in NvSaid(q, visit) : NvOf(letters')[i] = NvOf(q)[i]
    <3>1. CASE letters' = q
      BY <3>1
    <3>2. CASE letters' = Append(q, d)
      <4>1. \A i \in DOMAIN q : NvOf(letters')[i] = NvOf(q)[i]
        BY <2>3, <2>4, <3>2, SaidAppended
      <4> QED
        BY <4>1 DEF NvSaid
    <3> QED
      BY <1>2, <3>1, <3>2
  <2>8. LastWordIs(NvSaid(q, visit), NvOf(letters'), nvShown', nvCache)
    BY <2>5, <2>7, SameWords
  <2> QED
    BY <1>1, <2>6, <2>8, NvMakes
<1> QED
  BY <1>4, <1>5

LEMMA NvComesBack ==
  ASSUME Updates!TypeOK, Updates!NothingComesEarly, Updates!ComeBack
  PROVE  Updates!NvFollows'
<1>0. letters \in Seq(Updates!LetterType) /\ visit \in Nat
  BY UpdatesHave
<1> DEFINE v == visit + 1
           m == Updates!SettingsLetter(v)
           n == Len(letters) + 1
<1>1. visit' = v /\ letters' = Append(letters, m) /\ nvShown' = 0 /\ nvCache' = nvCache
  BY DEF Updates!ComeBack
<1>2. \A i \in DOMAIN letters : letters[i].to # v
  <2>1. \A i \in DOMAIN letters : letters[i].to \in Nat /\ letters[i].to <= visit
    BY <1>0, LetterHas DEF Updates!NothingComesEarly
  <2> QED
    BY <1>0, <2>1
<1>3. v \in Nat
  BY <1>0
<1> HIDE DEF v
<1>4. m \in Updates!LetterType /\ m.nv = nvCache
  BY <1>3, UpdateLetters DEF Updates!SettingsLetter, Updates!SafeNv
<1>5. NvSaid(letters, v) = {}
  BY <1>2 DEF NvSaid
<1> HIDE DEF m
<1>6. /\ NvSaid(letters', v) \subseteq {n} /\ NvOf(letters')[n] = m.nv /\ n \in Nat
      /\ m.nv = 0 => NvSaid(letters', v) = {}
      /\ m.nv # 0 => NvSaid(letters', v) = {n} \/ NvSaid(letters', v) = {}
      /\ m.to = v /\ m.is = "settings" /\ m.nv # 0 => NvSaid(letters', v) = {n}
  BY <1>0, <1>1, <1>4, <1>5, SaidAppended
<1>7. m.to = v /\ m.is = "settings"
  BY DEF m, Updates!SettingsLetter
<1>8. LastWordIs(NvSaid(letters', v), NvOf(letters'), 0, nvCache)
  BY <1>4, <1>6, <1>7 DEF LastWordIs
<1> QED
  BY <1>1, <1>8, NvMakes

LEMMA NvInit == Updates!Init => Updates!NvFollows
<1> SUFFICES ASSUME Updates!Init PROVE Updates!NvFollows
  OBVIOUS
<1> DEFINE m == [is |-> "settings", to |-> 1, nv |-> 0]
<1>1. letters = <<m>> /\ nvShown = 0 /\ nvCache = 0
  BY DEF Updates!Init
<1>2. m.nv = 0
  OBVIOUS
<1> HIDE DEF m
<1>3. DOMAIN letters = {1} /\ letters[1] = m
  BY <1>1
<1>4. Updates!NvLetters = {}
  BY <1>2, <1>3 DEF Updates!NvLetters
<1> QED
  BY <1>1, <1>4 DEF Updates!NvFollows

LEMMA NvStep ==
  Updates!TypeOK /\ Updates!NothingComesEarly /\ Updates!NvFollows /\ [Updates!Next]_updatesVars
    => Updates!NvFollows'
<1> SUFFICES ASSUME Updates!TypeOK, Updates!NothingComesEarly, Updates!NvFollows,
                    [Updates!Next]_updatesVars
             PROVE  Updates!NvFollows'
  OBVIOUS
<1>1. CASE UNCHANGED updatesVars
  BY <1>1, NvStays DEF updatesVars
<1>2. CASE Updates!RefreshList
  <2>1. UNCHANGED <<visit, letters, nvShown, nvCache>>
    BY <1>2 DEF Updates!RefreshList
  <2>2. "nv" \in astray => "nv" \in astray'
    BY <1>2 DEF Updates!RefreshList, Updates!ListAstray
  <2> QED
    BY <2>1, <2>2, NvStays
<1>3. CASE Updates!CheckNvidia
  BY <1>3, NvStays DEF Updates!CheckNvidia
<1>4. ASSUME NEW ok \in BOOLEAN, Updates!LetterArrives(ok) PROVE Updates!NvFollows'
  BY <1>4, NvArrivesStep
<1>5. CASE Updates!ComeBack
  BY <1>5, NvComesBack
<1>6. ASSUME NEW a \in Updates!WuActions, Updates!ClickInstall(a) PROVE Updates!NvFollows'
  BY <1>6, NvStays DEF Updates!ClickInstall
<1>7. ASSUME NEW yes \in BOOLEAN, Updates!ConfirmInstall(yes) PROVE Updates!NvFollows'
  BY <1>7, NvStays DEF Updates!ConfirmInstall
<1>8. ASSUME NEW l \in DOMAIN readings, Updates!ListIsRead(l) PROVE Updates!NvFollows'
  BY <1>8, NvStays DEF Updates!ListIsRead
<1>9. ASSUME NEW l \in DOMAIN readings, NEW ok \in BOOLEAN, Updates!ListAnswers(l, ok)
      PROVE  Updates!NvFollows'
  BY <1>9, NvAnswersStep
<1>10. ASSUME NEW r \in installRuns, NEW ok \in BOOLEAN, Updates!InstallEnds(r, ok)
       PROVE  Updates!NvFollows'
  <2>1. UNCHANGED <<visit, letters, nvShown, nvCache>>
    BY <1>10 DEF Updates!InstallEnds
  <2>2. "nv" \in astray => "nv" \in astray'
    BY <1>10 DEF Updates!InstallEnds, Updates!ListAstray
  <2> QED
    BY <2>1, <2>2, NvStays
<1>11. ASSUME NEW c \in nvChecks, NEW outcome \in {"cached", "uncached", "error"},
              Updates!NvidiaEnds(c, outcome)
       PROVE  Updates!NvFollows'
  BY <1>11, NvEndsStep
<1> QED
  BY <1>1, <1>2, <1>3, <1>4, <1>5, <1>6, <1>7, <1>8, <1>9, <1>10, <1>11 DEF Updates!Next

(***************************************************************************)
(* The tile of the Dell driver.                                            *)
(***************************************************************************)
ReadingWillAsk == \E l \in Updates!UnderWay : readings[l].then
LetterWillAsk(q, v) == \E i \in DOMAIN q : q[i].to = v /\ q[i].is = "settings"
NeverRun(q) == \A i \in DOMAIN q : q[i].is = "dell" => q[i].dell = 0

LEMMA DellHas ==
  ASSUME Updates!DellFollows
  PROVE  /\ \/ "dell" \in astray
            \/ ReadingWillAsk
            \/ LetterWillAsk(letters, visit)
            \/ LastWordIs(DellSaid(letters, visit), DellOf(letters), dellShown, dellLog)
         /\ dellLog = 0 => dellShown = 0 /\ NeverRun(letters)
<1>1. Updates!DellLetters = DellSaid(letters, visit)
  BY DEF Updates!DellLetters, DellSaid
<1>2. \A i \in DellSaid(letters, visit) : DellOf(letters)[i] = letters[i].dell
  BY DEF DellSaid, DellOf
<1>3. Updates!DellWillBeAsked => ReadingWillAsk \/ LetterWillAsk(letters, visit)
  BY DEF Updates!DellWillBeAsked, ReadingWillAsk, LetterWillAsk
<1>4. dellLog = 0 => dellShown = 0 /\ NeverRun(letters)
  BY DEF Updates!DellFollows, NeverRun
<1> QED
  BY <1>1, <1>2, <1>3, <1>4 DEF Updates!DellFollows, LastWordIs

LEMMA DellMakes ==
  ASSUME \/ "dell" \in astray'
         \/ ReadingWillAsk'
         \/ LetterWillAsk(letters', visit')
         \/ LastWordIs(DellSaid(letters', visit'), DellOf(letters'), dellShown', dellLog'),
         dellLog' = 0 => dellShown' = 0 /\ NeverRun(letters')
  PROVE  Updates!DellFollows'
<1>1. Updates!DellLetters' = DellSaid(letters', visit')
  BY DEF Updates!DellLetters, DellSaid
<1>2. \A i \in DellSaid(letters', visit') : DellOf(letters')[i] = letters'[i].dell
  BY DEF DellSaid, DellOf
<1>3. ReadingWillAsk' \/ LetterWillAsk(letters', visit') => Updates!DellWillBeAsked'
  BY DEF Updates!DellWillBeAsked, ReadingWillAsk, LetterWillAsk
<1>4. dellLog' = 0 => dellShown' = 0 /\ \A i \in DOMAIN letters' : letters'[i].is = "dell" => letters'[i].dell = 0
  BY DEF NeverRun
<1>5. LastWordIs(DellSaid(letters', visit'), DellOf(letters'), dellShown', dellLog') =>
        /\ Updates!DellLetters' = {} => dellShown' = dellLog'
        /\ \A i \in Updates!DellLetters' :
             (\A j \in Updates!DellLetters' : j <= i) => letters'[i].dell = dellLog'
  BY <1>1, <1>2 DEF LastWordIs
<1> QED
  BY <1>3, <1>4, <1>5 DEF Updates!DellFollows

\* The answers and the log are as they were, and no reading gives up its question.
LEMMA DellStays ==
  ASSUME Updates!DellFollows, "dell" \in astray => "dell" \in astray',
         ReadingWillAsk => ReadingWillAsk', UNCHANGED <<visit, letters, dellShown, dellLog>>
  PROVE  Updates!DellFollows'
  BY DellHas, DellMakes

LEMMA ReadingsAskOn ==
  ASSUME UNCHANGED <<visit, readings>>
  PROVE  ReadingWillAsk' <=> ReadingWillAsk
  BY DEF ReadingWillAsk, Updates!UnderWay

LEMMA LoadAsks ==
  ASSUME readings \in Seq(ReadingType), visit' = visit, NEW to \in Nat, NEW then \in BOOLEAN,
         Updates!Load(to, then)
  PROVE  /\ ReadingWillAsk => ReadingWillAsk'
         /\ then /\ to = visit => ReadingWillAsk'
<1>1. PICK k \in Nat : /\ k \notin DOMAIN readings /\ DOMAIN readings' = DOMAIN readings \cup {k}
                       /\ readings'[k] = Updates!Reading(to, then)
                       /\ \A l \in DOMAIN readings : readings'[l] = readings[l]
  BY LoadAdds
<1>2. readings'[k].to = to /\ readings'[k].then = then
  BY <1>1 DEF Updates!Reading
<1>3. ReadingWillAsk => ReadingWillAsk'
  BY <1>1 DEF ReadingWillAsk, Updates!UnderWay
<1>4. ASSUME then, to = visit PROVE ReadingWillAsk'
  <2>1. k \in Updates!UnderWay' /\ readings'[k].then
    BY <1>1, <1>2, <1>4 DEF Updates!UnderWay
  <2> QED
    BY <2>1 DEF ReadingWillAsk
<1> QED
  BY <1>3, <1>4

\* An answer joins the others that is no answer about Dell.
LEMMA DellSent ==
  ASSUME Updates!TypeOK, Updates!DellFollows,
         NEW m \in Updates!LetterType, m.is # "dell", letters' = Append(letters, m),
         UNCHANGED <<visit, dellShown, dellLog>>, "dell" \in astray => "dell" \in astray',
         ReadingWillAsk => ReadingWillAsk' \/ (m.is = "settings" /\ m.to = visit)
  PROVE  Updates!DellFollows'
<1>0. letters \in Seq(Updates!LetterType)
  BY UpdatesHave
<1> DEFINE n == Len(letters) + 1
<1>1. /\ DellSaid(letters', visit) = DellSaid(letters, visit)
                \cup {i \in {n} : m.to = visit /\ m.is = "dell" /\ m.dell # 0}
      /\ \A i \in DOMAIN letters : DellOf(letters')[i] = DellOf(letters)[i]
      /\ \A i \in DOMAIN letters : letters'[i] = letters[i]
      /\ letters'[n] = m /\ DOMAIN letters' = DOMAIN letters \cup {n}
  BY <1>0, SaidAppended
<1>2. DellSaid(letters', visit) = DellSaid(letters, visit)
  BY <1>1
<1>3. LetterWillAsk(letters, visit) => LetterWillAsk(letters', visit)
  BY <1>1 DEF LetterWillAsk
<1>4. m.is = "settings" /\ m.to = visit => LetterWillAsk(letters', visit)
  BY <1>1 DEF LetterWillAsk
<1>5. NeverRun(letters) => NeverRun(letters')
  BY <1>1 DEF NeverRun
<1>6. LastWordIs(DellSaid(letters, visit), DellOf(letters), dellShown, dellLog) =>
        LastWordIs(DellSaid(letters', visit), DellOf(letters'), dellShown, dellLog)
  <2>1. \A i \in DellSaid(letters, visit) : DellOf(letters')[i] = DellOf(letters)[i]
    BY <1>1 DEF DellSaid
  <2> QED
    BY <1>2, <2>1, SameWords
<1> HIDE DEF n
<1>7. \/ "dell" \in astray'
      \/ ReadingWillAsk'
      \/ LetterWillAsk(letters', visit)
      \/ LastWordIs(DellSaid(letters', visit), DellOf(letters'), dellShown, dellLog)
  BY <1>3, <1>4, <1>6, DellHas
<1>8. dellLog = 0 => dellShown = 0 /\ NeverRun(letters')
  BY <1>5, DellHas
<1> QED
  BY <1>7, <1>8, DellMakes

LEMMA DellAnswersStep ==
  ASSUME Updates!TypeOK, Updates!DellFollows,
         NEW l \in DOMAIN readings, NEW ok \in BOOLEAN, Updates!ListAnswers(l, ok)
  PROVE  Updates!DellFollows'
<1>0. readings \in Seq(ReadingType)
  BY UpdatesHave
<1> DEFINE r == readings[l]
           m == Updates!SettingsLetter(r.to)
<1>1. /\ letters' = IF r.then THEN Append(letters, m) ELSE letters
      /\ UNCHANGED <<visit, dellShown, dellLog>>
  BY DEF Updates!ListAnswers
<1>2. readings' = [readings EXCEPT ![l] = Updates!Over]
  BY DEF Updates!ListAnswers
<1>3. "dell" \in astray => "dell" \in astray'
  BY DEF Updates!ListAnswers, Updates!Refreshed
<1>4. r.to \in Nat
  BY <1>0, ReadingHas DEF ReadingType
<1>5. m \in Updates!LetterType /\ m.to = r.to /\ m.is = "settings"
  BY <1>4, UpdateLetters DEF Updates!SettingsLetter
<1>6. Updates!Over \in ReadingType
  BY DEF Updates!Over, ReadingType
<1>7. /\ DOMAIN readings' = DOMAIN readings
      /\ \A k \in DOMAIN readings \ {l} : readings'[k] = readings[k]
  BY <1>0, <1>2, <1>6, ReadingMoves
<1> HIDE DEF r, m
<1>8. ReadingWillAsk => ReadingWillAsk' \/ (r.then /\ r.to = visit)
  BY <1>1, <1>7 DEF ReadingWillAsk, Updates!UnderWay, r
<1>9. CASE r.then
  <2>1. letters' = Append(letters, m)
    BY <1>1, <1>9
  <2> QED
    BY <1>1, <1>3, <1>5, <1>8, <2>1, DellSent
<1>10. CASE ~r.then
  <2>1. letters' = letters
    BY <1>1, <1>10
  <2> QED
    BY <1>1, <1>3, <1>8, <1>10, <2>1, DellStays
<1> QED
  BY <1>9, <1>10

LEMMA DellReadStep ==
  ASSUME Updates!TypeOK, Updates!DellFollows, NEW l \in DOMAIN readings, Updates!ListIsRead(l)
  PROVE  Updates!DellFollows'
<1>0. readings \in Seq(ReadingType) /\ installsDone \in Nat
  BY UpdatesHave
<1> DEFINE r == [readings[l] EXCEPT !.seen = installsDone]
<1>1. /\ readings' = [readings EXCEPT ![l] = r]
      /\ UNCHANGED <<visit, letters, dellShown, dellLog, astray>>
  BY DEF Updates!ListIsRead
<1>2. r \in ReadingType /\ r.to = readings[l].to /\ r.then = readings[l].then
  BY <1>0, ReadingHas DEF ReadingType
<1> HIDE DEF r
<1>3. /\ DOMAIN readings' = DOMAIN readings /\ readings'[l] = r
      /\ \A k \in DOMAIN readings \ {l} : readings'[k] = readings[k]
  BY <1>0, <1>1, <1>2, ReadingMoves
<1>4. \A k \in DOMAIN readings : readings'[k].to = readings[k].to /\ readings'[k].then = readings[k].then
  BY <1>2, <1>3
<1>5. ReadingWillAsk => ReadingWillAsk'
  BY <1>1, <1>3, <1>4 DEF ReadingWillAsk, Updates!UnderWay
<1> QED
  BY <1>1, <1>5, DellStays

\* An install that ends has the page ask again, or goes by it.
LEMMA DellInstallStep ==
  ASSUME Updates!TypeOK, Updates!DellFollows,
         NEW r \in installRuns, NEW ok \in BOOLEAN, Updates!InstallEnds(r, ok)
  PROVE  Updates!DellFollows'
<1>0. readings \in Seq(ReadingType) /\ installRuns \subseteq UpdateRuns
  BY UpdatesHave
<1>1. r.of \in Nat /\ r.run # 0
  BY <1>0 DEF UpdateRuns
<1>2. Updates!Load(r.of, TRUE) /\ UNCHANGED <<visit, letters, dellShown>>
  BY DEF Updates!InstallEnds
<1>3. dellLog' = r.run \/ dellLog' = dellLog
  BY DEF Updates!InstallEnds
<1>4. dellLog' = 0 => dellShown' = 0 /\ NeverRun(letters')
  BY <1>1, <1>2, <1>3, DellHas
<1>5. CASE r.of = visit
  <2>1. ReadingWillAsk'
    BY <1>0, <1>1, <1>2, <1>5, LoadAsks
  <2> QED
    BY <1>4, <2>1, DellMakes
<1>6. CASE r.of # visit
  <2>1. "dell" \in astray'
    BY <1>6 DEF Updates!InstallEnds
  <2> QED
    BY <1>4, <2>1, DellMakes
<1> QED
  BY <1>5, <1>6

LEMMA DellEndsStep ==
  ASSUME Updates!TypeOK, Updates!DellFollows,
         NEW c \in nvChecks, NEW outcome \in {"cached", "uncached", "error"},
         Updates!NvidiaEnds(c, outcome)
  PROVE  Updates!DellFollows'
<1> DEFINE m == Updates!NvidiaLetter(c)
<1>1. UNCHANGED <<visit, readings, dellShown, dellLog>>
  BY DEF Updates!NvidiaEnds
<1>2. "dell" \in astray => "dell" \in astray'
  BY DEF Updates!NvidiaEnds
<1>3. ReadingWillAsk => ReadingWillAsk'
  BY <1>1, ReadingsAskOn
<1>4. CASE outcome = "error"
  <2>1. letters' = letters
    BY <1>4 DEF Updates!NvidiaEnds
  <2> QED
    BY <1>1, <1>2, <1>3, <2>1, DellStays
<1>5. CASE outcome # "error"
  <2>1. letters' = Append(letters, m)
    BY <1>5 DEF Updates!NvidiaEnds
  <2>2. m \in Updates!LetterType /\ m.is = "nvidia"
    BY UpdatesHave, UpdateLetters DEF Updates!NvidiaLetter
  <2> HIDE DEF m
  <2> QED
    BY <1>1, <1>2, <1>3, <2>1, <2>2, DellSent
<1> QED
  BY <1>4, <1>5

\* The page that is opened anew asks for the settings, and will ask for Dell.
LEMMA DellComesBack ==
  ASSUME Updates!TypeOK, Updates!DellFollows, Updates!ComeBack
  PROVE  Updates!DellFollows'
<1>0. letters \in Seq(Updates!LetterType) /\ visit \in Nat
  BY UpdatesHave
<1> DEFINE v == visit + 1
           m == Updates!SettingsLetter(v)
           n == Len(letters) + 1
<1>1. visit' = v /\ letters' = Append(letters, m) /\ dellShown' = 0 /\ dellLog' = dellLog
  BY DEF Updates!ComeBack
<1>2. v \in Nat
  BY <1>0
<1> HIDE DEF v
<1>3. m \in Updates!LetterType /\ m.to = v /\ m.is = "settings"
  BY <1>2, UpdateLetters DEF Updates!SettingsLetter
<1> HIDE DEF m
<1>4. /\ DOMAIN letters' = DOMAIN letters \cup {n} /\ letters'[n] = m
      /\ \A i \in DOMAIN letters : letters'[i] = letters[i]
  BY <1>0, <1>1, <1>3, LetterAppended
<1>5. LetterWillAsk(letters', visit')
  BY <1>1, <1>3, <1>4 DEF LetterWillAsk
<1>6. NeverRun(letters) => NeverRun(letters')
  BY <1>3, <1>4 DEF NeverRun
<1> QED
  BY <1>1, <1>5, <1>6, DellHas, DellMakes

\* The answer of the settings has the page ask for the Dell run; that of Dell shows it.
LEMMA DellArrivesStep ==
  ASSUME Updates!TypeOK, Updates!DellFollows, NEW ok \in BOOLEAN, Updates!LetterArrives(ok)
  PROVE  Updates!DellFollows'
<1>0. letters \in Seq(Updates!LetterType)
  BY UpdatesHave
<1> DEFINE m == Head(letters)
           q == Tail(letters)
           d == Updates!DellLetter(m.to)
           n == Len(q) + 1
           speaks == m.to = visit /\ m.is = "dell" /\ m.dell # 0
<1>0a. speaks <=> m.to = visit /\ Updates!SaysDell(m)
  BY DEF Updates!SaysDell
<1>1. letters # <<>> /\ visit' = visit /\ dellLog' = dellLog
  BY DEF Updates!LetterArrives
<1>1a. ok => dellShown' = IF speaks THEN m.dell ELSE dellShown
  BY <1>0a DEF Updates!LetterArrives
<1>1b. ~ok => dellShown' = dellShown /\ (speaks => "dell" \in astray')
  BY <1>0a DEF Updates!LetterArrives, Updates!Unsaid
<1>2. letters' = IF m.is = "settings" THEN Append(q, d) ELSE q
  BY DEF Updates!LetterArrives
<1>3. "dell" \in astray /\ ~(m.is = "settings" /\ m.to = visit) => "dell" \in astray'
  BY DEF Updates!LetterArrives
<1>4. ReadingWillAsk => ReadingWillAsk'
  <2>1. UNCHANGED <<visit, readings>>
    BY DEF Updates!LetterArrives
  <2> QED
    BY <2>1, ReadingsAskOn
<1>5. /\ q \in Seq(Updates!LetterType) /\ m \in Updates!LetterType
      /\ 1 \in DOMAIN letters /\ m = letters[1] /\ DOMAIN letters \subseteq Nat \ {0}
      /\ \A i : i \in DOMAIN q <=> i \in Nat \ {0} /\ i + 1 \in DOMAIN letters
      /\ \A i \in DOMAIN q : q[i] = letters[i + 1]
  BY <1>0, <1>1, LetterTaken
<1>6. d \in Updates!LetterType /\ d.is = "dell" /\ d.to = m.to /\ d.dell = dellLog
  BY <1>5, LetterHas, UpdateLetters DEF Updates!DellLetter
<1>7. /\ DellSaid(q, visit) \in SUBSET (Nat \ {0}) /\ DellSaid(letters, visit) \in SUBSET (Nat \ {0})
      /\ \A i \in Nat \ {0} : i \in DellSaid(q, visit) <=> i + 1 \in DellSaid(letters, visit)
      /\ \A i \in DellSaid(q, visit) : DellOf(q)[i] = DellOf(letters)[i + 1]
      /\ DellOf(letters)[1] = m.dell
      /\ 1 \in DellSaid(letters, visit) <=> speaks
  BY <1>0, <1>1, SaidTaken
<1> HIDE DEF m, q, d
<1>8. /\ n \in Nat /\ \A i \in DOMAIN q : i < n
      /\ DOMAIN Append(q, d) = DOMAIN q \cup {n} /\ Append(q, d)[n] = d
      /\ \A i \in DOMAIN q : Append(q, d)[i] = q[i]
      /\ DellSaid(Append(q, d), visit) =
           DellSaid(q, visit) \cup {i \in {n} : d.to = visit /\ d.is = "dell" /\ d.dell # 0}
      /\ DellOf(Append(q, d))[n] = d.dell
      /\ \A i \in DOMAIN q : DellOf(Append(q, d))[i] = DellOf(q)[i]
  <2>1. /\ n \in Nat /\ \A i \in DOMAIN q : i < n
        /\ DOMAIN Append(q, d) = DOMAIN q \cup {n} /\ Append(q, d)[n] = d
        /\ \A i \in DOMAIN q : Append(q, d)[i] = q[i]
    BY <1>5, <1>6, SaidAppended
  <2>2. DellSaid(Append(q, d), visit) =
          DellSaid(q, visit) \cup {i \in {n} : d.to = visit /\ d.is = "dell" /\ d.dell # 0}
    BY <1>5, <1>6, SaidAppended
  <2>3. /\ DellOf(Append(q, d))[n] = d.dell
        /\ \A i \in DOMAIN q : DellOf(Append(q, d))[i] = DellOf(q)[i]
    BY <1>5, <1>6, SaidAppended
  <2> QED
    BY <2>1, <2>2, <2>3
<1> HIDE DEF n
<1>9. dellLog' = 0 => dellShown' = 0 /\ NeverRun(letters')
  <2> SUFFICES ASSUME dellLog = 0 PROVE dellShown' = 0 /\ NeverRun(letters')
    BY <1>1
  <2>1. dellShown = 0 /\ NeverRun(letters)
    BY DellHas
  <2>2. dellShown' = 0
    BY <1>1a, <1>1b, <1>5, <2>1 DEF NeverRun
  <2>3. NeverRun(q)
    BY <1>5, <2>1 DEF NeverRun
  <2>4. NeverRun(Append(q, d))
    BY <1>6, <1>8, <2>3 DEF NeverRun
  <2> QED
    BY <1>2, <2>2, <2>3, <2>4
<1>10. CASE m.is = "settings" /\ m.to = visit
  <2>1. letters' = Append(q, d) /\ dellShown' = dellShown
    BY <1>1a, <1>1b, <1>2, <1>10
  <2>2. CASE dellLog # 0
    <3>1. DellSaid(letters', visit) = DellSaid(q, visit) \cup {n}
      BY <1>6, <1>8, <1>10, <2>1, <2>2
    <3>2. \A i \in DellSaid(q, visit) : i < n
      BY <1>8 DEF DellSaid
    <3>3. DellSaid(q, visit) \in SUBSET Nat /\ DellOf(letters')[n] = dellLog
      BY <1>6, <1>7, <1>8, <2>1
    <3>4. LastWordIs(DellSaid(q, visit) \cup {n}, DellOf(letters'), dellShown', dellLog)
      BY <1>8, <3>2, <3>3, LastWord
    <3> QED
      BY <1>1, <1>9, <3>1, <3>4, DellMakes
  <2>3. CASE dellLog = 0
    <3>1. dellShown' = 0 /\ NeverRun(letters')
      BY <1>1, <1>9, <2>3
    <3>2. DellSaid(letters', visit) = {}
      BY <3>1 DEF NeverRun, DellSaid
    <3>3. LastWordIs(DellSaid(letters', visit), DellOf(letters'), dellShown', dellLog)
      BY <2>3, <3>1, <3>2 DEF LastWordIs
    <3> QED
      BY <1>1, <1>9, <3>3, DellMakes
  <2> QED
    BY <2>2, <2>3
<1>11. CASE ~ok /\ speaks
  BY <1>1b, <1>9, <1>11, DellMakes
<1>12. CASE ~(m.is = "settings" /\ m.to = visit) /\ ~(~ok /\ speaks)
  <2>0. dellShown' = IF speaks THEN m.dell ELSE dellShown
    BY <1>1a, <1>1b, <1>12
  <2>1. "dell" \in astray => "dell" \in astray'
    BY <1>3, <1>12
  <2>2. LetterWillAsk(letters, visit) => LetterWillAsk(q, visit)
    <3> SUFFICES ASSUME LetterWillAsk(letters, visit) PROVE LetterWillAsk(q, visit)
      OBVIOUS
    <3>1. PICK i \in DOMAIN letters : letters[i].to = visit /\ letters[i].is = "settings"
      BY DEF LetterWillAsk
    <3>2. i # 1 /\ i \in Nat \ {0}
      BY <1>5, <1>12, <3>1
    <3>3. i - 1 \in Nat \ {0} /\ (i - 1) + 1 = i
      BY <3>2
    <3>4. i - 1 \in DOMAIN q /\ q[i - 1] = letters[i]
      BY <1>5, <3>1, <3>3
    <3> QED
      BY <3>1, <3>4 DEF LetterWillAsk
  <2>3. LetterWillAsk(q, visit) => LetterWillAsk(letters', visit)
    <3>1. LetterWillAsk(q, visit) => LetterWillAsk(Append(q, d), visit)
      BY <1>8 DEF LetterWillAsk
    <3> QED
      BY <1>2, <3>1
  <2>4. ASSUME LastWordIs(DellSaid(letters, visit), DellOf(letters), dellShown, dellLog)
        PROVE  LastWordIs(DellSaid(letters', visit), DellOf(letters'), dellShown', dellLog)
    <3>1. LastWordIs(DellSaid(q, visit), DellOf(q), dellShown', dellLog)
      BY ONLY <2>0, <1>7, <2>4, WordsTaken
    <3>2. CASE m.is # "settings"
      BY <1>2, <3>1, <3>2
    <3>3. CASE m.is = "settings"
      <4>1. letters' = Append(q, d) /\ m.to # visit
        BY <1>2, <1>12, <3>3
      <4>2. DellSaid(letters', visit) = DellSaid(q, visit)
        BY <1>6, <1>8, <4>1
      <4>3. \A i \in DellSaid(q, visit) : DellOf(letters')[i] = DellOf(q)[i]
        BY <1>8, <4>1 DEF DellSaid
      <4> QED
        BY <3>1, <4>2, <4>3, SameWords
    <3> QED
      BY <3>2, <3>3
  <2>5. \/ "dell" \in astray'
        \/ ReadingWillAsk'
        \/ LetterWillAsk(letters', visit)
        \/ LastWordIs(DellSaid(letters', visit), DellOf(letters'), dellShown', dellLog)
    BY <1>4, <2>1, <2>2, <2>3, <2>4, DellHas
  <2> QED
    BY <1>1, <1>9, <2>5, DellMakes
<1> QED
  BY <1>10, <1>11, <1>12

LEMMA DellInit == Updates!Init => Updates!DellFollows
<1> SUFFICES ASSUME Updates!Init PROVE Updates!DellFollows
  OBVIOUS
<1> DEFINE m == [is |-> "settings", to |-> 1, nv |-> 0]
<1>1. letters = <<m>> /\ dellShown = 0 /\ dellLog = 0
  BY DEF Updates!Init
<1>2. m.is = "settings"
  OBVIOUS
<1> HIDE DEF m
<1>3. DOMAIN letters = {1} /\ letters[1] = m
  BY <1>1
<1>4. Updates!DellLetters = {}
  BY <1>2, <1>3 DEF Updates!DellLetters
<1>5. \A i \in DOMAIN letters : letters[i].is # "dell"
  BY <1>2, <1>3
<1> QED
  BY <1>1, <1>4, <1>5 DEF Updates!DellFollows

LEMMA DellStep ==
  Updates!TypeOK /\ Updates!DellFollows /\ [Updates!Next]_updatesVars => Updates!DellFollows'
<1> SUFFICES ASSUME Updates!TypeOK, Updates!DellFollows, [Updates!Next]_updatesVars
             PROVE  Updates!DellFollows'
  OBVIOUS
<1>0. readings \in Seq(ReadingType) /\ visit \in Nat
  BY UpdatesHave
<1>1. CASE UNCHANGED updatesVars
  BY <1>1, ReadingsAskOn, DellStays DEF updatesVars
<1>2. CASE Updates!RefreshList
  <2>1. Updates!Load(visit, FALSE) /\ UNCHANGED <<visit, letters, dellShown, dellLog>>
    BY <1>2 DEF Updates!RefreshList
  <2>2. "dell" \in astray => "dell" \in astray'
    BY <1>2 DEF Updates!RefreshList, Updates!ListAstray
  <2>3. ReadingWillAsk => ReadingWillAsk'
    BY <1>0, <2>1, LoadAsks
  <2> QED
    BY <2>1, <2>2, <2>3, DellStays
<1>3. CASE Updates!CheckNvidia
  BY <1>3, ReadingsAskOn, DellStays DEF Updates!CheckNvidia
<1>4. ASSUME NEW ok \in BOOLEAN, Updates!LetterArrives(ok) PROVE Updates!DellFollows'
  BY <1>4, DellArrivesStep
<1>5. CASE Updates!ComeBack
  BY <1>5, DellComesBack
<1>6. ASSUME NEW a \in Updates!WuActions, Updates!ClickInstall(a) PROVE Updates!DellFollows'
  BY <1>6, ReadingsAskOn, DellStays DEF Updates!ClickInstall
<1>7. ASSUME NEW yes \in BOOLEAN, Updates!ConfirmInstall(yes) PROVE Updates!DellFollows'
  BY <1>7, ReadingsAskOn, DellStays DEF Updates!ConfirmInstall
<1>8. ASSUME NEW l \in DOMAIN readings, Updates!ListIsRead(l) PROVE Updates!DellFollows'
  BY <1>8, DellReadStep
<1>9. ASSUME NEW l \in DOMAIN readings, NEW ok \in BOOLEAN, Updates!ListAnswers(l, ok)
      PROVE  Updates!DellFollows'
  BY <1>9, DellAnswersStep
<1>10. ASSUME NEW r \in installRuns, NEW ok \in BOOLEAN, Updates!InstallEnds(r, ok)
       PROVE  Updates!DellFollows'
  BY <1>10, DellInstallStep
<1>11. ASSUME NEW c \in nvChecks, NEW outcome \in {"cached", "uncached", "error"},
              Updates!NvidiaEnds(c, outcome)
       PROVE  Updates!DellFollows'
  BY <1>11, DellEndsStep
<1> QED
  BY <1>1, <1>2, <1>3, <1>4, <1>5, <1>6, <1>7, <1>8, <1>9, <1>10, <1>11 DEF Updates!Next

(***************************************************************************)
(* The page Windows Updates.                                               *)
(***************************************************************************)
LEMMA UpdatesInit == Updates!Init => Updates!UpdatesInv
  BY UpdatesTypesInit, EarlyInit, ListInit, NvInit, DellInit DEF Updates!UpdatesInv

LEMMA UpdatesStep == Updates!UpdatesInv /\ [Updates!Next]_updatesVars => Updates!UpdatesInv'
  BY UpdatesTypesStep, EarlyStep, ListStep, NvStep, DellStep DEF Updates!UpdatesInv

LEMMA UpdatesAreTrue == Updates!UpdatesInv => Updates!PageIsUpToDate
<1> SUFFICES ASSUME Updates!UpdatesInv, Updates!Settled PROVE Updates!PageIsUpToDate
  BY DEF Updates!PageIsUpToDate
<1>1. Updates!UnderWay = {} /\ letters = <<>>
  BY DEF Updates!Settled
<1>2. DOMAIN letters = {}
  BY <1>1
<1>3. "list" \in astray \/ listFailed \/ listShown = installsDone
  BY <1>1 DEF Updates!UpdatesInv, Updates!ListFollows
<1>4. "nv" \in astray \/ nvShown = nvCache
  BY <1>2 DEF Updates!UpdatesInv, Updates!NvFollows, Updates!NvLetters
<1>5. "dell" \in astray \/ dellShown = dellLog
  <2>1. ~Updates!DellWillBeAsked
    BY <1>1, <1>2 DEF Updates!DellWillBeAsked
  <2>2. Updates!DellLetters = {}
    BY <1>2 DEF Updates!DellLetters
  <2> QED
    BY <2>1, <2>2 DEF Updates!UpdatesInv, Updates!DellFollows
<1> QED
  BY <1>3, <1>4, <1>5 DEF Updates!PageIsUpToDate

(***************************************************************************)
(* What the window keeps.                                                   *)
(***************************************************************************)

\* What each of the parts keeps.
PartsInv ==
  /\ MigrationInv /\ Terminal!TerminalsInv /\ Install!InstallsInv
  /\ Wizard!WizardInv /\ Setting!SettingInv /\ Nas!NasInv
  /\ Process!ProcessInv /\ Action!ActionInv /\ Rules!RulesInv
  /\ Picker!PickerInv /\ Review!ReviewInv

LEMMA PartsInit == Init => PartsInv
<1> SUFFICES ASSUME Init PROVE PartsInv
  OBVIOUS
<1>1. /\ StInit /\ Terminal!Init /\ Install!Init /\ Wizard!Init /\ Setting!Init /\ Nas!Init
      /\ Process!Init /\ Action!Init /\ Rules!Init /\ Picker!Init /\ Review!Init
  BY Zenon DEF Init
<1>2. /\ MigrationInv /\ Terminal!TerminalsInv /\ Install!InstallsInv
      /\ Wizard!WizardInv /\ Setting!SettingInv /\ Nas!NasInv
  BY <1>1, MigrationInit, TerminalInit, InstallInit, WizardInit, SettingInit, NasInit
<1>3. /\ Process!ProcessInv /\ Action!ActionInv /\ Rules!RulesInv
      /\ Picker!PickerInv /\ Review!ReviewInv
  BY <1>1, ProcessInit, ActionInit, RulesInit, PickerInit, ReviewInit
<1> QED
  BY <1>2, <1>3 DEF PartsInv

LEMMA PartsStep == PartsInv /\ [Next]_vars => PartsInv'
<1> SUFFICES ASSUME PartsInv, [Next]_vars PROVE PartsInv'
  OBVIOUS
<1>1. /\ [StNext]_stVars /\ [Terminal!Next]_terminalVars /\ [Install!Next]_installVars
      /\ [Wizard!Next]_wizardVars /\ [Setting!Next]_settingVars /\ [Nas!Next]_nasVars
      /\ [Process!Next]_processVars /\ [Action!Next]_actionVars /\ [Rules!Next]_rulesVars
      /\ [Picker!Next]_pickerVars /\ [Review!Next]_reviewVars
  BY Apart, Zenon
<1>2. /\ MigrationInv /\ Terminal!TerminalsInv /\ Install!InstallsInv
      /\ Wizard!WizardInv /\ Setting!SettingInv /\ Nas!NasInv
      /\ Process!ProcessInv /\ Action!ActionInv /\ Rules!RulesInv
      /\ Picker!PickerInv /\ Review!ReviewInv
  BY DEF PartsInv
<1>3. MigrationInv'
  BY <1>1, <1>2, MigrationStep
<1>4. Terminal!TerminalsInv'
  BY <1>1, <1>2, TerminalStep
<1>5. Install!InstallsInv'
  BY <1>1, <1>2, InstallStep
<1>6. Wizard!WizardInv'
  BY <1>1, <1>2, WizardStep
<1>7. Setting!SettingInv'
  BY <1>1, <1>2, SettingStep
<1>8. Nas!NasInv'
  BY <1>1, <1>2, NasStep
<1>9. Process!ProcessInv'
  BY <1>1, <1>2, ProcessStep
<1>10. Action!ActionInv'
  BY <1>1, <1>2, ActionStep
<1>11. Rules!RulesInv'
  BY <1>1, <1>2, RulesStep
<1>12. Picker!PickerInv'
  BY <1>1, <1>2, PickerStep
<1>13. Review!ReviewInv'
  BY <1>1, <1>2, ReviewStep
<1> QED
  BY <1>3, <1>4, <1>5, <1>6, <1>7, <1>8, <1>9, <1>10, <1>11, <1>12, <1>13 DEF PartsInv

\* The parts keep what they keep beside each other.
THEOREM PartsInvariance == Spec => []PartsInv
<1>1. Init => PartsInv
  BY PartsInit
<1>2. PartsInv /\ [Next]_vars => PartsInv'
  BY PartsStep
<1> QED
  BY <1>1, <1>2, PTL DEF Spec

\* The window has the start of the application beside its pages (main.ts): whatever they do,
\* a marker that lets a launch skip the elevated registration is honest.
THEOREM WindowKeepsMarkers == Spec => []MarkerIsHonest
<1>1. PartsInv => MarkerIsHonest
  BY DEF PartsInv, MigrationInv
<1> QED
  BY <1>1, PartsInvariance, PTL

\* Terminals.tsx and Tools.tsx: a context goes to its own terminal, no process of a terminal
\* is lost while it is reachable, and the installs of the page run one after the other.
THEOREM ProgramsStayInHand == Spec => []ProgramsAreInHand
<1>1. PartsInv => ProgramsAreInHand
  <2> SUFFICES ASSUME PartsInv PROVE ProgramsAreInHand
    OBVIOUS
  <2>1. Terminal!ContextGoesHome /\ Terminal!Reachable
    BY DEF PartsInv, Terminal!TerminalsInv
  <2>2. Install!OneInstallOfThePage
    BY InstallsOneByOne DEF PartsInv
  <2> QED
    BY <2>1, <2>2 DEF ProgramsAreInHand
<1> QED
  BY <1>1, PartsInvariance, PTL

\* What the user chose is what is stored (WizardShell.tsx with its steps, Settings.tsx and the
\* NAS panel), in whatever order saves, fetches, failures and restarts come, but for what the
\* wizard has stored under a page that is still mounted.
THEOREM ChoicesStay == Spec => []ChoicesAreKept
<1>1. PartsInv => ChoicesAreKept
  <2> SUFFICES ASSUME PartsInv PROVE ChoicesAreKept
    OBVIOUS
  <2>1. Wizard!ChoicesAreKept /\ Wizard!LastWordIsStored
    BY WizardKeeps DEF PartsInv
  <2>2. Setting!ShownIsStored
    BY SettingShown DEF PartsInv
  <2>3. Nas!OneShareOfADrive /\ Nas!MirrorIsStored /\ Nas!CleanIsStored
    BY DEF PartsInv, Nas!NasInv
  <2> QED
    BY <2>1, <2>2, <2>3 DEF ChoicesAreKept
<1> QED
  BY <1>1, PartsInvariance, PTL

\* Nothing runs, is switched or is dropped that the user has not agreed to (Processes.tsx,
\* AlertCard.tsx, Autopilot.tsx, StartupPickerModal.tsx, WeeklyReview.tsx): what each of the
\* pages asks of a step holds of every step of the window, as it is a step of that page or
\* leaves the page alone.  A card whose effect is due is excepted.
THEOREM NothingHappensUnasked == Spec => NothingWithoutConsent
<1>1. PartsInv /\ [Next]_vars =>
        [\A a \in actions :
           /\ a.is \in {"kill", "suspend"} /\ a.ok = "asked"
           /\ [a EXCEPT !.ok = "ok"] \in actions'
           /\ <<a.pid, alive[a.pid]>> \in Critical
           => a.understood \/ alive[a.pid] # a.gen]_(Process!vars)
  <2> SUFFICES ASSUME PartsInv
               PROVE  \A a \in actions :
                        /\ a.is \in {"kill", "suspend"} /\ a.ok = "asked"
                        /\ [a EXCEPT !.ok = "ok"] \in actions'
                        /\ <<a.pid, alive[a.pid]>> \in Critical
                        => a.understood \/ alive[a.pid] # a.gen
    OBVIOUS
  <2> QED
    BY ProcessConsent DEF PartsInv
<1>2. PartsInv /\ [Next]_vars =>
        [\A f \in Action!Flows :
           flows[f] = Action!NoFlow /\ flows'[f].by = "card" =>
             flows'[f].action \in skipped \/ flows'[f].card \in due]_(Action!vars)
  BY Apart, ActionStep DEF PartsInv, CardsAgree
<1>3. PartsInv /\ [Next]_vars =>
        [\A r \in RuleIds : ruleOn'[r] # ruleOn[r] /\ "absent" \notin {ruleOn[r], ruleOn'[r]} =>
           \E o \in Rules!Orders :
             /\ orders[o] # Rules!NoOrder /\ orders[o].is = "enable" /\ orders[o].rule = r
             /\ orders[o].value = ruleOn'[r] /\ orders[o].at = "asked"
             /\ orders'[o].at = "success"]_(Rules!rulesVars)
  BY Apart, RulesStep DEF PartsInv, OrderSwitches
<1>4. PartsInv /\ [Next]_vars =>
        /\ [\A i \in autostart \ autostart' : i \in Protected => i \in ticked]_(Picker!pickerVars)
        /\ [configCame => allowed \ allowed' \subseteq starred]_(Picker!pickerVars)
  BY Apart, PickerStep DEF PartsInv, PickerAgrees
<1>5. PartsInv /\ [Next]_vars =>
        [\A d \in Review!Dates :
           itemStates'[d] # itemStates[d] => <<d, itemStates'[d]>> \in given]_(Review!reviewVars)
  BY Apart, ReviewStep DEF PartsInv, GivenOnly
<1>6. Spec => Process!CriticalIsConfirmed
  BY <1>1, PartsInvariance, PTL DEF Spec, Process!CriticalIsConfirmed
<1>7. Spec => Action!RunsWithConsent
  BY <1>2, PartsInvariance, PTL DEF Spec, Action!RunsWithConsent
<1>8. Spec => Rules!OnlyTheUserSwitches
  BY <1>3, PartsInvariance, PTL DEF Spec, Rules!OnlyTheUserSwitches
<1>9. Spec => Picker!ProtectedStays /\ Picker!AllowlistIsKept
  BY <1>4, PartsInvariance, PTL DEF Spec, Picker!ProtectedStays, Picker!AllowlistIsKept
<1>10. Spec => Review!StatesGoHome
  BY <1>5, PartsInvariance, PTL DEF Spec, Review!StatesGoHome
<1> QED
  BY <1>6, <1>7, <1>8, <1>9, <1>10 DEF NothingWithoutConsent

(***************************************************************************)
(* What the pages say.                                                     *)
(***************************************************************************)

\* What the parts keep about what they show.
TruthInv ==
  /\ Tool!ToolInv /\ Update!UpdateInv /\ Undo!UndoInv
  /\ Rules!BoxesFollow /\ Review!ReviewFollows /\ Updates!UpdatesInv

LEMMA TruthInit == Init => TruthInv
<1> SUFFICES ASSUME Init PROVE TruthInv
  OBVIOUS
<1>1. /\ Tool!Init /\ Update!Init /\ Undo!Init /\ Rules!Init /\ Review!Init /\ Updates!Init
  BY Zenon DEF Init
<1> QED
  BY <1>1, ToolInit, UpdateInit, UndoInit, BoxesInit, FollowsInit, UpdatesInit DEF TruthInv

LEMMA TruthStep == PartsInv /\ TruthInv /\ [Next]_vars => TruthInv'
<1> SUFFICES ASSUME PartsInv, TruthInv, [Next]_vars PROVE TruthInv'
  OBVIOUS
<1>1. /\ [Tool!Next]_toolVars /\ [Update!Next]_updateVars /\ [Undo!Next]_servicesVars
      /\ [Rules!Next]_rulesVars /\ [Review!Next]_reviewVars /\ [Updates!Next]_updatesVars
  BY Apart, Zenon
<1>2. Rules!RulesInv /\ Review!ReviewInv
  BY DEF PartsInv
<1>3. /\ Tool!ToolInv /\ Update!UpdateInv /\ Undo!UndoInv
      /\ Rules!BoxesFollow /\ Review!ReviewFollows /\ Updates!UpdatesInv
  BY DEF TruthInv
<1>4. Tool!ToolInv'
  BY <1>1, <1>3, ToolStep
<1>5. Update!UpdateInv'
  BY <1>1, <1>3, UpdateStep
<1>6. Undo!UndoInv'
  BY <1>1, <1>3, UndoStep DEF UndoIsTrue
<1>7. Rules!BoxesFollow'
  BY <1>1, <1>2, <1>3, BoxesStep
<1>8. Review!ReviewFollows'
  BY <1>1, <1>2, <1>3, FollowsStep
<1>9. Updates!UpdatesInv'
  BY <1>1, <1>3, UpdatesStep
<1> QED
  BY <1>4, <1>5, <1>6, <1>7, <1>8, <1>9 DEF TruthInv

\* What the launches, the updater, the undo, the rules, the review and the updates keep
\* about what they show (toolLauncher.ts, updater.ts, UndoCenter.tsx, Autopilot.tsx,
\* WeeklyReview.tsx, Updates.tsx).
THEOREM TruthInvariance == Spec => []TruthInv
<1>1. Init => TruthInv
  BY TruthInit
<1>2. PartsInv /\ TruthInv /\ [Next]_vars => TruthInv'
  BY TruthStep
<1> QED
  BY <1>1, <1>2, PartsInvariance, PTL DEF Spec

\* What the pages say is true: what is shown as reverted was reverted, as launched runs, as
\* verified was tapped, as ready to install is downloaded, and what a page shows once its
\* calls are answered is what is stored.
THEOREM PagesAreTrue == Spec => PagesTellTheTruth
<1>1. TruthInv /\ [Next]_vars =>
        [/\ toast' # Undo!None => (toast'.done => toast'.undoing \in undone')
         /\ page' = page => (~loading => rows \ rows' \subseteq undone')]_(Undo!vars)
  <2> SUFFICES ASSUME TruthInv, [Next]_vars
               PROVE  /\ toast' # Undo!None => (toast'.done => toast'.undoing \in undone')
                      /\ page' = page => (~loading => rows \ rows' \subseteq undone')
    OBVIOUS
  <2>1. Undo!UndoInv /\ [Undo!Next]_servicesVars
    BY Apart DEF TruthInv
  <2>2. UndoIsTrue
    BY <2>1, UndoStep
  <2>3. toast' # Undo!None => (toast'.done => toast'.undoing \in undone')
    BY <2>2, Zenon DEF UndoIsTrue, Undo!UndoInv, Undo!ToastIsTrue
  <2>4. page' = page => (~loading => rows \ rows' \subseteq undone')
    BY <2>2, Zenon DEF UndoIsTrue
  <2> QED
    BY <2>3, <2>4, Zenon
<1>2. TruthInv => /\ Tool!LaunchedIsRunning /\ Update!InstallsWhatIsThere
                  /\ Rules!BoxesShowTheTable /\ Updates!PageIsUpToDate /\ Review!ReviewIsTrue
  <2> SUFFICES ASSUME TruthInv
               PROVE  /\ Tool!LaunchedIsRunning /\ Update!InstallsWhatIsThere
                      /\ Rules!BoxesShowTheTable /\ Updates!PageIsUpToDate /\ Review!ReviewIsTrue
    OBVIOUS
  <2>1. Tool!LaunchedIsRunning /\ Update!InstallsWhatIsThere
    BY DEF TruthInv, Tool!ToolInv, Update!UpdateInv
  <2>2. Rules!BoxesShowTheTable /\ Updates!PageIsUpToDate /\ Review!ReviewIsTrue
    BY BoxesAreTrue, UpdatesAreTrue, ReviewsAreTrue DEF TruthInv
  <2> QED
    BY <2>1, <2>2
<1>3. PartsInv => Setting!VerifiedIsTapped
  BY DEF PartsInv, Setting!SettingInv
<1>4. Spec => Undo!RevertedIsTrue
  BY <1>1, TruthInvariance, PTL DEF Spec, Undo!RevertedIsTrue
<1>5. Spec => [](Tool!LaunchedIsRunning /\ Setting!VerifiedIsTapped /\ Update!InstallsWhatIsThere)
  BY <1>2, <1>3, TruthInvariance, PartsInvariance, PTL
<1>6. Spec => [](Rules!BoxesShowTheTable /\ Updates!PageIsUpToDate /\ Review!ReviewIsTrue)
  BY <1>2, TruthInvariance, PTL
<1> QED
  BY <1>4, <1>5, <1>6 DEF PagesTellTheTruth
=============================================================================
