-------------------------- MODULE StartupMigration --------------------------
(***************************************************************************)
(* What every launch of the application does to its own installation        *)
(* (app.whenReady in src/src/main/main.ts): the bundled scripts are copied  *)
(* to ProgramData, the scheduled tasks are brought to the manifest of the   *)
(* bundle, stripped ACLs are repaired.  Four legs run side by side; three   *)
(* of them may end in a UAC prompt, and two markers in the settings say     *)
(* what need not be done again.                                             *)
(*                                                                          *)
(* A version is a number; a script, a task and a marker carry the version   *)
(* they come from, 0 for none.                                              *)
(***************************************************************************)
EXTENDS Integers, FiniteSets

CONSTANTS
  Scripts,     \* the files that Sync-ScriptsFromBundle compares
  Others,      \* other files of ProgramData, which only the repair looks at
  Tasks,       \* the entries of task-manifest.json
  TaskScript,  \* the script of ProgramData a task runs, or "none"
  MaxVersion,  \* bound on upgrades
  Faults,      \* what may go wrong
  MaxFaults    \* bound on failures

Report == "latest.json"
Files == Scripts \cup Others \cup {Report}
Versions == 1..MaxVersion

ASSUME TaskAssumption ==
  TaskScript \in [Tasks -> Scripts \cup {"none"}] /\ "none" \notin Scripts
ASSUME VersionAssumption == MaxVersion \in Nat \ {0} /\ MaxFaults \in Nat

VARIABLES
  bundle,      \* version of the installed application
  deployed,    \* version of each script in ProgramData
  unreadable,  \* files whose ACL was stripped
  tasks,       \* the manifest each task was last brought to
  taskMarker,  \* last_task_migration_version
  repairMarker,\* last_acl_repair_version
  sync,        \* the leg that copies the bundle
  migration,   \* the leg that registers the tasks
  repair,      \* the leg that repairs the ACLs
  heal,        \* the leg that looks at the report
  late,        \* rows an elevated script nobody waits for will still register
  faults,      \* history: failures so far
  disturbed    \* history: tasks changed after they were registered, by others

disk == <<bundle, deployed, unreadable, tasks>>
markers == <<taskMarker, repairMarker>>
legs == <<sync, migration, repair, heal>>
stVars == <<disk, markers, legs, late, faults, disturbed>>

StTypeOK ==
  /\ bundle \in Versions
  /\ deployed \in [Scripts -> 0..MaxVersion]
  /\ unreadable \subseteq Files
  /\ tasks \in [Tasks -> 0..MaxVersion]
  /\ taskMarker \in 0..MaxVersion
  /\ repairMarker \in 0..MaxVersion
  /\ sync \in {"off", "probe", "copy", "done"}
  /\ migration \in {"off", "waiting", "register", "verified", "done"}
  /\ repair \in {"off", "waiting", "elevated", "repaired", "done"}
  /\ heal \in {"off", "probe", "elevated", "done"}
  /\ late \subseteq (Tasks \X Versions)
  /\ faults \in 0..MaxFaults
  /\ disturbed \subseteq Tasks

\* The installer has run once; what it managed to copy is up to the antivirus.
StInit ==
  /\ bundle = 1
  /\ deployed \in [Scripts -> {0, 1}]
  /\ unreadable = {}
  /\ tasks = [t \in Tasks |-> 0]
  /\ taskMarker = 0 /\ repairMarker = 0
  /\ sync = "off" /\ migration = "off" /\ repair = "off" /\ heal = "off"
  /\ late = {}
  /\ faults = 0
  /\ disturbed = {}

Fault(kind) == kind \in Faults /\ faults < MaxFaults /\ faults' = faults + 1

\* Work that may be cut short: all of it is done, or some of it at the cost of a failure.
Mostly(all, part) == part \subseteq all /\ IF part = all THEN UNCHANGED faults ELSE Fault("script")

\* app.getVersion(): what a marker is set to and compared with.
Version == bundle

(***************************************************************************)
(* The leg that copies the bundle.                                         *)
(***************************************************************************)
\* Mutant: a file that cannot be read is taken to be in sync.
Readable == {s \in Scripts : deployed[s] # bundle /\ s \notin unreadable}

\* Missing, different or unreadable (Sync-ScriptsFromBundle.ps1).
Mismatches == {s \in Scripts : deployed[s] # bundle \/ s \in unreadable}

\* The probe runs without elevation; its own failure counts as "nothing to do".
SyncProbes ==
  /\ sync = "probe"
  /\ \/ sync' = (IF Mismatches = {} THEN "done" ELSE "copy") /\ UNCHANGED faults
     \/ sync' = "done" /\ Fault("script")
  /\ UNCHANGED <<disk, markers, migration, repair, heal, late, disturbed>>

\* The elevated copy resets the ACL of each file it copies.  A declined prompt, a
\* failure and a timeout end the leg like a success.
SyncCopies ==
  /\ sync = "copy"
  /\ \E copied \in SUBSET Mismatches :
       /\ Mostly(Mismatches, copied)
       /\ deployed' = [s \in Scripts |-> IF s \in copied THEN bundle ELSE deployed[s]]
       /\ unreadable' = unreadable \ copied
  /\ sync' = "done"
  /\ UNCHANGED <<bundle, tasks, markers, migration, repair, heal, late, disturbed>>

(***************************************************************************)
(* The leg that registers the tasks.                                       *)
(***************************************************************************)
MigrationStarts ==
  /\ migration = "waiting" /\ sync = "done"
  /\ migration' = "register"
  /\ UNCHANGED <<disk, markers, sync, repair, heal, late, faults, disturbed>>

IsUpgrade == taskMarker # Version

\* A task whose script is missing is refused.
CanRegister(t) == TaskScript[t] = "none" \/ deployed[TaskScript[t]] # 0

\* Mutant: one registered row is enough (v2.4.47, B48-MIG-1).
SomeVerified(applied) == applied # {}

\* verifyTaskManifestMigration asks for every row of the manifest.
Verified(applied) == applied = Tasks

\* Register-All-Tasks.ps1 -ForceRecreate, elevated and from the bundle: row by row, a
\* failed row may have lost its registration (the legacy name is removed first).  What
\* throws - a declined prompt, a failed row - ends the leg without the marker.
RegistersElevated ==
  /\ migration = "register" /\ IsUpgrade
  /\ \E applied \in SUBSET {t \in Tasks : CanRegister(t)}, lost \in SUBSET Tasks :
       /\ lost \cap applied = {}
       /\ Mostly({t \in Tasks : CanRegister(t)}, applied)
       /\ lost # {} => applied # Tasks
       /\ tasks' = [t \in Tasks |-> CASE t \in applied -> bundle
                                      [] t \in lost -> 0
                                      [] OTHER -> tasks[t]]
       /\ disturbed' = disturbed \ applied
       /\ migration' = IF Verified(applied) THEN "verified" ELSE "done"
  /\ UNCHANGED <<bundle, deployed, unreadable, markers, sync, repair, heal, late>>

\* The elevated script outlives the wait of 120 s: its rows arrive later.
RegistersTooLate ==
  /\ migration = "register" /\ IsUpgrade
  /\ Fault("timeout")
  /\ late' = late \cup {<<t, bundle>> : t \in Tasks}
  /\ migration' = "done"
  /\ UNCHANGED <<disk, markers, sync, repair, heal, disturbed>>

\* setSetting, unless it throws.
MarksTasks ==
  /\ migration = "verified"
  /\ \/ taskMarker' = Version /\ UNCHANGED faults
     \/ taskMarker' = taskMarker /\ Fault("settings")
  /\ migration' = "done"
  /\ UNCHANGED <<disk, repairMarker, sync, repair, heal, late, disturbed>>

\* On any other launch the script runs without elevation and mends the rows it may.
RegistersPlain ==
  /\ migration = "register" /\ ~IsUpgrade
  /\ \E applied \in SUBSET {t \in Tasks : CanRegister(t)} :
       /\ tasks' = [t \in Tasks |-> IF t \in applied THEN bundle ELSE tasks[t]]
       /\ disturbed' = disturbed \ applied
  /\ migration' = "done"
  /\ UNCHANGED <<bundle, deployed, unreadable, markers, sync, repair, heal, late, faults>>

(***************************************************************************)
(* The legs that repair ACLs.                                              *)
(***************************************************************************)
NeedsRepair == unreadable \ {Report} # {}

\* Repair-ScriptAcls.ps1 without elevation, then the marker decides about the prompt.
RepairProbes ==
  /\ repair = "waiting" /\ sync = "done"
  /\ \/ /\ NeedsRepair /\ repairMarker # Version
        /\ repair' = "elevated" /\ UNCHANGED <<repairMarker, faults>>
     \/ /\ ~(NeedsRepair /\ repairMarker # Version)
        /\ repair' = "done" /\ repairMarker' = Version /\ UNCHANGED faults
     \/ repair' = "done" /\ UNCHANGED repairMarker /\ Fault("script")
  /\ UNCHANGED <<disk, taskMarker, sync, migration, heal, late, disturbed>>

\* The elevated repair exits 0 whatever it could not repair; declined, it throws.
RepairsElevated ==
  /\ repair = "elevated"
  /\ \/ \E mended \in SUBSET (unreadable \ {Report}) :
          /\ Mostly(unreadable \ {Report}, mended)
          /\ unreadable' = unreadable \ mended
          /\ repair' = "repaired"
     \/ Fault("script") /\ repair' = "done" /\ UNCHANGED unreadable
  /\ UNCHANGED <<bundle, deployed, tasks, markers, sync, migration, heal, late, disturbed>>

MarksRepair ==
  /\ repair = "repaired"
  /\ repair' = "done" /\ repairMarker' = Version
  /\ UNCHANGED <<disk, taskMarker, sync, migration, heal, late, faults, disturbed>>

HealProbes ==
  /\ heal = "probe"
  /\ heal' = IF Report \in unreadable THEN "elevated" ELSE "done"
  /\ UNCHANGED <<disk, markers, sync, migration, repair, late, faults, disturbed>>

\* Heal-InstallAcls.ps1 goes over the whole installation.
HealsElevated ==
  /\ heal = "elevated"
  /\ \E mended \in SUBSET unreadable :
       Mostly(unreadable, mended) /\ unreadable' = unreadable \ mended
  /\ heal' = "done"
  /\ UNCHANGED <<bundle, deployed, tasks, markers, sync, migration, repair, late, disturbed>>

(***************************************************************************)
(* The user and the machine.                                               *)
(***************************************************************************)
Launch ==
  /\ sync = "off"
  /\ sync' = "probe" /\ migration' = "waiting" /\ repair' = "waiting" /\ heal' = "probe"
  /\ UNCHANGED <<disk, markers, late, faults, disturbed>>

\* The application quits or dies at any time.  An elevated script it was waiting for goes
\* on without it.
Stop ==
  /\ sync # "off"
  /\ sync' = "off" /\ migration' = "off" /\ repair' = "off" /\ heal' = "off"
  /\ \/ UNCHANGED late
     \/ /\ migration = "register" /\ IsUpgrade
        /\ late' = late \cup {<<t, bundle>> : t \in Tasks}
  /\ UNCHANGED <<disk, markers, faults, disturbed>>

LateRow ==
  \E row \in late :
    LET t == row[1]  version == row[2] IN
    /\ late' = late \ {row}
    /\ IF CanRegister(t)
       THEN /\ tasks' = [tasks EXCEPT ![t] = version]
            /\ disturbed' = IF version = bundle THEN disturbed \ {t} ELSE disturbed \cup {t}
       ELSE UNCHANGED <<tasks, disturbed>>
    /\ UNCHANGED <<bundle, deployed, unreadable, markers, legs, faults>>

\* The installer of the next version, which copies what it can.
Upgrade ==
  /\ sync = "off" /\ bundle < MaxVersion
  /\ bundle' = bundle + 1
  /\ \E copied \in SUBSET Scripts :
       deployed' = [s \in Scripts |-> IF s \in copied THEN bundle + 1 ELSE deployed[s]]
  /\ UNCHANGED <<unreadable, tasks, markers, legs, late, faults, disturbed>>

\* An installer, a tool or Windows strips the ACL of a file.
AclBreaks ==
  /\ Fault("acl")
  /\ \E f \in Files : unreadable' = unreadable \cup {f}
  /\ UNCHANGED <<bundle, deployed, tasks, markers, legs, late, disturbed>>

\* The user deletes a task.
TaskDeleted ==
  /\ Fault("task")
  /\ \E t \in Tasks : tasks' = [tasks EXCEPT ![t] = 0] /\ disturbed' = disturbed \cup {t}
  /\ UNCHANGED <<bundle, deployed, unreadable, markers, legs, late>>

Legs ==
  \/ SyncProbes \/ SyncCopies
  \/ MigrationStarts \/ RegistersElevated \/ RegistersTooLate \/ RegistersPlain \/ MarksTasks
  \/ RepairProbes \/ RepairsElevated \/ MarksRepair
  \/ HealProbes \/ HealsElevated

StNext == Legs \/ Launch \/ Stop \/ LateRow \/ Upgrade \/ AclBreaks \/ TaskDeleted

StSpec == StInit /\ [][StNext]_stVars

AllDone == sync = "done" /\ migration = "done" /\ repair = "done" /\ heal = "done"

(***************************************************************************)
(* Properties.                                                             *)
(***************************************************************************)
\* The marker of the task migration tells the truth: once it holds the version of the
\* bundle, every task is as the manifest of that bundle says, but for those that somebody
\* else, or an elevated script of an older version, has changed since.
MarkerIsHonest ==
  taskMarker = bundle => \A t \in Tasks : tasks[t] = bundle \/ t \in disturbed

\* The user starts the application again and again, and again and again leaves it running
\* until the four legs have ended; most launches may be cut short.
UserKeepsStarting == []<>AllDone /\ []<>(sync = "off")

\* Then every script is in the end the one of the bundle and readable, whatever the marker
\* of the repair says and whatever failed on the way, and the tasks were migrated.
EventuallyDeployed ==
  UserKeepsStarting =>
    <>[](/\ \A s \in Scripts : deployed[s] = bundle /\ s \notin unreadable
         /\ taskMarker = bundle)

(***************************************************************************)
(* Inductive invariant.                                                    *)
(***************************************************************************)
\* Every task is as the manifest of the bundle says, but for what others changed since.
Registered == \A t \in Tasks : tasks[t] = bundle \/ t \in disturbed

\* The marker is never ahead of the bundle, so an upgrade always makes it old; the bundle
\* changes only while no leg runs; and what was verified stays so until it is marked.
MigrationInv ==
  /\ StTypeOK
  /\ taskMarker <= bundle
  /\ sync = "off" => migration = "off"
  /\ migration = "verified" => Registered
  /\ MarkerIsHonest
=============================================================================
