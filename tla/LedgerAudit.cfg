SPECIFICATION FairSpec
CONSTANTS
  r1 = r1
  r2 = r2
  hosts = hosts
  NoAction = NoAction
  NoCopy = NoCopy
  Runs <- TwoRuns
  Files <- OneFile
  Actions <- OneFileKinds
  Faults = {"log", "restorePoint", "row", "copy", "manifest", "lowDisk", "restore", "crash"}
  MaxFaults = 2
INVARIANTS AuditTruth RevertIsOnce SnapshotPredatesRun UndoneStaysUndone
PROPERTIES EveryRunSettles
CHECK_DEADLOCK FALSE
