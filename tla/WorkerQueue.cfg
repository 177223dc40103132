SPECIFICATION WorkerFairSpec
CONSTANTS
  c1 = c1
  c2 = c2
  s1 = s1
  s2 = s2
  NoSession = NoSession
  NoCall = NoCall
  Sessions <- OneSession
  Calls <- TwoCalls
  HeartbeatStale = 1
  EnvelopeLifetime = 1
  CmdTimeout = 1
  SpawnTimeout = 1
  IdleTimeout = 2
  Faults <- QueueFaults
INVARIANTS TypeOK AtMostOnce ReportsAreTrue RefusedNeverRan
PROPERTIES TimedOutIsNotAccepted EveryWorkerLeaves
