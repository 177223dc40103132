SPECIFICATION Spec
CONSTANTS
  c1 = c1
  c2 = c2
  s1 = s1
  s2 = s2
  NoSession = NoSession
  NoCall = NoCall
  Sessions <- TwoSessions
  Calls <- TwoCalls
  HeartbeatStale = 1
  EnvelopeLifetime = 1
  CmdTimeout = 1
  SpawnTimeout = 1
  IdleTimeout = 2
  Faults <- SessionFaults
SYMMETRY Symmetry
INVARIANTS CapabilityLifetime PromptIsAwaited OneSessionInUse
PROPERTIES DispatchPromise
