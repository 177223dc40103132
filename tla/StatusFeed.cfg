SPECIFICATION FairSpec
CONSTANTS
  Findings = {"disk", "smart"}
  Events = {"action"}
  Critical = {"smart"}
  Muted = {}
  Readers = {1, 2}
  Emitters = {1, 2}
  Cap = 1
  Listed = 1
  Hours = 3
  QuietHours = {0}
  DigestHour = 1
  UtcMidnight = 2
  MaxReports = 2
  Faults = {"stop", "read", "report", "bufferRead", "bufferWrite", "database", "telegram"}
  MaxFaults = 1
INVARIANTS ToldOnce OnlyFailuresLose
PROPERTIES CacheNeverGoesBack DigestsComeOut
