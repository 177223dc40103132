SPECIFICATION Spec
CONSTANTS
  p1 = p1
  p2 = p2
  NoPass = NoPass
  Passes <- OneCaller
  MaxDay = 3
  MaxLines = 2
  Faults = {}
  MaxFaults = 0
INVARIANTS DowntimeIsCaughtUp
CHECK_DEADLOCK FALSE
