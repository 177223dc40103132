SPECIFICATION FairSpec
CONSTANTS
  p1 = p1
  p2 = p2
  NoPass = NoPass
  Passes <- TwoCallers
  MaxDay = 3
  MaxLines = 2
  Faults = {"insert", "read", "checkpointRead", "save", "crash", "truncate", "partial"}
  MaxFaults = 2
INVARIANTS DuplicatesNeedALostPlace CheckpointIsHonest RolloverDrainsTheDay
PROPERTIES LinesGetIn
CHECK_DEADLOCK FALSE
