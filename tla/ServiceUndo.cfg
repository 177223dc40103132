SPECIFICATION Spec
CONSTANTS
  MaxRows = 3
  MaxAsked = 1
  StartTypes = {"Manual", "Disabled"}
  Asked <- MCAsked
  Faults = {"unknown", "crash", "log", "actionStart"}
  MaxFaults = 1
INVARIANTS
  RevertedMeansRestored
  ListedIsUndoable
PROPERTIES
  UndoneOnceToOurKnowledge
