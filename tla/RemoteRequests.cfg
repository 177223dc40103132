SPECIFICATION FairSpec
CONSTANTS
  Presses = 3
  Polls = {1, 2}
  MaxTgFaults = 1
  Commands = {"c1", "c2", "c3", "c4"}
  Unknown = {"c3"}
  Nameless = {"c4"}
  IdOf <- MCIdOf
  Callbacks = {1, 2}
  MaxCwFaults = 1
INVARIANTS NothingBehindTheBack
PROPERTIES RequestsAreAnswered
CHECK_DEADLOCK FALSE
