SPECIFICATION Spec
CONSTANTS
  Pointers = {1, 2}
  Users = {user}
  Whens = {0, 2}
  Intervals = {0, 1}
  MinDelay = 1
  MaxTimers = 2
  MaxTime = 2
  MaxPending = 2
  MaxJumps = 0
CHECK_DEADLOCK FALSE
PROPERTY IdsAreUnique
