SPECIFICATION Spec
CONSTANTS
  Pointers = {1, 2}
  Users = {user}
  Whens = {0, 3}
  Intervals = {0, 1}
  MinDelay = 1
  MaxTimers = 2
  MaxTime = 3
  MaxPending = 2
  MaxJumps = 1
CHECK_DEADLOCK FALSE
INVARIANT TimerInvariant
INVARIANT OwnedOnce
INVARIANT CanceledIsGone
INVARIANT EarliestIsArmed
PROPERTY DueTimersAreServed
