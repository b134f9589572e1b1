SPECIFICATION ThreadSpec
CONSTANTS
  Owner = main
  Callers = {main, user}
  LoopThread = loop
  MaxPosts = 1
INVARIANT ThreadInvariant
INVARIANT ThreadOutlivedByObject
PROPERTY StartLoopReturns
PROPERTY LateQuitJoins
