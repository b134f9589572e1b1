SPECIFICATION Spec
CONSTANTS
  c1 = c1
  c2 = c2
  Callers = {c1, c2}
  LoopThread = loop
  MaxPosts = 1
INVARIANT LoopInvariant
INVARIANT NoStrandedFunctor
INVARIANT NoMissedQuit
PROPERTY ImplementsFunctorQueue
PROPERTY QueuedFunctorsRun
PROPERTY QuitLeavesLoop
