SPECIFICATION ThreadSpec
CONSTANTS
  Owner = main
  Callers = {main}
  LoopThread = loop
  MaxPosts = 1
PROPERTY DestructorReturns
