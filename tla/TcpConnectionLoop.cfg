SPECIFICATION Spec
CONSTANTS
  MaxSends = 3
  MsgLen = 2
  FileLen = 2
  HighWaterMark = 3
  LoopOps = {"send", "shutdown"}
  UserOps = {}
  Users = {}
CHECK_DEADLOCK FALSE
INVARIANT ClosedIsUnregistered
INVARIANT WritingIffBuffered
INVARIANT StreamIntact
INVARIANT EndsOnce
PROPERTY DisconnectedIsFinal
PROPERTY FinAfterData
