SPECIFICATION Spec
CONSTANTS
  MaxSends = 1
  MsgLen = 2
  FileLen = 1
  HighWaterMark = 3
  LoopOps = {"send", "sendFile"}
  UserOps = {"shutdown"}
  Users = {user}
CHECK_DEADLOCK FALSE
PROPERTY ConnectionEnds
PROPERTY ShutdownSendsFin
