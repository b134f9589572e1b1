SPECIFICATION Spec
CONSTANTS
  MaxSends = 1
  MsgLen = 2
  FileLen = 2
  HighWaterMark = 3
  LoopOps = {"send", "shutdown"}
  UserOps = {"send", "shutdown", "sendFile"}
  Users = {user}
CHECK_DEADLOCK FALSE
INVARIANT TypeOK
INVARIANT RegistrationAgrees
INVARIANT StreamIntact
