SPECIFICATION Spec
CONSTANTS
  Byte = {0, 1, 2}
  Data <- MCData
  CheapPrepend = 1
  InitialSize = 3
  ExtraSize = 2
  MaxReadable = 5
INVARIANT IndicesInOrder
INVARIANT SizeBounded
PROPERTY ImplementsByteQueue
