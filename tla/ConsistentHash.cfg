SPECIFICATION RingSpec
CONSTANTS
  a = a
  b = b
  c = c
  Nodes = {a, b, c}
  NoNode = none
  Replicas = 2
  MaxHash = 5
SYMMETRY Symmetry
INVARIANT RingBooksAgree
INVARIANT GetNodeIsNext
PROPERTY KeysStay
