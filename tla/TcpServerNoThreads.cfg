SPECIFICATION Spec
CONSTANTS
  NumThreads = 0
  Replicas = 2
  MaxHash = 6
  NodeHash <- MCNodeHash
  PeerHash <- MCPeerHash
  Peers = {1, 4}
  ShutdownPeers = {4}
  Fds = {7, 8}
  MaxConns = 2
CHECK_DEADLOCK FALSE
INVARIANT PoolServes
