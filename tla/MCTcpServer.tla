----------------------------- MODULE MCTcpServer -----------------------------
(* TcpServer for TLC: the hash functions. *)
EXTENDS TcpServer
MCNodeHash == [v \in Threads \X (1..Replicas) |-> (2 * v[1] + v[2]) % (MaxHash + 1)]
MCPeerHash == [p \in Peers |-> p]
=============================================================================
