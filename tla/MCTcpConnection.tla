-------------------------- MODULE MCTcpConnection --------------------------
(* TcpConnection for TLC: the constants are given in the cfg files. *)
EXTENDS TcpConnection
=============================================================================
