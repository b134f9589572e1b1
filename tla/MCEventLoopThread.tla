------------------------- MODULE MCEventLoopThread -------------------------
(* EventLoopThread for TLC: the constants are given in the cfg files. *)
EXTENDS EventLoopThread
=============================================================================
