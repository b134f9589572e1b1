---------------------------- MODULE MCEventLoop ----------------------------
(* EventLoop for TLC: the constants are given in the cfg file. *)
EXTENDS EventLoop
CONSTANTS c1, c2
=============================================================================
