---------------------------- MODULE MCTimerQueue ----------------------------
(* TimerQueue for TLC: the constants are given in the cfg files. *)
EXTENDS TimerQueue
=============================================================================
