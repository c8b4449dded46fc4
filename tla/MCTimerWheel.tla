---------------------------- MODULE MCTimerWheel ----------------------------
(* TimerWheel with two or three levels of a few slots. *)
EXTENDS TimerWheel
=============================================================================
