----------------------------- MODULE MCTaskRing -----------------------------
(* TaskRing on the idle task and three other blocks. *)
EXTENDS TaskRing

CONSTANTS a, b, c
=============================================================================
