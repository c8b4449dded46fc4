------------------------------ MODULE MCConsole -----------------------------
(* Console with rings of two and three slots, and another task that prints. *)
EXTENDS Console

(* Much input, much output, or some of both. *)
MixedLoads == {[arrive |-> 4, print |-> 0], [arrive |-> 0, print |-> 3], [arrive |-> 1, print |-> 1]}
=============================================================================
