--------------------------- MODULE MCHedgedReader ---------------------------
(* HedgedReader with the slots, replicas and placement of the cfg. *)
EXTENDS HedgedReader
=============================================================================
