------------------------------- MODULE MCTxfs -------------------------------
(* Txfs on a journal of a few entries. *)
EXTENDS Txfs
=============================================================================
