--------------------------- MODULE MCCapabilities ---------------------------
EXTENDS CapHandles

CONSTANTS p, q

(* A narrower capability, an eager one for everyone, an immortal one. *)
SomeRequests ==
  {[rights |-> {"derive", "use"}, aud |-> {p, q}, flags |-> {}],
   [rights |-> {"derive"}, aud |-> {Anyone}, flags |-> {"eager"}],
   [rights |-> {"use"}, aud |-> {p}, flags |-> {"immortal"}]}

SomeRoots == {[rights |-> {"derive", "use"}, aud |-> {p}, flags |-> {"immortal", "eager"}]}
=============================================================================
