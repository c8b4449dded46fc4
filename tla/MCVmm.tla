------------------------------- MODULE MCVmm -------------------------------
(* Small instances of Vmm.                                                 *)
EXTENDS Vmm, TLC
CONSTANTS a, b, d, t1, t2
(* Two ordinary addresses below one table, a demand-zero one below another. *)
Paths == a :> <<t1>> @@ b :> <<t1>> @@ d :> <<t2>>
Budget(n, s, c, e) == [alloc |-> n, share |-> s, access |-> c, evict |-> e]
Mixed == {Budget(2, 2, 2, 0), Budget(2, 0, 2, 2), Budget(2, 1, 1, 1), Budget(1, 1, 2, 2)}
Evicting == {Budget(2, 0, 2, 2)}
Sharing == {Budget(1, 2, 2, 1)}
=============================================================================
