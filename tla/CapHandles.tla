----------------------------- MODULE CapHandles -----------------------------
(***************************************************************************)
(* wubu_cap_handle.c: a process's table of handles over the registry of    *)
(* Capabilities.  A handle token is a slot with the slot's generation at   *)
(* the time; closing a handle bumps the generation and puts the slot at    *)
(* the front of the free list.  The table doubles when it is full.         *)
(***************************************************************************)
EXTENDS Capabilities, FiniteSets

CONSTANTS
  HandleInitial, HandleMax,  \* the table's first and largest capacity, slot 0 included
  MaxIssued,                 \* bound on the handles inserted
  SharedObjects              \* bound on the objects there are when handles are
                             \* inserted; none is being created then or later

ASSUME HandleAssumption ==
  /\ HandleInitial \in Nat \ {0} /\ HandleMax \in Nat /\ HandleInitial <= HandleMax
  /\ MaxIssued \in Nat /\ SharedObjects \in Nat

VARIABLES
  object_idx, local_gen,     \* of each slot
  free,                      \* the list at next_free
  capacity,
  issued,                    \* history: the tokens handed out, and for what
  closed                     \* history: the tokens handed to close

table == <<object_idx, local_gen, free, capacity>>
hvars == <<table, issued, closed>>
allvars == <<vars, hvars>>

Slot == 1 .. (HandleMax - 1)
None == 0

(* rebuild_free: the slots from lo to below hi come before the list. *)
RebuildFree(list, lo, hi) == [k \in 1 .. (hi - lo) |-> (lo + k) - 1] \o list

(* wubu_cap_handle_table_create *)
HInit ==
  /\ Init
  /\ object_idx = [s \in Slot |-> None] /\ local_gen = [s \in Slot |-> 1]
  /\ capacity = HandleInitial /\ free = RebuildFree(<<>>, 1, HandleInitial)
  /\ issued = {} /\ closed = {}

Open(s, g) == object_idx[s] # None /\ local_gen[s] = g

-----------------------------------------------------------------------------
(* insert, after grow if the list is empty *)
Take(i, list) ==
  LET s == Head(list) IN
  /\ object_idx' = [object_idx EXCEPT ![s] = i]
  /\ free' = Tail(list)
  /\ issued' = issued \cup {[slot |-> s, gen |-> local_gen[s], obj |-> i]}

FewObjects ==
  Cardinality(used) <= SharedObjects /\ \A t \in Threads : pc[t] \notin {"create", "link"}

wubu_cap_handle_insert(i) ==
  /\ i \in used /\ Cardinality(issued) < MaxIssued /\ FewObjects
  /\ IF free # <<>>
     THEN Take(i, free) /\ UNCHANGED capacity
     ELSE LET cap == IF 2 * capacity > HandleMax THEN HandleMax ELSE 2 * capacity IN
          /\ capacity < HandleMax
          /\ Take(i, RebuildFree(<<>>, capacity, cap)) /\ capacity' = cap
  /\ UNCHANGED <<vars, local_gen, closed>>

(* Mutant: close without its test for a live slot. *)
CloseTwice(x) ==
  /\ object_idx' = [object_idx EXCEPT ![x.slot] = None]
  /\ local_gen' = [local_gen EXCEPT ![x.slot] = @ + 1]
  /\ free' = <<x.slot>> \o free
  /\ Len(free) < HandleMax
  /\ closed' = closed \cup {x}
  /\ UNCHANGED <<vars, capacity, issued>>

(* close looks at the token's slot, not at its generation; close_slot is   *)
(* close with a token of the slot's.                                       *)
wubu_cap_handle_close(x) ==
  /\ object_idx[x.slot] # None
  /\ object_idx' = [object_idx EXCEPT ![x.slot] = None]
  /\ local_gen' = [local_gen EXCEPT ![x.slot] = @ + 1]
  /\ free' = <<x.slot>> \o free
  /\ closed' = closed \cup {x}
  /\ UNCHANGED <<vars, capacity, issued>>

(* The object is looked up under the table's lock and revoked after it; a  *)
(* revocation that comes later is one of the registry's.                   *)
wubu_cap_handle_revoke_by_slot(t, s) ==
  /\ object_idx[s] # None
  /\ wubu_cap_revoke(t, object_idx[s])
  /\ UNCHANGED hvars

(* A step of the registry, within the bound. *)
Registry ==
  /\ Next
  /\ (\E t \in Threads : pc[t] = "idle" /\ pc'[t] = "create") =>
       issued = {}
  /\ UNCHANGED hvars

HNext ==
  \/ Registry
  \/ \E i \in Idx : wubu_cap_handle_insert(i)
  \/ \E x \in issued : wubu_cap_handle_close(x)
  \/ \E t \in Threads, s \in Slot : wubu_cap_handle_revoke_by_slot(t, s)

HSpec == HInit /\ [][HNext]_allvars

(* A thread inside a call gets the processor and the registry lock again.  *)
FairHSpec == HSpec /\ \A t \in Threads : WF_allvars(Steps(t) /\ UNCHANGED hvars)

-----------------------------------------------------------------------------
(* wubu_cap_resolve, of an object's own current token *)
Resolves(t, i, need) ==
  i \in used /\ deleted[i] = 0 /\ InAudience(i, t) /\ need \subseteq rights[i]

(* wubu_cap_handle_resolve *)
HandleResolves(t, x, need) == Open(x.slot, x.gen) /\ Resolves(t, object_idx[x.slot], need)

(* wubu_cap_handle_resolve_kind, all capabilities being of one kind: the   *)
(* answer is that of the first handle whose object is not deleted.         *)
KindResolves(t, need) ==
  \E s \in Slot :
    /\ object_idx[s] # None /\ deleted[object_idx[s]] = 0
    /\ \A r \in Slot : r < s => object_idx[r] = None \/ deleted[object_idx[r]] = 1
    /\ Resolves(t, object_idx[s], need)

(* Every slot the table has is in use or in the free list once, and a slot *)
(* it does not have is neither: no handle is lost and none given out twice.*)
SlotsAccounted ==
  /\ IsInjective(free)
  /\ Range(free) = {s \in Slot : s < capacity /\ object_idx[s] = None}

(* A token that is open stands for the object it was handed out for, and   *)
(* one that was closed, or whose object was revoked, never resolves again, *)
(* whatever has since been put into its slot.                              *)
TokensExact ==
  \A x \in issued :
    /\ Open(x.slot, x.gen) => object_idx[x.slot] = x.obj
    /\ x \in closed \/ deleted[x.obj] = 1 => \A t \in Threads : ~HandleResolves(t, x, {})

(* wubu_cap_handle_insert, close and revoke_by_slot keep the table exact:  *)
(* no slot is lost or given out twice, and no token changes its meaning.   *)
HandlesExact == SlotsAccounted /\ TokensExact

(* Every call ends; a revocation does although others go on deriving from  *)
(* what it walks.                                                          *)
CallsEnd == \A t \in Threads : [](pc[t] # "idle" => <>(pc[t] = "idle"))

(* wubu_cap.h says of close that stale tokens fail: a handle is closed     *)
(* only by its own token.                                                  *)
OpenStaysOpen ==
  [][\A x \in issued : Open(x.slot, x.gen) /\ ~Open(x.slot, x.gen)' => x \in closed']_allvars

(* The comment over wubu_cap_handle_resolve_kind: any live handle whose    *)
(* rights cover the need will do.                                          *)
KindFindsAny ==
  \A t \in Threads, s \in Slot, need \in SUBSET Rights :
    object_idx[s] # None /\ Resolves(t, object_idx[s], need) => KindResolves(t, need)
=============================================================================
