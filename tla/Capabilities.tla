---------------------------- MODULE Capabilities ----------------------------
(***************************************************************************)
(* runtime/wubu_cap: the registry of capability objects.                   *)
(*                                                                         *)
(* A capability carries rights, an audience and flags.  A holder derives   *)
(* narrower ones from it; revoking it kills it and, when it is marked      *)
(* eager, everything derived from it.  Threads call in concurrently.       *)
(* Every section under the registry lock is one step; the checks of a      *)
(* derive are made without the lock, creating the object and linking it    *)
(* under its parent are two sections, and a cascade takes the lock once    *)
(* per object.  A token is its object's index.  Nothing calls              *)
(* wubu_cap_destroy, so no slot is used again.                             *)
(***************************************************************************)
EXTENDS Integers, Sequences, Functions

CONSTANTS
  Capacity,     \* WUBU_CAP_OBJECT_CAPACITY, slot 0 aside
  CascadeMax,   \* WUBU_CAP_REVOKE_CASCADE_MAX
  Threads,      \* the calling processes
  Anyone,       \* WUBU_PID_PUBLIC
  Rights,       \* the bits of a rights word, "derive" among them
  Requests,     \* what derive may be asked for
  RootRequests  \* what wubu_cap_create may be asked for without a parent

Flags == {"public", "immortal", "eager", "truncated"}
Request == [rights : SUBSET Rights, aud : SUBSET (Threads \cup {Anyone}),
            flags : SUBSET {"public", "immortal", "eager"}]

ASSUME CapAssumption ==
  /\ Capacity \in Nat \ {0} /\ CascadeMax \in Nat \ {0}
  /\ "derive" \in Rights /\ Anyone \notin Threads
  /\ Requests \subseteq Request /\ RootRequests \subseteq Request

Idx == 1 .. Capacity
NoParent == 0

VARIABLES
  used,                       \* the slots of g_wubu_cap_ptrs in use
  rights, aud, flags, parent, \* of the object in each slot
  deleted, generation,
  children,                   \* the list at first_child_idx, newest first
  pc, want, self,             \* each thread's call, the object it asks for and
  queue, tail, cut,           \* the one it works on; its cascade's locals
  swept, late                 \* history: objects whose children a cascade has
                              \* collected; children linked to such an object
cascade == <<queue, tail, cut>>
attributes == <<used, rights, aud, flags, parent>>
calls == <<pc, want, self, cascade>>
vars == <<attributes, deleted, generation, children, calls, swept, late>>

Nothing == [parent |-> NoParent, rights |-> {}, aud |-> {}, flags |-> {}]

(* wubu_cap_init and wubu_cap_system_init: the boot capability, eager and  *)
(* public, so that its audience is never looked at.                        *)
Init ==
  /\ used = {1}
  /\ rights = [i \in Idx |-> IF i = 1 THEN Rights ELSE {}]
  /\ aud = [i \in Idx |-> {}]
  /\ flags = [i \in Idx |-> IF i = 1 THEN {"public", "eager"} ELSE {}]
  /\ parent = [i \in Idx |-> NoParent]
  /\ deleted = [i \in Idx |-> 0] /\ generation = [i \in Idx |-> 1]
  /\ children = [i \in Idx |-> <<>>]
  /\ pc = [t \in Threads |-> "idle"] /\ want = [t \in Threads |-> Nothing]
  /\ self = [t \in Threads |-> NoParent]
  /\ queue = [t \in Threads |-> <<>>] /\ tail = [t \in Threads |-> 0]
  /\ cut = [t \in Threads |-> 0]
  /\ swept = {} /\ late = {}

-----------------------------------------------------------------------------
(* wubu_cap_validate_audience *)
InAudience(i, t) == "public" \in flags[i] \/ t \in aud[i]

(* audience_is_subset *)
AudienceWithin(i, a) == "public" \in flags[i] \/ (Anyone \notin a /\ a \subseteq aud[i])

(* The flags PUBLIC and IMMORTAL must be the parent's too. *)
PrivilegesWithin(i, f) == f \cap {"public", "immortal"} \subseteq flags[i]

(* Mutant: the rights are not compared with the parent's. *)
MayDeriveMore(t, p, r) ==
  /\ p \in used /\ deleted[p] = 0
  /\ InAudience(p, t)
  /\ "derive" \in rights[p]
  /\ PrivilegesWithin(p, r.flags)
  /\ AudienceWithin(p, r.aud)

(* Without an audience the request is for the caller alone, who is in the  *)
(* parent's.                                                               *)
MayDerive(t, p, r) ==
  /\ p \in used /\ deleted[p] = 0
  /\ InAudience(p, t)
  /\ "derive" \in rights[p] /\ r.rights \subseteq rights[p]
  /\ PrivilegesWithin(p, r.flags)
  /\ AudienceWithin(p, r.aud)

Want(t, p, r) ==
  /\ pc' = [pc EXCEPT ![t] = "create"]
  /\ want' = [want EXCEPT ![t] =
       [parent |-> p, rights |-> r.rights, aud |-> r.aud,
        flags |-> r.flags \cup (IF Anyone \in r.aud THEN {"public"} ELSE {})]]
  /\ UNCHANGED <<attributes, deleted, generation, children, self, cascade, swept, late>>

wubu_cap_derive(t, p, r) == pc[t] = "idle" /\ MayDerive(t, p, r) /\ Want(t, p, r)

wubu_cap_create(t, r) == pc[t] = "idle" /\ Want(t, NoParent, r)

(* cap_find_free_slot_locked *)
FirstFree(s) == s \notin used /\ \A j \in Idx \ used : s <= j

Finish(t) ==
  /\ pc' = [pc EXCEPT ![t] = "idle"] /\ want' = [want EXCEPT ![t] = Nothing]
  /\ self' = [self EXCEPT ![t] = NoParent]

Publish(t) ==
  /\ pc[t] = "create"
  /\ \E s \in Idx :
       /\ FirstFree(s)
       /\ used' = used \cup {s}
       /\ rights' = [rights EXCEPT ![s] = want[t].rights]
       /\ aud' = [aud EXCEPT ![s] = want[t].aud]
       /\ flags' = [flags EXCEPT ![s] = want[t].flags]
       /\ parent' = [parent EXCEPT ![s] = want[t].parent]
       /\ IF want[t].parent = NoParent
          THEN Finish(t)
          ELSE /\ pc' = [pc EXCEPT ![t] = "link"] /\ self' = [self EXCEPT ![t] = s]
               /\ UNCHANGED want
  /\ UNCHANGED <<deleted, generation, children, cascade, swept, late>>

RegistryFull(t) ==
  /\ pc[t] = "create" /\ used = Idx
  /\ Finish(t)
  /\ UNCHANGED <<attributes, deleted, generation, children, cascade, swept, late>>

wubu_cap_link_child(t) ==
  /\ pc[t] = "link"
  /\ children' = [children EXCEPT ![parent[self[t]]] = <<self[t]>> \o @]
  /\ late' = late \cup (IF parent[self[t]] \in swept THEN {self[t]} ELSE {})
  /\ Finish(t)
  /\ UNCHANGED <<attributes, deleted, generation, cascade, swept>>

-----------------------------------------------------------------------------
Mark(i) ==
  /\ deleted' = [deleted EXCEPT ![i] = 1]
  /\ generation' = [generation EXCEPT ![i] = @ + (1 - deleted[i])]

wubu_cap_revoke(t, i) ==
  /\ pc[t] = "idle"
  /\ i \in used /\ "immortal" \notin flags[i] /\ deleted[i] = 0
  /\ Mark(i)
  /\ IF "eager" \in flags[i]
     THEN pc' = [pc EXCEPT ![t] = "collect"] /\ self' = [self EXCEPT ![t] = i]
     ELSE UNCHANGED <<pc, self>>
  /\ UNCHANGED <<attributes, children, want, cascade, swept, late>>

(* Mutant: the truncation is not noticed. *)
EnqueueSilently(t, i, rest) ==
  LET room == CascadeMax - tail[t]
      more == IF Len(children[i]) <= room THEN children[i] ELSE SubSeq(children[i], 1, room) IN
  /\ queue' = [queue EXCEPT ![t] = rest \o more]
  /\ tail' = [tail EXCEPT ![t] = @ + Len(more)]
  /\ swept' = swept \cup {i} /\ UNCHANGED cut

(* The children of i go to the end of t's queue, as far as there is room.  *)
Enqueue(t, i, rest) ==
  LET room == CascadeMax - tail[t]
      fits == Len(children[i]) <= room
      more == IF fits THEN children[i] ELSE SubSeq(children[i], 1, room) IN
  /\ queue' = [queue EXCEPT ![t] = rest \o more]
  /\ tail' = [tail EXCEPT ![t] = @ + Len(more)]
  /\ cut' = [cut EXCEPT ![t] = IF fits THEN @ ELSE 1]
  /\ swept' = swept \cup {i}

Collect(t) ==
  /\ pc[t] = "collect"
  /\ Enqueue(t, self[t], <<>>)
  /\ pc' = [pc EXCEPT ![t] = "walk"]
  /\ UNCHANGED <<attributes, deleted, generation, children, want, self, late>>

WalkInPlace(t) ==
  /\ pc[t] = "walk" /\ queue[t] # <<>>
  /\ Mark(Head(queue[t])) /\ Enqueue(t, Head(queue[t]), queue[t])
  /\ UNCHANGED <<attributes, children, pc, want, self, late>>

Walk(t) ==
  /\ pc[t] = "walk" /\ queue[t] # <<>>
  /\ LET i == Head(queue[t]) IN
       IF "immortal" \in flags[i]
       THEN /\ queue' = [queue EXCEPT ![t] = Tail(@)]
            /\ UNCHANGED <<deleted, generation, tail, cut, swept>>
       ELSE Mark(i) /\ Enqueue(t, i, Tail(queue[t]))
  /\ UNCHANGED <<attributes, children, pc, want, self, late>>

CascadeEnd(t) ==
  /\ pc[t] = "walk" /\ queue[t] = <<>>
  /\ flags' = [flags EXCEPT ![self[t]] = IF cut[t] = 1 THEN @ \cup {"truncated"} ELSE @]
  /\ Finish(t)
  /\ tail' = [tail EXCEPT ![t] = 0] /\ cut' = [cut EXCEPT ![t] = 0]
  /\ UNCHANGED <<used, rights, aud, parent, deleted, generation, children, queue, swept, late>>

Steps(t) ==
  \/ Publish(t) \/ RegistryFull(t) \/ wubu_cap_link_child(t)
  \/ Collect(t) \/ Walk(t) \/ CascadeEnd(t)

Next ==
  \E t \in Threads :
    \/ Steps(t)
    \/ \E r \in RootRequests : wubu_cap_create(t, r)
    \/ \E p \in Idx, r \in Requests : wubu_cap_derive(t, p, r)
    \/ \E i \in Idx : wubu_cap_revoke(t, i)

Spec == Init /\ [][Next]_vars

-----------------------------------------------------------------------------
TypeOK ==
  /\ used \subseteq Idx /\ swept \subseteq used /\ late \subseteq used
  /\ rights \in [Idx -> SUBSET Rights] /\ aud \in [Idx -> SUBSET (Threads \cup {Anyone})]
  /\ flags \in [Idx -> SUBSET Flags] /\ parent \in [Idx -> used \cup {NoParent}]
  /\ deleted \in [Idx -> {0, 1}] /\ generation \in [Idx -> {1, 2}]
  /\ children \in [Idx -> Seq(used)]
  /\ pc \in [Threads -> {"idle", "create", "link", "collect", "walk"}]
  /\ want \in [Threads -> [parent : used \cup {NoParent}, rights : SUBSET Rights,
       aud : SUBSET (Threads \cup {Anyone}), flags : SUBSET Flags]]
  /\ self \in [Threads -> used \cup {NoParent}]
  /\ queue \in [Threads -> Seq(used)] /\ tail \in [Threads -> 0 .. CascadeMax]
  /\ cut \in [Threads -> {0, 1}]

(* Deriving only ever narrows: whatever calls were made, and however they  *)
(* interleaved with revocations, a capability has no right, no audience    *)
(* and neither of the privileged flags PUBLIC and IMMORTAL that the one it *)
(* was derived from lacks.                                                 *)
AuthorityNarrows ==
  \A i \in used : parent[i] # NoParent =>
    /\ rights[i] \subseteq rights[parent[i]]
    /\ PrivilegesWithin(parent[i], flags[i])
    /\ AudienceWithin(parent[i], aud[i])

(* An immortal capability survives every cascade, and so does all that     *)
(* only it leads to: nothing immortal ever hangs below something revoked.  *)
ImmortalUntouched ==
  \A i \in used : "immortal" \in flags[i] =>
    deleted[i] = 0 /\ (parent[i] # NoParent => deleted[parent[i]] = 0)

Linked(i) == i \in used /\ parent[i] # NoParent /\ i \in Range(children[parent[i]])

CutShort == \E i \in used : "truncated" \in flags[i]

(* wubu_cap_revoke of an eager capability reaches everything derived from  *)
(* it that was linked when the cascade came by: a child of an object the   *)
(* cascade visited is itself dead and visited, when no cascade is under    *)
(* way and none was flagged as truncated.                                  *)
CascadeComplete ==
  (~CutShort /\ \A t \in Threads : pc[t] \notin {"collect", "walk"}) =>
    \A i \in used : Linked(i) /\ parent[i] \in swept /\ i \notin late =>
      deleted[i] = 1 /\ i \in swept

(* What wubu_cap_system.c says of revoking the boot capability: when all   *)
(* is quiet, nothing derived from a cascaded capability is left alive.     *)
NothingOutlives ==
  (~CutShort /\ \A t \in Threads : pc[t] = "idle") =>
    \A i \in used : parent[i] \in swept => deleted[i] = 1
=============================================================================
