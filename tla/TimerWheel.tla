----------------------------- MODULE TimerWheel -----------------------------
(***************************************************************************)
(* The hierarchical timer wheel, src/src/kernel/timer_wheel.c.  A slot is  *)
(* its list from the head; an entry is its index in the pool and its       *)
(* expiry.  tw_advance runs in the timer interrupt.  The kernel calls      *)
(* tw_add in a task with interrupts on (src/src/kernel/tasking.c), so its  *)
(* test of now, its second reading of now, its reading of the slot's head  *)
(* and its linking are separate steps.                                     *)
(***************************************************************************)
EXTENDS Naturals, Sequences, FiniteSets, Functions

CONSTANTS
  TW_LEVELS, TW_SLOTS,
  TW_MAX_ENTRIES,  \* the size of the pool
  MaxDue,      \* tw_advance's max
  Deltas,      \* how far ahead of now entries are added
  MaxNow,      \* bound: ticks
  MaxInside,   \* the interrupts that may fall inside one tw_add ...
  Windows      \* ... and the steps after which they may

ASSUME TimerWheelAssumption ==
  /\ TW_LEVELS \in Nat \ {0} /\ TW_SLOTS \in Nat \ {0, 1}
  /\ TW_MAX_ENTRIES \in Nat /\ MaxDue \in Nat /\ MaxNow \in Nat /\ MaxInside \in Nat
  /\ Deltas \subseteq Nat /\ Windows \subseteq {"tested", "placed", "linking"}

VARIABLES
  now, slots, pool_used, pending,  \* the fields of tw_t
  adding,  \* the tw_add under way: its last step, its entry and where it goes
  inside,  \* the interrupts taken since it started
  hit,     \* history: the entries whose tw_add an interrupt fell in
  out      \* what the last tw_advance reported

wheelVars == <<now, slots, pool_used, pending, adding, inside, hit, out>>

(* Each definition named for a defect (CascadeKeepsHead, ...) is a         *)
(* defective form of one that follows it, used to see that a property      *)
(* notices.                                                                *)

None == [step |-> "none", n |-> 0, expiry |-> 0, level |-> 0, slot |-> 0, tail |-> <<>>]
AllLevels == 0 .. (TW_LEVELS - 1)
AllSlots == 0 .. (TW_SLOTS - 1)
tw_entry_t == [n : Nat, expiry : Nat]
Wheel == [AllLevels -> [AllSlots -> Seq(tw_entry_t)]]
Entries == UNION {Range(slots[l][s]) : l \in AllLevels, s \in AllSlots}

(* The ticks that one slot of level l covers; of all levels, the wheel's. *)
span[l \in 0 .. TW_LEVELS] == IF l = 0 THEN 1 ELSE span[l - 1] * TW_SLOTS

(* The first level that covers delta, or the last level. *)
level_for(delta) ==
  CHOOSE l \in AllLevels :
    /\ l + 1 < TW_LEVELS => delta < span[l + 1]
    /\ \A k \in 1 .. l : delta >= span[k]

SlotOf(expiry, l) == (expiry \div span[l]) % TW_SLOTS

Link(w, e, l, s) == [w EXCEPT ![l][s] = <<e>> \o @]

(* e is linked where its distance from time t puts it. *)
Place(w, e, t) ==
  LET l == level_for(IF e.expiry > t THEN e.expiry - t ELSE 0)
  IN Link(w, e, l, SlotOf(e.expiry, l))

(* The loop over an unhooked list: what becomes of the wheel, and of the   *)
(* entries that are due if the loop fires them.  The others are placed.    *)
Refile(r, e, t, firing) ==
  IF firing /\ e.expiry <= t THEN [r EXCEPT !.due = Append(@, e)]
  ELSE [r EXCEPT !.wheel = Place(@, e, t)]
Refiling(w, list, t, firing) ==
  LET r[k \in 0 .. Len(list)] ==
        IF k = 0 THEN [wheel |-> w, due |-> <<>>] ELSE Refile(r[k - 1], list[k], t, firing)
  IN r

CascadeKeepsHead(w, l, s, t) == Refiling(w, w[l][s], t, FALSE)[Len(w[l][s])].wheel

Unhooked(w, l, s) == [w EXCEPT ![l][s] = <<>>]
cascade(w, l, s, t) == Refiling(Unhooked(w, l, s), w[l][s], t, FALSE)[Len(w[l][s])].wheel

WheelInit ==
  /\ now = 0
  /\ slots = [l \in AllLevels |-> [s \in AllSlots |-> <<>>]]
  /\ pool_used = 0 /\ pending = 0
  /\ adding = None /\ inside = 0 /\ hit = {} /\ out = {}

tw_init ==
  /\ adding = None
  /\ now' = 0
  /\ slots' = [l \in AllLevels |-> [s \in AllSlots |-> <<>>]]
  /\ pool_used' = 0 /\ pending' = 0 /\ hit' = {} /\ out' = {}
  /\ UNCHANGED <<adding, inside>>

(* tw_add: the tests that can refuse the entry ...                         *)
AddTest(d) ==
  /\ adding = None
  /\ now + d <= MaxNow
  /\ pool_used < TW_MAX_ENTRIES
  /\ adding' = [None EXCEPT !.step = "tested", !.expiry = now + d]
  /\ inside' = 0
  /\ UNCHANGED <<now, slots, pool_used, pending, hit, out>>

(* ... the pool entry and its slot; delta wraps round 2^64 to beyond every *)
(* level's span if now has passed expiry since the test ...                *)
AddPlace ==
  /\ adding.step = "tested"
  /\ LET l == IF now <= adding.expiry THEN level_for(adding.expiry - now) ELSE TW_LEVELS - 1
     IN adding' = [adding EXCEPT !.step = "placed", !.n = pool_used + 1, !.level = l,
                                 !.slot = SlotOf(adding.expiry, l)]
  /\ pool_used' = pool_used + 1
  /\ UNCHANGED <<now, slots, pending, inside, hit, out>>

(* ... e->next = the slot's head ...                                       *)
AddReadHead ==
  /\ adding.step = "placed"
  /\ adding' = [adding EXCEPT !.step = "linking", !.tail = slots[adding.level][adding.slot]]
  /\ UNCHANGED <<now, slots, pool_used, pending, inside, hit, out>>

(* ... and the head becomes e, with what e->next pointed to behind it.  If *)
(* an interrupt has meanwhile emptied the slot, its old list hangs on e;   *)
(* how lists that share entries then change is not modelled.               *)
AddLink ==
  /\ adding.step = "linking"
  /\ slots' = [slots EXCEPT ![adding.level][adding.slot] =
                 <<[n |-> adding.n, expiry |-> adding.expiry]>> \o adding.tail]
  /\ pending' = pending + 1
  /\ adding' = None
  /\ hit' = IF inside > 0 THEN hit \cup {adding.n} ELSE hit
  /\ UNCHANGED <<now, pool_used, inside, out>>

(* The wheel as the levels above 0 whose period ends at time t cascade. *)
Cascading(w, t) ==
  LET v[l \in AllLevels] ==
        IF l = 0 THEN w
        ELSE IF t % span[l] = 0 THEN cascade(v[l - 1], l, SlotOf(t, l), t) ELSE v[l - 1]
  IN v

(* The wheel after the sweep of level 0, and what was due. *)
Fire(w, t) ==
  LET list == w[0][t % TW_SLOTS]
  IN Refiling(Unhooked(w, 0, t % TW_SLOTS), list, t, TRUE)[Len(list)]

TickFiresFirst(w, t) ==
  LET r == Fire(w, t) IN [r EXCEPT !.wheel = Cascading(@, t)[TW_LEVELS - 1]]

(* tw_advance on the wheel w, once the time is t. *)
Ticked(w, t) == Fire(Cascading(w, t)[TW_LEVELS - 1], t)

tw_advance ==
  LET swept == Ticked(slots, now + 1)
      fired == SubSeq(swept.due, 1, IF Len(swept.due) < MaxDue THEN Len(swept.due)
                                                               ELSE MaxDue)
  IN /\ now < MaxNow + span[TW_LEVELS]
     /\ adding # None => inside < MaxInside /\ adding.step \in Windows
     /\ now' = now + 1
     /\ slots' = swept.wheel
     /\ out' = {fired[k].n : k \in DOMAIN fired}
     /\ pending' = pending - Len(swept.due)
     /\ inside' = IF adding # None THEN inside + 1 ELSE inside
     /\ UNCHANGED <<pool_used, adding, hit>>

WheelNext ==
  \/ tw_init \/ tw_advance
  \/ AddPlace \/ AddReadHead \/ AddLink \/ \E d \in Deltas : AddTest(d)

WheelSpec == WheelInit /\ [][WheelNext]_wheelVars

-----------------------------------------------------------------------------
WheelTypeOK ==
  /\ now \in Nat /\ pool_used \in 0..TW_MAX_ENTRIES /\ pending \in 0..TW_MAX_ENTRIES
  /\ slots \in Wheel
  /\ adding \in [step : {"none", "tested", "placed", "linking"}, n : 0..TW_MAX_ENTRIES,
                 expiry : Nat, level : AllLevels, slot : AllSlots,
                 tail : Seq(tw_entry_t)]
  /\ inside \in 0..MaxInside /\ hit \subseteq 1..TW_MAX_ENTRIES /\ out \subseteq 1..TW_MAX_ENTRIES

(* No entry is lost or held twice by tw_add and the cascades: the wheel    *)
(* holds as many as pending says, each in one place, and none that has     *)
(* just been reported.                                                     *)
EntriesExact ==
  /\ Cardinality(Entries) = pending
  /\ \A e, f \in Entries : e.n = f.n => e = f
  /\ \A l \in AllLevels, s \in AllSlots :
       /\ IsInjective(slots[l][s])
       /\ \A e \in Range(slots[l][s]) :
            /\ e.n \notin out
            /\ \A k \in AllLevels, r \in AllSlots :
                 e \in Range(slots[k][r]) => k = l /\ r = s

(* What the wheel promises of an entry at time t: the queue's entry. *)
Promise(e, t, slips) ==
  [n |-> e.n,
   due |-> IF e.expiry > t \/ slips THEN e.expiry ELSE e.expiry + TW_SLOTS,
   slips |-> slips]
Waiting == {Promise(e, now, e.n \in hit) : e \in Entries}
Added == IF adding.n = 0 THEN pool_used ELSE pool_used - 1

(* The wheel does what TimerQueue says: each entry is reported at its own  *)
(* tick, whatever level it was filed at and however often it cascaded.     *)
(* One whose tw_add was interrupted before the slot's head was read may    *)
(* have missed its slot on any level, or wrapped its delta, and slips by   *)
(* at most one turn of the whole wheel.                                    *)
Queue == INSTANCE TimerQueue WITH
  PoolSize <- TW_MAX_ENTRIES, Rotation <- TW_SLOTS, Span <- span[TW_LEVELS], Slip <- MaxInside,
  added <- Added, waiting <- Waiting

ImplementsQueue == Queue!Spec

(* test_timer_wheel.c: "no entry woke late".  tw_advance keeps no entry    *)
(* beyond the tick of its expiry.                                          *)
NoneOverdue == \A e \in Entries : now <= e.expiry
=============================================================================
