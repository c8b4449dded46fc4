-------------------------------- MODULE Vmm --------------------------------
(***************************************************************************)
(* kernel/wubu_vmm.c and kernel/wubu_swap.c under handle_page_fault: the   *)
(* page allocator with its reference counts, the mapping of pages,         *)
(* copy-on-write, demand-zero pages and swapping.                          *)
(*                                                                         *)
(* A frame's contents are one value.  The tables above a page are created  *)
(* on the way down, each from a page of its own; Path says which ones an   *)
(* address goes through.  The allocator runs with interrupts off and the   *)
(* fault handler behind an interrupt gate; the mapping calls come from one *)
(* context; each is one step.  wubu_swap_out is three: it runs with        *)
(* interrupts on, and others run between its write to the disk, its notes  *)
(* in the slot tables and its unmapping of the page.                       *)
(*                                                                         *)
(* Callers own what they use: a handle on a page from the allocator is     *)
(* handed over to a mapping or freed, a shared mapping has a reference of  *)
(* its own, and discarding a mapping frees its reference.                  *)
(***************************************************************************)
EXTENDS Integers, Sequences, FiniteSets

CONSTANTS
  NFrames,      \* WUBU_VMM_BITMAP_BITS
  Reserved,     \* the frames wubu_vmm_init marks as used
  VAs,          \* the pages of the address space in use
  Demand,       \* those in a region given to wubu_vmm_register_demand
  Tables, Path, \* page tables not there at boot, and each address's, top down
  RefMax,       \* 0xFFFF
  NSlots,       \* WUBU_SWAP_SLOTS
  Values,       \* contents of a page, 0 among them
  Evictors,     \* the tasks that call wubu_swap_out
  EvictShared,  \* whether they pick pages that others share
  None,
  Budgets       \* how many allocations, shared mappings, accesses and
                \* evictions there may be

Frames == 0 .. NFrames - 1
Slots == 1 .. NSlots       \* the code's number plus one; 0 is no slot

ASSUME VmmAssumption ==
  /\ NFrames \in Nat \ {0} /\ NSlots \in Nat /\ RefMax \in Nat \ {0}
  /\ Reserved \subseteq Frames /\ Demand \subseteq VAs /\ 0 \in Values
  /\ Path \in [VAs -> Seq(Tables)] /\ EvictShared \in BOOLEAN
  /\ \A a \in VAs : \A i, j \in DOMAIN Path[a] : Path[a][i] = Path[a][j] => i = j
  /\ None \notin Frames \cup VAs \cup Values \cup [frame : Frames, write : BOOLEAN]
  /\ None \notin [va : VAs, v : Values \cup {None}]
                 \cup [va : VAs, frame : Frames, slot : Slots, recorded : BOOLEAN]
  /\ Budgets \subseteq [{"alloc", "share", "access", "evict"} -> Nat]

VARIABLES
  pool,             \* g_bitmap, g_refs and g_free_pages
  mem,              \* the contents of the frames
  tables,           \* the frame of every page table, None before it is made
  pte,              \* each address's entry, None when it is not present
  frameSlot,        \* g_frame_slot
  slotVa,           \* g_va_addr where g_va_slot and g_slots are set, else None
  disk,             \* the contents of the swap slots
  evicting,         \* each evictor's page in wubu_swap_out, or None
  access,           \* the load or store a program is at, or None
  halted,           \* handle_page_fault has given up
  left,             \* what is left of the budget
  handles,          \* history: pages callers hold from the allocator
  lost,             \* history: references to a frame that nobody can drop
  faults,           \* history: of the access so far, since its page last went out
  val, overtaken    \* history: what the program last stored at an address;
                    \* addresses stored to while wubu_swap_out was at them
tracked == <<frameSlot, slotVa, disk, evicting>>
history == <<handles, lost, val, overtaken, faults>>
vars == <<pool, mem, tables, pte, tracked, access, halted, left, history>>

(* wubu_vmm_init.                                                          *)
Init ==
  /\ pool = [used |-> Reserved, refs |-> [f \in Frames |-> 0],
             free |-> NFrames - Cardinality(Reserved)]
  /\ mem \in [Frames -> Values \ {0}] /\ disk = [s \in Slots |-> 0]
  /\ tables = [t \in Tables |-> None] /\ pte = [a \in VAs |-> None]
  /\ frameSlot = [f \in Frames |-> 0] /\ slotVa = [s \in Slots |-> None]
  /\ evicting = [e \in Evictors |-> None] /\ access = None /\ halted = FALSE /\ left \in Budgets
  /\ handles = {} /\ lost = [f \in Frames |-> 0]
  /\ val = [a \in VAs |-> 0] /\ overtaken = {} /\ faults = 0

-----------------------------------------------------------------------------
(* What a scan from the bottom finds. *)
Lowest(S) == CHOOSE x \in S : \A y \in S : x <= y

(* wubu_vmm_alloc_pages: the first run of n free pages, if there is one.   *)
Runs(p, n) == {f \in Frames : f .. f + n - 1 \subseteq Frames \ p.used}
Taken(p, fs) ==
  [used |-> p.used \cup fs, free |-> p.free - Cardinality(fs),
   refs |-> [f \in Frames |-> IF f \in fs THEN 1 ELSE p.refs[f]]]

(* wubu_vmm_ref on one page, and a mutant that leaves the count alone.     *)
RefNothing(p, f) == p
Ref(p, f) ==
  IF f \in p.used /\ p.refs[f] < RefMax THEN [p EXCEPT !.refs[f] = @ + 1] ELSE p

(* wubu_vmm_free_pages on one page: the last reference returns it.         *)
FreePage(p, f) ==
  CASE f \notin p.used -> p
    [] p.refs[f] > 1 -> [p EXCEPT !.refs[f] = @ - 1]
    [] OTHER -> [used |-> p.used \ {f}, free |-> p.free + 1,
                 refs |-> [p.refs EXCEPT ![f] = 0]]

(* The walk of wubu_vmm_map_page: the tables missing on the way are made   *)
(* one by one from the first free pages, until there are none; the ones    *)
(* made stay.                                                              *)
Rank(S, x) == Cardinality({y \in S : y <= x})
Level(a, t) == CHOOSE i \in DOMAIN Path[a] : Path[a][i] = t
Missing(a) == {i \in DOMAIN Path[a] : tables[Path[a][i]] = None}
Made(p, a) == {i \in Missing(a) : Rank(Missing(a), i) <= Cardinality(Frames \ p.used)}
NewTable(p, a, i) ==
  CHOOSE f \in Frames \ p.used : Rank(Frames \ p.used, f) = Rank(Missing(a), i)
Walk(p, a) ==
  [ok |-> Made(p, a) = Missing(a),
   pool |-> Taken(p, {NewTable(p, a, i) : i \in Made(p, a)}),
   tables |-> [t \in Tables |-> IF \E i \in Made(p, a) : Path[a][i] = t
                               THEN NewTable(p, a, Level(a, t)) ELSE tables[t]]]
Entry(f, w) == [frame |-> f, write |-> w]

-----------------------------------------------------------------------------
Spend(what) == left[what] > 0 /\ left' = [left EXCEPT ![what] = @ - 1]
Evicted(a) == \E s \in Slots : slotVa[s] = a
BeingEvicted(a) == \E e \in Evictors : evicting[e] # None /\ evicting[e].va = a
Busy(a) == access # None /\ access.va = a
Vacant(a) == a \notin Demand /\ pte[a] = None /\ ~Evicted(a)

(* wubu_vmm_alloc_pages by a caller that fills the pages with v.           *)
AllocPages(n, v) ==
  /\ Spend("alloc") /\ Runs(pool, n) # {}
  /\ LET first == Lowest(Runs(pool, n))
         fs == first .. first + n - 1
     IN  /\ pool' = Taken(pool, fs) /\ handles' = handles \cup fs
         /\ mem' = [f \in Frames |-> IF f \in fs THEN v ELSE mem[f]]
  /\ UNCHANGED <<tables, pte, tracked, access, halted, lost, val, overtaken, faults>>

(* wubu_vmm_free_pages by the holder of a page.                            *)
FreePages(f) ==
  /\ f \in handles
  /\ pool' = FreePage(pool, f) /\ handles' = handles \ {f}
  /\ UNCHANGED <<mem, tables, pte, tracked, access, halted, left, lost, val, overtaken, faults>>

(* wubu_vmm_map_page with flags 3, of a page not shared before: it passes  *)
(* to the mapping.                                                         *)
MapPage(f, a) ==
  /\ f \in handles /\ pool.refs[f] = 1 /\ Vacant(a)
  /\ LET w == Walk(pool, a)
     IN  /\ pool' = w.pool /\ tables' = w.tables
         /\ pte' = IF w.ok THEN [pte EXCEPT ![a] = Entry(f, TRUE)] ELSE pte
         /\ handles' = IF w.ok THEN handles \ {f} ELSE handles
         /\ val' = IF w.ok THEN [val EXCEPT ![a] = mem[f]] ELSE val
  /\ UNCHANGED <<mem, tracked, access, halted, left, lost, overtaken, faults>>

(* wubu_vmm_map_shared: the reference is taken first and kept when the     *)
(* mapping fails.                                                          *)
MapShared(f, a) ==
  /\ Spend("share") /\ f \in handles /\ Vacant(a)
  /\ LET w == Walk(Ref(pool, f), a)
     IN  /\ pool' = w.pool /\ tables' = w.tables
         /\ pte' = IF w.ok THEN [pte EXCEPT ![a] = Entry(f, FALSE)] ELSE pte
         /\ lost' = IF w.ok \/ Ref(pool, f) = pool THEN lost ELSE [lost EXCEPT ![f] = @ + 1]
         /\ val' = IF w.ok THEN [val EXCEPT ![a] = mem[f]] ELSE val
  /\ UNCHANGED <<mem, tracked, access, halted, handles, overtaken, faults>>

(* wubu_vmm_unmap by the owner of a mapping, who then frees its page.      *)
Discard(a) ==
  /\ pte[a] # None /\ ~BeingEvicted(a) /\ ~Busy(a)
  /\ pool' = FreePage(pool, pte[a].frame) /\ pte' = [pte EXCEPT ![a] = None]
  /\ val' = [val EXCEPT ![a] = 0] /\ overtaken' = overtaken \ {a}
  /\ UNCHANGED <<mem, tables, tracked, access, halted, left, handles, lost, faults>>

-----------------------------------------------------------------------------
(* wubu_swap_out up to its write to the disk: nothing when the frame is    *)
(* out already, the first free slot otherwise.                             *)
Private(f) == pool.refs[f] = 1 /\ f \notin handles
SwapOut(e, a) ==
  /\ evicting[e] = None /\ Spend("evict")
  /\ pte[a] # None /\ ~BeingEvicted(a) /\ (EvictShared \/ Private(pte[a].frame))
  /\ frameSlot[pte[a].frame] = 0
  /\ \E s \in Slots :
       /\ slotVa[s] = None /\ \A r \in Slots : r < s => slotVa[r] # None
       /\ disk' = [disk EXCEPT ![s] = mem[pte[a].frame]]
       /\ evicting' = [evicting EXCEPT ![e] =
                        [va |-> a, frame |-> pte[a].frame, slot |-> s, recorded |-> FALSE]]
  /\ UNCHANGED <<pool, mem, tables, pte, frameSlot, slotVa, access, halted, history>>

(* Its entries in the slot tables.                                         *)
SwapRecord(e) ==
  /\ evicting[e] # None /\ ~evicting[e].recorded
  /\ frameSlot' = [frameSlot EXCEPT ![evicting[e].frame] = evicting[e].slot]
  /\ slotVa' = [slotVa EXCEPT ![evicting[e].slot] = evicting[e].va]
  /\ evicting' = [evicting EXCEPT ![e].recorded = TRUE]
  /\ UNCHANGED <<pool, mem, tables, pte, disk, access, halted, left, history>>

(* Its call of wubu_vmm_unmap; the frame stays with the slot.              *)
SwapUnmap(e) ==
  /\ evicting[e] # None /\ evicting[e].recorded
  /\ pte' = [pte EXCEPT ![evicting[e].va] = None]
  /\ evicting' = [evicting EXCEPT ![e] = None]
  /\ faults' = IF Busy(evicting[e].va) THEN 0 ELSE faults
  /\ UNCHANGED <<pool, mem, tables, frameSlot, slotVa, disk, access, halted, left,
                 handles, lost, val, overtaken>>

-----------------------------------------------------------------------------
(* A program loads (v is None) or stores v at an address it may use; a load *)
(* that does not fault changes nothing.                                    *)
Begin(a, v) ==
  /\ access = None /\ Spend("access")
  /\ IF pte[a] = None THEN Evicted(a) \/ a \in Demand ELSE v # None
  /\ access' = [va |-> a, v |-> v] /\ faults' = 0
  /\ UNCHANGED <<pool, mem, tables, pte, tracked, halted, handles, lost, val, overtaken>>

Permitted == pte[access.va] # None /\ (access.v = None \/ pte[access.va].write)
Complete ==
  /\ access # None /\ Permitted
  /\ access' = None /\ faults' = 0
  /\ IF access.v = None THEN UNCHANGED <<mem, val, overtaken>>
     ELSE /\ mem' = [mem EXCEPT ![pte[access.va].frame] = access.v]
          /\ val' = [val EXCEPT ![access.va] = access.v]
          /\ overtaken' = IF BeingEvicted(access.va)
                          THEN overtaken \cup {access.va} ELSE overtaken
  /\ UNCHANGED <<pool, tables, pte, tracked, halted, left, handles, lost>>

-----------------------------------------------------------------------------
(* handle_page_fault, tried in the order of the code.                      *)
Faulting(a) == Busy(a) /\ ~Permitted
ofCallers == <<access, left, handles, lost, val, overtaken>>

(* wubu_vmm_demand_fill: a zero page in place of whatever was mapped.      *)
DemandFill(a) ==
  /\ Faulting(a) /\ a \in Demand /\ Runs(pool, 1) # {}
  /\ LET f == Lowest(Runs(pool, 1))
         w == Walk(Taken(pool, {f}), a)
     IN  /\ mem' = [mem EXCEPT ![f] = 0] /\ tables' = w.tables
         /\ pool' = IF w.ok THEN w.pool ELSE FreePage(w.pool, f)
         /\ pte' = IF w.ok THEN [pte EXCEPT ![a] = Entry(f, TRUE)] ELSE pte
         /\ halted' = ~w.ok
  /\ UNCHANGED <<tracked, ofCallers>>
NotFilled(a) == Faulting(a) /\ (a \in Demand => Runs(pool, 1) = {})

\* A mutant of what follows: two users count as one.
CowAlonePair(a) ==
  /\ NotFilled(a) /\ pte[a] # None /\ pool.refs[pte[a].frame] <= 2
  /\ pte' = [pte EXCEPT ![a].write = TRUE]
  /\ UNCHANGED <<pool, mem, tables, tracked, halted, ofCallers>>
(* wubu_vmm_cow_fault when the count says that nobody shares the page.     *)
CowAlone(a) ==
  /\ NotFilled(a) /\ pte[a] # None /\ pool.refs[pte[a].frame] <= 1
  /\ pte' = [pte EXCEPT ![a].write = TRUE]
  /\ UNCHANGED <<pool, mem, tables, tracked, halted, ofCallers>>

\* A mutant of what follows: the new page is not filled.
CowBlank(a) ==
  /\ NotFilled(a) /\ pte[a] # None /\ pool.refs[pte[a].frame] > 1
  /\ Runs(pool, 1) # {}
  /\ LET f == Lowest(Runs(pool, 1))
     IN  /\ pool' = FreePage(Taken(pool, {f}), pte[a].frame)
         /\ pte' = [pte EXCEPT ![a] = Entry(f, TRUE)]
  /\ UNCHANGED <<mem, tables, tracked, halted, ofCallers>>

(* wubu_vmm_cow_fault on a shared page: a copy, and one reference less.    *)
CowCopy(a) ==
  /\ NotFilled(a) /\ pte[a] # None /\ pool.refs[pte[a].frame] > 1
  /\ Runs(pool, 1) # {}
  /\ LET f == Lowest(Runs(pool, 1))
     IN  /\ mem' = [mem EXCEPT ![f] = mem[pte[a].frame]]
         /\ pool' = FreePage(Taken(pool, {f}), pte[a].frame)
         /\ pte' = [pte EXCEPT ![a] = Entry(f, TRUE)]
  /\ UNCHANGED <<tables, tracked, halted, ofCallers>>
NotCopied(a) ==
  NotFilled(a) /\ (pte[a] # None => pool.refs[pte[a].frame] > 1 /\ Runs(pool, 1) = {})

(* wubu_swap_va_slot: the first slot of the address.                       *)
SlotOf(a) == Lowest({s \in Slots : slotVa[s] = a})
\* A mutant of what follows: the page comes back read-only.
SwapInReadOnly(a) ==
  /\ NotCopied(a) /\ Evicted(a)
  /\ LET s == SlotOf(a)
         from == {f \in Frames : frameSlot[f] = s}
         w == Walk(pool, a)
         f == Lowest(from)
     IN  /\ pool' = w.pool /\ tables' = w.tables
         /\ from # {} /\ mem' = [mem EXCEPT ![f] = disk[s]]
         /\ pte' = IF w.ok THEN [pte EXCEPT ![a] = Entry(f, FALSE)] ELSE pte
         /\ slotVa' = IF w.ok THEN [slotVa EXCEPT ![s] = None] ELSE slotVa
         /\ frameSlot' = IF w.ok THEN [frameSlot EXCEPT ![f] = 0] ELSE frameSlot
         /\ halted' = ~w.ok
  /\ UNCHANGED <<disk, evicting, ofCallers>>

(* wubu_swap_in: the page is read into the first frame that has the slot.  *)
SwapIn(a) ==
  /\ NotCopied(a) /\ Evicted(a)
  /\ LET s == SlotOf(a)
         from == {f \in Frames : frameSlot[f] = s}
         w == Walk(pool, a)
         f == Lowest(from)
     IN  /\ pool' = w.pool /\ tables' = w.tables
         /\ from # {} /\ mem' = [mem EXCEPT ![f] = disk[s]]
         /\ pte' = IF w.ok THEN [pte EXCEPT ![a] = Entry(f, TRUE)] ELSE pte
         /\ slotVa' = IF w.ok THEN [slotVa EXCEPT ![s] = None] ELSE slotVa
         /\ frameSlot' = IF w.ok THEN [frameSlot EXCEPT ![f] = 0] ELSE frameSlot
         /\ halted' = ~w.ok
  /\ UNCHANGED <<disk, evicting, ofCallers>>

\* A mutant of what follows: the swap area is not asked first.
PanicEarly(a) ==
  /\ NotCopied(a)
  /\ halted' = TRUE
  /\ UNCHANGED <<pool, mem, tables, pte, tracked, ofCallers>>
(* Nothing helped: the dump, and the machine stops.                        *)
Panic(a) ==
  /\ NotCopied(a)
  /\ Evicted(a) => \A f \in Frames : frameSlot[f] # SlotOf(a)
  /\ halted' = TRUE
  /\ UNCHANGED <<pool, mem, tables, pte, tracked, ofCallers>>

HandlePageFault ==
  /\ faults' = faults + 1
  /\ \E a \in VAs : DemandFill(a) \/ CowAlone(a) \/ CowCopy(a) \/ SwapIn(a) \/ Panic(a)

Acts ==
  \/ \E n \in 1 .. 2, v \in Values \ {0} : AllocPages(n, v)
  \/ \E f \in Frames : FreePages(f) \/ \E a \in VAs : MapPage(f, a) \/ MapShared(f, a)
  \/ \E a \in VAs : Discard(a) \/ \E v \in Values \cup {None} : Begin(a, v)
  \/ \E e \in Evictors : SwapRecord(e) \/ SwapUnmap(e) \/ \E a \in VAs : SwapOut(e, a)
  \/ Complete \/ HandlePageFault
Next == ~halted /\ Acts
Spec == Init /\ [][Next]_vars

-----------------------------------------------------------------------------
TypeOK ==
  /\ pool \in [used : SUBSET Frames, refs : [Frames -> 0 .. RefMax], free : 0 .. NFrames]
  /\ mem \in [Frames -> Values] /\ disk \in [Slots -> Values]
  /\ tables \in [Tables -> Frames \cup {None}]
  /\ pte \in [VAs -> [frame : Frames, write : BOOLEAN] \cup {None}]
  /\ frameSlot \in [Frames -> {0} \cup Slots] /\ slotVa \in [Slots -> VAs \cup {None}]
  /\ evicting \in [Evictors -> {None} \cup
       [va : VAs, frame : Frames, slot : Slots, recorded : BOOLEAN]]
  /\ access \in [va : VAs, v : Values \cup {None}] \cup {None}
  /\ halted \in BOOLEAN /\ handles \subseteq Frames /\ lost \in [Frames -> Nat]
  /\ val \in [VAs -> Values] /\ overtaken \subseteq VAs /\ faults \in Nat

(* Every reference is somebody's: the count of a page (g_refs) is the      *)
(* number of addresses that map it or have it in a swap slot, one for a    *)
(* caller's handle, one when it is a page table, and the references that a *)
(* failed wubu_vmm_map_shared leaves behind.  So no page goes back to the  *)
(* allocator while someone uses it, and none stays out unaccounted.        *)
Mapping(f) == {a \in VAs : pte[a] # None /\ pte[a].frame = f}
Holders(f) == Mapping(f) \cup {a \in VAs : frameSlot[f] # 0 /\ slotVa[frameSlot[f]] = a}
IsTable(f) == \E t \in Tables : tables[t] = f
One(b) == IF b THEN 1 ELSE 0
RefsExact ==
  /\ pool.free = Cardinality(Frames \ pool.used)
  /\ \A f \in Frames \ Reserved :
       /\ f \in pool.used <=> pool.refs[f] > 0
       /\ pool.refs[f] = Cardinality(Holders(f)) + One(f \in handles)
                         + One(IsTable(f)) + lost[f]

(* A page that can be stored to through one address is seen through no     *)
(* other, is nobody's handle and no page table: the write bit that         *)
(* wubu_vmm_cow_fault and wubu_swap_in set never lets one user of a page   *)
(* change what another sees.                                               *)
WritableAlone ==
  \A a \in VAs : pte[a] # None /\ pte[a].write =>
    LET f == pte[a].frame
    IN  Holders(f) = {a} /\ f \notin handles /\ ~IsTable(f) /\ f \in pool.used

(* Outside the demand-zero regions an address reads as what was last       *)
(* stored there, through sharing, copying, eviction and return, as long as *)
(* no store ran between the two halves of wubu_swap_out.                   *)
ReadsBack(a) ==
  /\ pte[a] # None => mem[pte[a].frame] = val[a]
  /\ pte[a] = None /\ Evicted(a) => disk[SlotOf(a)] = val[a]
StoresKept == \A a \in VAs \ (Demand \cup overtaken) : ReadsBack(a)

(* A page swapped out of a demand-zero region comes back with what was     *)
(* stored there ("swapped IN on the next fault", "the demand pages are the *)
(* natural victims", wubu_swap.h).                                         *)
DemandKept == \A a \in Demand \ overtaken : ReadsBack(a)

(* A store made while wubu_swap_out is at its page is kept.                *)
EveryStoreKept == \A a \in VAs \ Demand : ReadsBack(a)

(* A page fault stops the machine only when the free pages do not suffice  *)
(* for the page and the tables on its path, and never for a page that is   *)
(* in the swap area.                                                       *)
PanicsOnlyWhenFull ==
  [][~halted /\ halted' =>
     /\ pool.free < 1 + Cardinality(Missing(access.va))
     /\ ~Evicted(access.va)]_vars

(* A load or store faults at most once before it gets through, unless its  *)
(* page is swapped out again in between: what handle_page_fault installs   *)
(* always permits the instruction it returns to, so that the retry of a    *)
(* fault never becomes a loop.                                             *)
OneFault == faults <= 1
=============================================================================
