----------------------------- MODULE VmmProofs ------------------------------
(***************************************************************************)
(* Theorems about Vmm for any number of frames, addresses, tables and swap *)
(* slots, for callers that are Careful; VmmStepProofs has the invariant    *)
(* and the steps that use one page, this module the steps that use two     *)
(* frames or the page tables.                                              *)
(***************************************************************************)
EXTENDS VmmStepProofs

(* wubu_vmm_cow_fault on a shared page.                                    *)
LEMMA CowCopyStep ==
  ASSUME Careful, Inv, ~halted, NEW a \in VAs, CowCopy(a), faults' = faults + 1
  PROVE  Inv'
<1>0. PICK f, g : f = Lowest(Runs(pool, 1)) /\ g = pte[a].frame
  BY Zenon
<1>1. Known
  BY Facts, Zenon
<1>2. /\ Faulting(a) /\ pte[a] # None /\ pool.refs[g] > 1 /\ Runs(pool, 1) # {}
      /\ mem' = [mem EXCEPT ![f] = mem[g]] /\ pool' = FreePage(Taken(pool, {f}), g)
      /\ pte' = [pte EXCEPT ![a] = Entry(f, TRUE)]
      /\ UNCHANGED <<tables, frameSlot, slotVa, disk, evicting, access, halted, left, handles, lost,
                     val, overtaken>>
  BY <1>0, Zenon DEF CowCopy, NotFilled, tracked, ofCallers
<1>u. /\ UNCHANGED <<tables, frameSlot, slotVa, disk, evicting, access, halted, left, handles, lost,
                     val, overtaken>>
      /\ pte[a] # None /\ pool.refs[g] > 1
  BY <1>2, Zenon
<1>3. faults' = 1 /\ access # None /\ access.va = a
  BY <1>2, FirstFault
<1>4. f \in Frames /\ f \notin pool.used
  BY <1>0, <1>2, FreeOne
<1>5. /\ g \in Frames /\ g \in pool.used /\ g \notin Reserved /\ a \in Holders(g) /\ g # f
      /\ frameSlot[g] = 0 /\ frameSlot[f] = 0 /\ Holders(f) = {} /\ f \notin handles
      /\ ~IsTable(f) /\ lost[f] = 0 /\ f \notin Reserved
  BY <1>0, <1>1, <1>2, <1>4 DEF Known, PoolSound
<1>6. /\ Exact(pool') /\ pool'.used = pool.used \cup {f}
      /\ pool'.refs[f] = 1 /\ pool'.refs[g] = pool.refs[g] - 1
      /\ \A h \in Frames : h # f /\ h # g => pool'.refs[h] = pool.refs[h]
  <2> DEFINE p == Taken(pool, {f})
  <2>1. Exact(pool) /\ {f} \subseteq Frames \ pool.used
    BY <1>1, <1>4 DEF Known, PoolSound
  <2>2. Exact(p)
    BY <2>1, TakeExact, Zenon
  <2>3. /\ p.used = pool.used \cup {f}
        /\ \A h \in Frames : p.refs[h] = IF h = f THEN 1 ELSE pool.refs[h]
    BY Zenon DEF Taken
  <2> HIDE DEF p
  <2>4. g \in p.used /\ p.refs[g] > 1
    BY <1>u, <1>5, <2>3, Zenon
  <2>5. p.refs[g] \in Nat /\ p.refs[g] >= 1
    <3>1. p.refs[g] \in Nat
      BY <1>1, <1>5, <2>3, Zenon DEF Known
    <3> QED
      BY <2>4, <3>1
  <2>6. /\ Exact(FreePage(p, g))
        /\ FreePage(p, g).used = IF p.refs[g] = 1 THEN p.used \ {g} ELSE p.used
        /\ \A h \in Frames : FreePage(p, g).refs[h] = IF h = g THEN p.refs[g] - 1 ELSE p.refs[h]
    BY <1>5, <2>2, <2>4, <2>5, FreeExact, Zenon
  <2>7. pool' = FreePage(p, g)
    BY <1>2, Zenon DEF p
  <2> QED
    BY <1>4, <1>5, <2>3, <2>4, <2>5, <2>6, <2>7
<1>7. /\ pte \in [VAs -> [frame : Frames, write : BOOLEAN] \cup {None}]
      /\ pte' \in [VAs -> [frame : Frames, write : BOOLEAN] \cup {None}]
      /\ pte'[a] # None /\ pte'[a].frame = f /\ pte'[a].write = TRUE
      /\ \A b \in VAs : b # a => pte'[b] = pte[b]
  <2>1. Entry(f, TRUE) \in [frame : Frames, write : BOOLEAN]
        /\ Entry(f, TRUE).frame = f /\ Entry(f, TRUE).write = TRUE
    BY <1>4, Zenon DEF Entry
  <2>2. Entry(f, TRUE) # None
    BY <2>1, VmmAssumption, Zenon
  <2> QED
    BY <1>2, <2>1, <2>2, Zenon DEF Inv, TypeOK
<1>8. /\ mem \in [Frames -> Values] /\ mem' \in [Frames -> Values] /\ mem'[f] = mem[g]
      /\ \A h \in Frames : h # f => mem'[h] = mem[h]
  BY <1>2, <1>4, <1>5 DEF Inv, TypeOK
<1>9. \A b \in VAs : pte[b] # None => pte[b].frame \in Frames /\ pte[b].frame # f
  BY <1>1, <1>4 DEF Known
<1>10. TypeOK'
  <2>1. faults' \in Nat /\ pool' \in Pools
    BY <1>3, <1>6 DEF Exact
  <2> QED
    BY <1>u, <1>7, <1>8, <2>1, Zenon DEF Inv, TypeOK, Pools
<1>11. RefsExact'
  <2>1. ASSUME NEW h \in Frames \ Reserved PROVE Counted(h)'
    <3>1. /\ (IsTable(h)' <=> IsTable(h)) /\ Counted(h) /\ lost'[h] = lost[h]
          /\ (h \in handles' <=> h \in handles)
          /\ One(h \in handles)' = One(h \in handles) /\ One(IsTable(h))' = One(IsTable(h))
      BY <1>u, AllCounted, Zenon DEF IsTable, Inv, One
    <3>2. CASE h = f
      <4>1. Holders(h)' = {a}
        BY <1>u, <1>5, <1>7, <1>9, <3>2 DEF Holders, Mapping
      <4>2. Cardinality(Holders(h))' = 1
        BY <4>1, FS_Singleton, Zenon
      <4>3. One(h \in handles)' = 0 /\ One(IsTable(h))' = 0 /\ lost'[h] = 0
        BY <1>u, <1>5, <3>1, <3>2 DEF One
      <4> QED
        BY <1>6, <3>2, <4>2, <4>3 DEF Counted
    <3>3. CASE h = g
      <4>1. Holders(h)' = Holders(h) \ {a}
        BY <1>u, <1>5, <1>7, <3>3 DEF Holders, Mapping
      <4>2. IsFiniteSet(Holders(h)) /\ a \in Holders(h)
        BY <1>1, <1>5, <3>3, Zenon DEF Known
      <4>3. Cardinality(Holders(h) \ {a}) = Cardinality(Holders(h)) - 1
        BY <4>2, FS_RemoveElement, Zenon
      <4>4. Cardinality(Holders(h))' = Cardinality(Holders(h)) - 1
        BY <4>1, <4>3, Zenon
      <4>5. /\ One(IsTable(h)) \in Nat /\ One(h \in handles) \in Nat
            /\ Cardinality(Holders(h)) \in Nat /\ lost[h] \in Nat
        BY <1>1, Zenon DEF One, Known
      <4>6. pool.refs[h] = Cardinality(Holders(h)) + One(h \in handles) + One(IsTable(h)) + lost[h]
        BY <3>1, Zenon DEF Counted
      <4>7. pool'.refs[h]
              = (Cardinality(Holders(h)) - 1) + One(h \in handles) + One(IsTable(h)) + lost[h]
        BY <1>6, <3>3, <4>5, <4>6
      <4>8. h \in pool'.used <=> pool'.refs[h] > 0
        BY <1>u, <1>5, <1>6, <3>3, <4>5, <4>6
      <4> QED
        BY <3>1, <4>4, <4>7, <4>8 DEF Counted
    <3>4. CASE h # f /\ h # g
      <4>1. Holders(h)' = Holders(h)
        BY <1>0, <1>u, <1>7, <3>4 DEF Holders, Mapping
      <4> QED
        BY <1>6, <3>1, <3>4, <4>1, SameCount
    <3> QED
      BY <3>2, <3>3, <3>4, Zenon
  <2> QED
    BY <1>6, <2>1, AllCounted, Zenon DEF Exact
<1>12. Places'
  BY <1>u, <1>5, <1>6, <1>7 DEF Inv, Places
<1>13. Alone'
  <2>1. \A b \in VAs : pte'[b] # None /\ pte'[b].write => pool'.refs[pte'[b].frame] = 1
    BY <1>u, <1>6, <1>7, <1>9 DEF Inv, Alone
  <2>2. \A h \in Frames : frameSlot'[h] # 0 => pool'.refs[h] = 1
    BY <1>u, <1>5, <1>6, Zenon DEF Inv, Alone
  <2> QED
    BY <2>1, <2>2, Zenon DEF Alone
<1>14. Evictions'
  <2>1. ASSUME NEW e \in Evictors, evicting[e] # None
        PROVE  /\ evicting[e].va \in VAs /\ evicting[e].va # a
               /\ evicting[e].frame \in Frames /\ evicting[e].frame # f /\ evicting[e].frame # g
    BY <1>0, <1>u, <1>9, <2>1 DEF Inv, TypeOK, Evictions
  <2>2. \A e \in Evictors : evicting'[e] # None =>
         /\ pte'[evicting'[e].va] # None /\ pte'[evicting'[e].va].frame = evicting'[e].frame
         /\ pool'.refs[evicting'[e].frame] = 1
    BY <1>u, <1>6, <1>7, <2>1 DEF Inv, Evictions
  <2> QED
    BY <1>u, <1>5, <1>7, <2>2 DEF Inv, Evictions, Leaves
<1>15. Homes'
  <2>1. \A b \in VAs : /\ pte'[b] # None <=> pte[b] # None
                       /\ Missing(b)' = Missing(b) /\ (Evicted(b)' <=> Evicted(b))
    BY <1>u, <1>7, Zenon DEF Missing, Evicted
  <2>2. \A b \in Demand : pte'[b] # None => pte'[b].write
    BY <1>7, VmmAssumption, Zenon DEF Inv, Homes
  <2> QED
    BY <1>u, <2>1, <2>2, Zenon DEF Inv, Homes, Leaves
<1>16. Served'
  BY <1>u, <1>3, <1>7 DEF Served, Permitted
<1>17. Budgeted' /\ Saved'
  BY <1>u, Zenon DEF Inv, Budgeted, Saved
<1>18. StoresKept'
  <2> SUFFICES ASSUME NEW b \in VAs \ (Demand \cup overtaken') PROVE ReadsBack(b)'
    BY Zenon DEF StoresKept
  <2>1. ReadsBack(b)
    BY <1>u, Zenon DEF Inv, StoresKept
  <2>2. CASE b = a
    BY <1>0, <1>u, <1>7, <1>8, <2>1, <2>2 DEF ReadsBack
  <2>3. CASE b # a
    BY <1>u, <1>7, <1>8, <1>9, <2>1, <2>3, SameReads
  <2> QED
    BY <2>2, <2>3, Zenon
<1> QED
  BY <1>10, <1>11, <1>12, <1>13, <1>14, <1>15, <1>16, <1>17, <1>18 DEF Inv

(* wubu_swap_in.  The tables on the way to the page are still there.       *)
LEMMA SwapInStep ==
  ASSUME Careful, Inv, ~halted, NEW a \in VAs, SwapIn(a), faults' = faults + 1
  PROVE  Inv' /\ ~halted'
<1>0. PICK s, f, w : s = SlotOf(a) /\ f = Lowest({g \in Frames : frameSlot[g] = s}) /\ w = Walk(pool, a)
  BY Zenon
<1>1. Known
  BY Facts, Zenon
<1>2. /\ NotCopied(a) /\ Evicted(a) /\ {g \in Frames : frameSlot[g] = s} # {}
      /\ pool' = w.pool /\ tables' = w.tables /\ mem' = [mem EXCEPT ![f] = disk[s]]
      /\ pte' = IF w.ok THEN [pte EXCEPT ![a] = Entry(f, TRUE)] ELSE pte
      /\ slotVa' = IF w.ok THEN [slotVa EXCEPT ![s] = None] ELSE slotVa
      /\ frameSlot' = IF w.ok THEN [frameSlot EXCEPT ![f] = 0] ELSE frameSlot
      /\ halted' = ~w.ok
      /\ UNCHANGED <<disk, evicting, access, left, handles, lost, val, overtaken>>
  BY <1>0, Zenon DEF SwapIn, ofCallers
<1>u. UNCHANGED <<disk, evicting, access, left, handles, lost, val, overtaken>>
  BY <1>2, Zenon
<1>3. faults' = 1 /\ access # None /\ access.va = a /\ ~Permitted
  BY <1>2, FirstFault DEF NotCopied, NotFilled
<1>4. s \in Slots /\ slotVa[s] = a /\ s # 0 /\ 0 \notin Slots
  BY <1>0, <1>2, SlotFound, VmmAssumption DEF Slots
<1>5. f \in Frames /\ frameSlot[f] = s
  <2>1. {g \in Frames : frameSlot[g] = s} \in SUBSET Nat
    BY VmmAssumption DEF Frames
  <2>2. f \in {g \in Frames : frameSlot[g] = s}
    BY <1>0, <1>2, <2>1, LowestIn, Zenon
  <2> QED
    BY <2>2, Zenon
<1>6. /\ w.ok /\ w.tables = tables /\ w.pool.used = pool.used /\ Exact(w.pool)
      /\ \A g \in Frames : w.pool.refs[g] = pool.refs[g]
  <2>1. PoolSound(pool, tables) /\ Missing(a) = {}
    BY <1>1, <1>2 DEF Known, Inv, Homes
  <2>2. Walks(pool, a, w)
    BY <1>0, <2>1, Walked
  <2> QED
    BY <2>1, <2>2 DEF Walks, PoolSound
<1>7. pte[a] = None
  <2> SUFFICES ASSUME pte[a] # None PROVE FALSE
    BY Zenon
  <2>1. pool.refs[pte[a].frame] > 1
    BY <1>2, Zenon DEF NotCopied
  <2>2. a \notin Demand
    BY <1>3, Zenon DEF Inv, Homes, Permitted
  <2>3. PICK e \in Evictors : Leaves(e, a) /\ evicting[e].recorded
    BY <1>4, <2>2, Zenon DEF Inv, Homes
  <2>4. pool.refs[pte[a].frame] = 1
    BY <2>3 DEF Inv, Evictions, Leaves
  <2> QED
    BY <2>1, <2>4
<1>8. /\ pte \in [VAs -> [frame : Frames, write : BOOLEAN] \cup {None}]
      /\ pte' \in [VAs -> [frame : Frames, write : BOOLEAN] \cup {None}]
      /\ pte'[a] # None /\ pte'[a].frame = f /\ pte'[a].write = TRUE
      /\ \A b \in VAs : b # a => pte'[b] = pte[b]
  <2>1. Entry(f, TRUE) \in [frame : Frames, write : BOOLEAN]
        /\ Entry(f, TRUE).frame = f /\ Entry(f, TRUE).write = TRUE
    BY <1>5, Zenon DEF Entry
  <2>2. Entry(f, TRUE) # None
    BY <2>1, VmmAssumption, Zenon
  <2>3. pte' = [pte EXCEPT ![a] = Entry(f, TRUE)]
    BY <1>2, <1>6
  <2> QED
    BY <2>1, <2>2, <2>3, Zenon DEF Inv, TypeOK
<1>9. /\ frameSlot \in [Frames -> {0} \cup Slots] /\ slotVa \in [Slots -> VAs \cup {None}]
      /\ frameSlot' \in [Frames -> {0} \cup Slots] /\ slotVa' \in [Slots -> VAs \cup {None}]
      /\ frameSlot'[f] = 0 /\ (\A g \in Frames : g # f => frameSlot'[g] = frameSlot[g])
      /\ slotVa'[s] = None /\ (\A r \in Slots : r # s => slotVa'[r] = slotVa[r])
  <2>1. slotVa' = [slotVa EXCEPT ![s] = None] /\ frameSlot' = [frameSlot EXCEPT ![f] = 0]
    BY <1>2, <1>6
  <2> QED
    BY <1>4, <1>5, <2>1 DEF Inv, TypeOK
<1>10. /\ mem \in [Frames -> Values] /\ mem' \in [Frames -> Values] /\ mem'[f] = disk[s]
       /\ \A g \in Frames : g # f => mem'[g] = mem[g]
  <2>1. mem' = [mem EXCEPT ![f] = disk[s]] /\ disk[s] \in Values /\ mem \in [Frames -> Values]
    BY <1>2, <1>4 DEF Inv, TypeOK
  <2> QED
    BY <1>5, <2>1
<1>11. /\ tables' = tables /\ pool'.used = pool.used /\ Exact(pool')
       /\ (\A g \in Frames : pool'.refs[g] = pool.refs[g]) /\ halted' = FALSE
  BY <1>2, <1>6, Zenon
<1>12. /\ f \notin Reserved /\ pool.refs[f] = 1 /\ a \in Holders(f)
       /\ \A b \in VAs : pte[b] # None => pte[b].frame \in Frames /\ pte[b].frame # f
  <2>1. f \notin Reserved /\ pool.refs[f] = 1 /\ a \in Holders(f)
    BY <1>1, <1>4, <1>5 DEF Known
  <2>2. \A b, c \in Holders(f) : b = c
    BY <1>1, <1>5, <2>1 DEF Known
  <2>3. \A b \in VAs : pte[b] # None => pte[b].frame \in Frames /\ b \in Holders(pte[b].frame)
    BY <1>1, Zenon DEF Known
  <2> QED
    BY <1>7, <2>1, <2>2, <2>3
<1>13. \A g \in Frames : g # f => frameSlot[g] # s
  BY <1>4, <1>5 DEF Inv, Places
<1>14. TypeOK'
  <2>0. halted' \in BOOLEAN
    BY <1>11, Zenon
  <2>1. faults' \in Nat /\ pool' \in Pools
    BY <1>3, <1>11 DEF Exact
  <2> QED
    BY <1>u, <1>8, <1>9, <1>10, <1>11, <2>0, <2>1, Zenon DEF Inv, TypeOK, Pools
<1>15. RefsExact'
  <2>1. ASSUME NEW g \in Frames \ Reserved PROVE Counted(g)'
    <3>1. /\ (IsTable(g)' <=> IsTable(g)) /\ Counted(g) /\ lost'[g] = lost[g]
          /\ (g \in handles' <=> g \in handles)
      BY <1>u, <1>11, AllCounted DEF IsTable, Inv
    <3>2. CASE g = f
      <4>1. Mapping(g)' = {a} /\ Mapping(g) = {}
        BY <1>8, <1>12, <3>2 DEF Mapping
      <4>2. Holders(g)' = {a} /\ Holders(g) = {a}
        BY <1>4, <1>5, <1>9, <3>2, <4>1 DEF Holders
      <4> QED
        BY <1>11, <3>1, <4>2, SameCount
    <3>3. CASE g # f
      <4>1. Mapping(g)' = Mapping(g)
        BY <1>7, <1>8, <3>3 DEF Mapping
      <4>2. frameSlot'[g] = frameSlot[g] /\ frameSlot[g] # s /\ frameSlot[g] \in {0} \cup Slots
        BY <1>9, <1>13, <3>3
      <4>3. Holders(g)' = Holders(g)
        BY <1>9, <4>1, <4>2 DEF Holders
      <4> QED
        BY <1>11, <3>1, <4>3, SameCount
    <3> QED
      BY <3>2, <3>3, Zenon
  <2> QED
    BY <1>11, <2>1, AllCounted DEF Exact
<1>16. Places'
  <2>1. \A b \in VAs : pte'[b] # None => pte'[b].frame \notin Reserved
    BY <1>8, <1>12 DEF Inv, Places
  <2>2. \A g \in Frames : frameSlot'[g] # 0 => g \notin Reserved /\ slotVa'[frameSlot'[g]] # None
    BY <1>9, <1>13 DEF Inv, Places
  <2>3. \A g, h \in Frames : frameSlot'[g] = frameSlot'[h] /\ frameSlot'[g] # 0 => g = h
    BY <1>9 DEF Inv, Places
  <2>4. \A r \in Slots : slotVa'[r] # None => \E g \in Frames : frameSlot'[g] = r
    BY <1>5, <1>9 DEF Inv, Places
  <2> QED
    BY <1>u, <1>11, <2>1, <2>2, <2>3, <2>4 DEF Inv, Places
<1>17. Alone'
  <2>1. \A b \in VAs : pte'[b] # None /\ pte'[b].write => pool'.refs[pte'[b].frame] = 1
    BY <1>8, <1>11, <1>12 DEF Inv, Alone
  <2>2. \A h \in Frames : frameSlot'[h] # 0 => pool'.refs[h] = 1
    BY <1>9, <1>11, Zenon DEF Inv, Alone
  <2> QED
    BY <2>1, <2>2, Zenon DEF Alone
<1>18. Evictions'
  <2>1. ASSUME NEW e \in Evictors, evicting[e] # None
        PROVE  /\ evicting[e].va \in VAs /\ evicting[e].va # a /\ evicting[e].frame \in Frames
               /\ evicting[e].frame # f /\ evicting[e].slot \in Slots /\ evicting[e].slot # s
    <3>1. /\ evicting[e].va \in VAs /\ evicting[e].frame \in Frames /\ evicting[e].slot \in Slots
      BY <2>1, Zenon DEF Inv, TypeOK
    <3>2. pte[evicting[e].va] # None /\ pte[evicting[e].va].frame = evicting[e].frame
      BY <2>1, Zenon DEF Inv, Evictions
    <3>3. evicting[e].va # a /\ evicting[e].frame # f
      BY <1>7, <1>12, <3>1, <3>2
    <3>4. evicting[e].slot # s
      BY <1>4, <2>1, <3>3, VmmAssumption DEF Inv, Evictions
    <3> QED
      BY <3>1, <3>3, <3>4
  <2>2. \A e \in Evictors : evicting'[e] # None =>
         /\ pte'[evicting'[e].va] # None /\ pte'[evicting'[e].va].frame = evicting'[e].frame
         /\ pool'.refs[evicting'[e].frame] = 1 /\ evicting'[e].frame \notin handles'
    BY <1>u, <1>8, <1>11, <2>1 DEF Inv, Evictions
  <2>3. \A e \in Evictors : evicting'[e] # None =>
         /\ frameSlot'[evicting'[e].frame] = IF evicting'[e].recorded THEN evicting'[e].slot ELSE 0
         /\ slotVa'[evicting'[e].slot] = IF evicting'[e].recorded THEN evicting'[e].va ELSE None
    BY <1>u, <1>9, <2>1 DEF Inv, Evictions
  <2>4. \A b \in VAs : pte'[b] # None /\ frameSlot'[pte'[b].frame] # 0 =>
          \E e \in Evictors : Leaves(e, b) /\ evicting[e].recorded
    BY <1>8, <1>9, <1>12 DEF Inv, Evictions
  <2>5. \A e \in Evictors, b \in VAs : Leaves(e, b)' <=> Leaves(e, b)
    BY <1>u, Zenon DEF Leaves
  <2> QED
    BY <1>u, <2>2, <2>3, <2>4, <2>5 DEF Evictions
<1>19. Homes'
  <2>1. \A r \in Slots : slotVa'[r] \in VAs \ Demand =>
          slotVa'[r] = slotVa[r] /\ slotVa[r] # a /\ pte'[slotVa[r]] = pte[slotVa[r]] /\ r # s
    BY <1>4, <1>8, <1>9, VmmAssumption DEF Inv, Homes
  <2>2. \A r \in Slots : slotVa'[r] \in VAs \ Demand /\ pte'[slotVa'[r]] # None =>
          \E e \in Evictors : evicting[e] # None /\ evicting[e].va = slotVa'[r] /\ evicting[e].recorded
    BY <2>1 DEF Inv, Homes, Leaves
  <2>3. \A q, r \in Slots : slotVa'[q] = slotVa'[r] /\ slotVa'[q] \in VAs \ Demand => q = r
    BY <2>1, Zenon DEF Inv, Homes
  <2>4. \A b \in Demand : pte'[b] # None => pte'[b].write
    BY <1>8, VmmAssumption, Zenon DEF Inv, Homes
  <2>5. \A b \in VAs : Missing(b)' = Missing(b) /\ (Evicted(b)' => Evicted(b))
    BY <1>9, <1>11, VmmAssumption DEF Missing, Evicted
  <2>6. \A b \in VAs : pte'[b] # None \/ Evicted(b)' => Missing(b)' = {}
    BY <1>2, <1>8, <2>5, Zenon DEF Inv, Homes
  <2> QED
    BY <1>u, <2>2, <2>3, <2>4, <2>6 DEF Homes, Leaves
<1>20. Served'
  BY <1>u, <1>3, <1>8 DEF Served, Permitted
<1>21. Budgeted' /\ Saved'
  BY <1>u, Zenon DEF Inv, Budgeted, Saved
<1>22. StoresKept'
  <2> SUFFICES ASSUME NEW b \in VAs \ (Demand \cup overtaken') PROVE ReadsBack(b)'
    BY Zenon DEF StoresKept
  <2>1. ReadsBack(b)
    BY <1>u, Zenon DEF Inv, StoresKept
  <2>2. CASE b = a
    BY <1>0, <1>2, <1>u, <1>7, <1>8, <1>10, <2>1, <2>2, Zenon DEF ReadsBack
  <2>3. CASE b # a
    <3>1. \A r \in Slots : slotVa'[r] = b <=> slotVa[r] = b
      BY <1>4, <1>9, <2>3, VmmAssumption
    <3>2. (Evicted(b)' <=> Evicted(b)) /\ SlotOf(b)' = SlotOf(b)
      BY <3>1, Zenon DEF Evicted, SlotOf
    <3>3. pte'[b] = pte[b] /\ (pte[b] # None => mem'[pte[b].frame] = mem[pte[b].frame])
      BY <1>8, <1>10, <1>12, <2>3, Zenon
    <3> QED
      BY <1>u, <2>1, <3>2, <3>3 DEF ReadsBack
  <2> QED
    BY <2>2, <2>3, Zenon
<1> QED
  BY <1>11, <1>14, <1>15, <1>16, <1>17, <1>18, <1>19, <1>20, <1>21, <1>22 DEF Inv

-----------------------------------------------------------------------------
(* The count of a frame that is not the one being mapped, after a walk.    *)
LEMMA WalkCount ==
  ASSUME Known, RefsExact, NEW p, NEW a \in VAs, NEW w, Walks(p, a, w),
         NEW h \in Frames \ Reserved, p.refs[h] = pool.refs[h], h \in p.used <=> h \in pool.used,
         Holders(h)' = Holders(h), h \in handles' <=> h \in handles, lost'[h] = lost[h],
         tables' = w.tables,
         pool'.refs[h] = w.pool.refs[h], h \in pool'.used <=> h \in w.pool.used
  PROVE  Counted(h)'
<1>1. Counted(h)
  BY AllCounted, Zenon
<1>2. /\ p.used \subseteq w.pool.used
      /\ w.pool.refs[h] = IF h \in w.pool.used \ p.used THEN 1 ELSE p.refs[h]
      /\ Names(w.tables, h) <=> Names(tables, h) \/ h \in w.pool.used \ p.used
  BY Zenon DEF Walks
<1>3. (IsTable(h)' <=> Names(w.tables, h)) /\ (IsTable(h) <=> Names(tables, h))
  BY Zenon DEF IsTable, Names
<1>4. CASE h \in w.pool.used \ p.used
  <2>1. Holders(h) = {} /\ h \notin handles /\ lost[h] = 0
    BY <1>4 DEF Known
  <2>2. Cardinality(Holders(h))' = 0
    BY <2>1, FS_EmptySet, Zenon
  <2>3. One(h \in handles)' = 0 /\ One(IsTable(h))' = 1
    BY <1>2, <1>3, <1>4, <2>1 DEF One
  <2>4. pool'.refs[h] = 1 /\ h \in pool'.used /\ lost'[h] = 0
    BY <1>2, <1>4, <2>1
  <2> QED
    BY <2>2, <2>3, <2>4 DEF Counted
<1>5. CASE h \notin w.pool.used \ p.used
  BY <1>1, <1>2, <1>3, <1>5, SameCount
<1> QED
  BY <1>4, <1>5

(* What a walk leaves true of the tables and the counts in use.            *)
Grown(p, a, w) ==
  /\ \A b \in VAs : Missing(b) = {} => Missing(b)' = {}
  /\ w.ok => Missing(a)' = {}
  /\ tables' \in [Tables -> Frames \cup {None}]
  /\ \A t \in Tables : tables'[t] \notin Reserved
  /\ \A t, u \in Tables : tables'[t] = tables'[u] /\ tables'[t] # None => t = u
  /\ \A h \in Frames : h \in p.used => h \in w.pool.used /\ w.pool.refs[h] = p.refs[h]
  /\ Exact(w.pool) /\ Reserved \subseteq w.pool.used
LEMMA WalkKeeps ==
  ASSUME Known, Inv, NEW p, NEW a \in VAs, NEW w, Walks(p, a, w), tables' = w.tables
  PROVE  Grown(p, a, w)
<1>1. PoolSound(w.pool, w.tables)
  BY Zenon DEF Walks
<1>2. \A t \in Tables : tables'[t] \notin Reserved
  <2>1. None \notin Reserved
    BY VmmAssumption, Zenon
  <2> QED
    BY <1>1, <2>1 DEF PoolSound
<1>3. \A t \in Tables : tables[t] # None => tables'[t] # None
  BY Zenon DEF Walks
<1>4. \A b \in VAs : \A i \in DOMAIN Path[b] : Path[b][i] \in Tables
  BY VmmAssumption
<1>5. \A b \in VAs : Missing(b) = {} => Missing(b)' = {}
  BY <1>3, <1>4, Zenon DEF Missing
<1>6. w.ok => Missing(a)' = {}
  BY Zenon DEF Walks, Missing
<1> QED
  BY <1>1, <1>2, <1>5, <1>6 DEF PoolSound, Walks, Grown

(* What both ways to map page f at address a do, once p is the pool that   *)
(* counts its users and w the walk to a in p; and what they keep.          *)
Maps(f, a, wr, p, w) ==
  /\ f \in handles /\ Vacant(a) /\ Walks(p, a, w) /\ p.used = pool.used
  /\ \A h \in Frames : h # f => p.refs[h] = pool.refs[h]
  /\ wr => p.refs[f] = 1
  /\ pool' = w.pool /\ tables' = w.tables /\ handles' \subseteq handles
  /\ pte' = IF w.ok THEN [pte EXCEPT ![a] = Entry(f, wr)] ELSE pte
  /\ val' = IF w.ok THEN [val EXCEPT ![a] = mem[f]] ELSE val
  /\ UNCHANGED <<mem, frameSlot, slotVa, disk, evicting, access, halted, overtaken, faults>>
Mapped(f, a, w) ==
  /\ pte' \in [VAs -> [frame : Frames, write : BOOLEAN] \cup {None}]
  /\ \A b \in VAs : b # a => pte'[b] = pte[b]
  /\ w.ok => pte'[a] # None /\ pte'[a].frame = f
  /\ val' \in [VAs -> Values]
LEMMA MapKeeps ==
  ASSUME Careful, Inv, NEW f \in Frames, NEW a \in VAs, NEW wr \in BOOLEAN, NEW p, NEW w,
         Maps(f, a, wr, p, w)
  PROVE  /\ Places' /\ Alone' /\ Evictions' /\ Homes' /\ Served' /\ Saved' /\ StoresKept'
         /\ Mapped(f, a, w)
<1>1. Known
  BY Facts, Zenon
<1>u. UNCHANGED <<mem, frameSlot, slotVa, disk, evicting, access, halted, overtaken, faults>>
  BY Zenon DEF Maps
<1>h. f \in handles /\ handles' \subseteq handles /\ p.used = pool.used
  BY Zenon DEF Maps
<1>r. (\A h \in Frames : h # f => p.refs[h] = pool.refs[h]) /\ (wr => p.refs[f] = 1)
  BY Zenon DEF Maps
<1>2. a \notin Demand /\ pte[a] = None /\ ~Evicted(a)
  BY Zenon DEF Maps, Vacant
<1>3. /\ pte \in [VAs -> [frame : Frames, write : BOOLEAN] \cup {None}]
      /\ pte' \in [VAs -> [frame : Frames, write : BOOLEAN] \cup {None}]
      /\ w.ok => pte'[a] # None /\ pte'[a].frame = f /\ pte'[a].write = wr
      /\ ~w.ok => pte'[a] = None
      /\ \A b \in VAs : b # a => pte'[b] = pte[b]
  <2>1. Entry(f, wr) \in [frame : Frames, write : BOOLEAN]
        /\ Entry(f, wr).frame = f /\ Entry(f, wr).write = wr
    BY Zenon DEF Entry
  <2>2. Entry(f, wr) # None
    BY <2>1, VmmAssumption, Zenon
  <2>3. pte \in [VAs -> [frame : Frames, write : BOOLEAN] \cup {None}]
    BY Zenon DEF Inv, TypeOK
  <2>4. CASE w.ok
    <3>1. pte' = [pte EXCEPT ![a] = Entry(f, wr)]
      BY <2>4, Zenon DEF Maps
    <3> QED
      BY <2>1, <2>2, <2>3, <2>4, <3>1
  <2>5. CASE ~w.ok
    <3>1. pte' = pte
      BY <2>5, Zenon DEF Maps
    <3> QED
      BY <1>2, <2>3, <2>5, <3>1, Zenon
  <2> QED
    BY <2>4, <2>5, Zenon
<1>4. /\ val' \in [VAs -> Values] /\ (w.ok => val'[a] = mem[f])
      /\ \A b \in VAs : b # a => val'[b] = val[b]
  <2>1. val \in [VAs -> Values] /\ mem[f] \in Values
    BY Zenon DEF Inv, TypeOK
  <2> QED
    BY <2>1, Zenon DEF Maps
<1>5. /\ \A b \in VAs : Missing(b) = {} => Missing(b)' = {}
      /\ w.ok => Missing(a)' = {}
      /\ \A t \in Tables : tables'[t] \notin Reserved
      /\ \A t, u \in Tables : tables'[t] = tables'[u] /\ tables'[t] # None => t = u
      /\ \A h \in Frames : h \in pool.used => pool'.refs[h] = p.refs[h]
      /\ Reserved \subseteq pool'.used
  <2>1. pool' = w.pool /\ tables' = w.tables /\ Walks(p, a, w)
    BY Zenon DEF Maps
  <2>2. Grown(p, a, w)
    BY <1>1, <2>1, WalkKeeps, Zenon
  <2> QED
    BY <1>h, <2>1, <2>2, Zenon DEF Grown
<1>6. f \in pool.used /\ f \notin Reserved /\ frameSlot[f] = 0
  BY <1>1, <1>h, Zenon DEF Known
<1>7. \A b \in VAs : pte[b] # None => /\ pte[b].frame \in Frames /\ pte[b].frame \in pool.used
                                      /\ pool.refs[pte[b].frame] = 1 => pte[b].frame # f
  BY <1>1, <1>h, Zenon DEF Known
<1>8. /\ \A h \in Frames : frameSlot[h] # 0 => h \in pool.used /\ h # f
      /\ \A b \in VAs : pte'[b] # None /\ b # a => pte[b] # None /\ pte'[b] = pte[b]
      /\ pte'[a] # None => w.ok /\ pte'[a].frame = f /\ pte'[a].write = wr
  BY <1>1, <1>h, <1>3, <1>6 DEF Known
<1>9. Places'
  <2>1. \A b \in VAs : pte'[b] # None => pte'[b].frame \notin Reserved
    BY <1>6, <1>8 DEF Inv, Places
  <2>2. handles' \cap Reserved = {}
    BY <1>h, Zenon DEF Inv, Places
  <2> QED
    BY <1>u, <1>5, <2>1, <2>2 DEF Inv, Places
<1>10. Alone'
  <2>1. ASSUME NEW b \in VAs, pte'[b] # None /\ pte'[b].write PROVE pool'.refs[pte'[b].frame] = 1
    <3>1. CASE b = a
      BY <1>r, <1>5, <1>6, <1>8, <2>1, <3>1
    <3>2. CASE b # a
      <4>1. pte'[b] = pte[b] /\ pte[b] # None /\ pte[b].write
        BY <1>8, <2>1, <3>2
      <4>2. pool.refs[pte[b].frame] = 1
        BY <4>1, Zenon DEF Inv, Alone
      <4> QED
        BY <1>r, <1>5, <1>7, <4>1, <4>2
    <3> QED
      BY <3>1, <3>2, Zenon
  <2>2. \A h \in Frames : frameSlot'[h] # 0 => pool'.refs[h] = 1
    <3>1. \A h \in Frames : frameSlot[h] # 0 => pool.refs[h] = 1
      BY Zenon DEF Inv, Alone
    <3> QED
      BY <1>u, <1>r, <1>5, <1>8, <3>1
  <2> QED
    BY <2>1, <2>2, Zenon DEF Alone
<1>11. \A e \in Evictors : evicting[e] # None =>
         /\ evicting[e].va \in VAs /\ evicting[e].va # a
         /\ pte[evicting[e].va] # None /\ pte[evicting[e].va].frame = evicting[e].frame
         /\ pool.refs[evicting[e].frame] = 1 /\ evicting[e].frame \notin handles
  BY <1>2 DEF Inv, TypeOK, Evictions
<1>12. Evictions'
  <2>1. \A e \in Evictors : evicting'[e] # None =>
         /\ pte'[evicting'[e].va] # None /\ pte'[evicting'[e].va].frame = evicting'[e].frame
         /\ pool'.refs[evicting'[e].frame] = 1 /\ evicting'[e].frame \notin handles'
    <3> SUFFICES ASSUME NEW e \in Evictors, evicting'[e] # None
                 PROVE  /\ pte'[evicting'[e].va] # None
                        /\ pte'[evicting'[e].va].frame = evicting'[e].frame
                        /\ pool'.refs[evicting'[e].frame] = 1 /\ evicting'[e].frame \notin handles'
      BY Zenon
    <3>1. evicting' = evicting
      BY <1>u, Zenon
    <3>2. /\ evicting[e].va \in VAs /\ evicting[e].va # a /\ pte[evicting[e].va] # None
          /\ pte[evicting[e].va].frame = evicting[e].frame
          /\ pool.refs[evicting[e].frame] = 1 /\ evicting[e].frame \notin handles
      BY <1>11, <3>1, Zenon
    <3>3. evicting[e].frame \in Frames /\ evicting[e].frame \in pool.used /\ evicting[e].frame # f
      BY <1>7, <3>2, Zenon
    <3>4. pool'.refs[evicting[e].frame] = 1
      BY <1>r, <1>5, <3>2, <3>3, Zenon
    <3> QED
      BY <1>h, <1>3, <3>1, <3>2, <3>4, Zenon
  <2>2. \A e \in Evictors : evicting'[e] # None =>
         /\ frameSlot'[evicting'[e].frame] = IF evicting'[e].recorded THEN evicting'[e].slot ELSE 0
         /\ slotVa'[evicting'[e].slot] = IF evicting'[e].recorded THEN evicting'[e].va ELSE None
    BY <1>u DEF Inv, Evictions
  <2>3. \A b \in VAs : pte'[b] # None /\ frameSlot'[pte'[b].frame] # 0 =>
          \E e \in Evictors : Leaves(e, b) /\ evicting[e].recorded
    BY <1>u, <1>6, <1>8 DEF Inv, Evictions
  <2>4. \A e \in Evictors, b \in VAs : Leaves(e, b)' <=> Leaves(e, b)
    BY <1>u, Zenon DEF Leaves
  <2> QED
    BY <1>u, <2>1, <2>2, <2>3, <2>4 DEF Evictions
<1>13. \A b \in VAs : Evicted(b)' <=> Evicted(b)
  BY <1>u, Zenon DEF Evicted
<1>14. Homes'
  <2>1. \A r \in Slots : slotVa[r] # a
    BY <1>2, Zenon DEF Evicted
  <2>2. \A r \in Slots : slotVa'[r] \in VAs \ Demand /\ pte'[slotVa'[r]] # None =>
          \E e \in Evictors : evicting[e] # None /\ evicting[e].va = slotVa'[r] /\ evicting[e].recorded
    BY <1>u, <1>8, <2>1 DEF Inv, Homes, Leaves
  <2>3. \A q, r \in Slots : slotVa'[q] = slotVa'[r] /\ slotVa'[q] \in VAs \ Demand => q = r
    BY <1>u, Zenon DEF Inv, Homes
  <2>4. \A b \in Demand : pte'[b] # None => pte'[b].write
    BY <1>2, <1>8, VmmAssumption DEF Inv, Homes
  <2>5. \A b \in VAs : pte'[b] # None \/ Evicted(b)' => Missing(b)' = {}
    BY <1>2, <1>5, <1>8, <1>13 DEF Inv, Homes
  <2> QED
    BY <1>u, <2>2, <2>3, <2>4, <2>5 DEF Homes, Leaves
<1>15. Served'
  <2>1. access # None => access.va \in VAs /\ access.va # a
    BY <1>2, Zenon DEF Inv, TypeOK, Served
  <2>2. access # None => pte'[access.va] = pte[access.va] /\ (Evicted(access.va)' <=> Evicted(access.va))
    BY <1>3, <1>u, <2>1 DEF Evicted
  <2> QED
    BY <1>u, <2>2 DEF Inv, Served, Permitted
<1>16. Saved'
  BY <1>u, <1>4, <1>11 DEF Inv, Saved
<1>17. StoresKept'
  <2> SUFFICES ASSUME NEW b \in VAs \ (Demand \cup overtaken') PROVE ReadsBack(b)'
    BY Zenon DEF StoresKept
  <2>1. ReadsBack(b)
    BY <1>u, Zenon DEF Inv, StoresKept
  <2>2. CASE b = a
    BY <1>u, <1>2, <1>4, <1>8, <1>13, <2>2 DEF ReadsBack
  <2>3. CASE b # a
    BY <1>u, <1>3, <1>4, <2>1, <2>3, SameReads, Zenon
  <2> QED
    BY <2>2, <2>3, Zenon
<1> QED
  BY <1>3, <1>4, <1>9, <1>10, <1>12, <1>14, <1>15, <1>16, <1>17, Zenon DEF Mapped

(* wubu_vmm_map_page of a page with one handle.                            *)
LEMMA MapPageStep ==
  ASSUME Careful, Inv, NEW f \in Frames, NEW a \in VAs, MapPage(f, a)
  PROVE  Inv'
<1>0. PICK w : w = Walk(pool, a)
  BY Zenon
<1>1. Known
  BY Facts, Zenon
<1>2. /\ f \in handles /\ pool.refs[f] = 1 /\ Vacant(a)
      /\ pool' = w.pool /\ tables' = w.tables
      /\ pte' = IF w.ok THEN [pte EXCEPT ![a] = Entry(f, TRUE)] ELSE pte
      /\ handles' = IF w.ok THEN handles \ {f} ELSE handles
      /\ val' = IF w.ok THEN [val EXCEPT ![a] = mem[f]] ELSE val
      /\ UNCHANGED <<mem, frameSlot, slotVa, disk, evicting, access, halted, left, lost, overtaken,
                     faults>>
  BY <1>0, Zenon DEF MapPage, tracked
<1>u. UNCHANGED <<mem, frameSlot, slotVa, disk, evicting, access, halted, left, lost, overtaken, faults>>
  BY <1>2, Zenon
<1>3. Walks(pool, a, w)
  BY <1>0, <1>1, Walked, Zenon DEF Known
<1>4. /\ Places' /\ Alone' /\ Evictions' /\ Homes' /\ Served' /\ Saved' /\ StoresKept'
      /\ pte' \in [VAs -> [frame : Frames, write : BOOLEAN] \cup {None}]
      /\ \A b \in VAs : b # a => pte'[b] = pte[b]
      /\ w.ok => pte'[a] # None /\ pte'[a].frame = f
      /\ val' \in [VAs -> Values]
  <2>1. Maps(f, a, TRUE, pool, w)
    BY <1>2, <1>3, Zenon DEF Maps
  <2> QED
    BY <2>1, MapKeeps, Zenon DEF Mapped
<1>5. /\ tables' \in [Tables -> Frames \cup {None}] /\ Exact(w.pool)
      /\ \A h \in Frames : h \in pool.used => w.pool.refs[h] = pool.refs[h]
      /\ \A h \in Frames : h \in pool.used => h \in w.pool.used
  <2>1. tables' = w.tables
    BY <1>2, Zenon
  <2>2. Grown(pool, a, w)
    BY <1>1, <1>3, <2>1, WalkKeeps
  <2> QED
    BY <2>2, Zenon DEF Grown
<1>6. pool' = w.pool /\ tables' = w.tables /\ pte[a] = None
  BY <1>2, Zenon DEF Vacant
<1>7. /\ \A h \in Frames : h # f => (h \in handles' <=> h \in handles)
      /\ w.ok => f \notin handles'
      /\ handles' \subseteq Frames
  BY <1>2, Zenon DEF Inv, TypeOK
<1>8. ~w.ok => pte' = pte /\ handles' = handles
  BY <1>2, Zenon
<1>9. TypeOK'
  <2>1. pool' \in Pools
    BY <1>5, <1>6 DEF Exact
  <2> QED
    BY <1>u, <1>4, <1>5, <1>7, <2>1, Zenon DEF Inv, TypeOK, Pools
<1>10. RefsExact'
  <2>1. ASSUME NEW h \in Frames \ Reserved PROVE Counted(h)'
    <3>1. CASE ~w.ok
      <4>1. Holders(h)' = Holders(h)
        BY <1>u, <1>8, <3>1, SameHolders
      <4> QED
        BY <1>1, <1>u, <1>3, <1>6, <1>8, <3>1, <4>1, WalkCount, Zenon DEF Inv
    <3>2. CASE w.ok /\ h # f
      <4>1. Holders(h)' = Holders(h)
        BY <1>u, <1>4, <1>6, <3>2 DEF Holders, Mapping
      <4> QED
        BY <1>1, <1>u, <1>3, <1>6, <1>7, <3>2, <4>1, WalkCount, Zenon DEF Inv
    <3>3. CASE w.ok /\ h = f
      <4>1. f \in handles /\ pool.refs[f] = 1 /\ f \in pool.used
        BY <1>1, <1>2, Zenon DEF Known
      <4>2. Holders(f) = {} /\ frameSlot[f] = 0
        BY <1>1, <3>3, <4>1 DEF Known
      <4>3. ~IsTable(f) /\ lost[f] = 0
        <5>1. 1 = Cardinality(Holders(f)) + One(f \in handles) + One(IsTable(f)) + lost[f]
          BY <3>3, <4>1, AllCounted DEF Inv, Counted
        <5>2. One(f \in handles) = 1 /\ One(IsTable(f)) \in Nat /\ (IsTable(f) => One(IsTable(f)) = 1)
          BY <4>1, Zenon DEF One
        <5>3. Cardinality(Holders(f)) \in Nat /\ lost[f] \in Nat
          BY <1>1, Zenon DEF Known
        <5> QED
          BY <5>1, <5>2, <5>3
      <4>4. Holders(f)' = {a}
        <5>1. Mapping(f)' = {a}
          BY <1>4, <3>3, <4>2 DEF Mapping, Holders
        <5> QED
          BY <1>u, <4>2, <5>1 DEF Holders
      <4>5. Cardinality(Holders(f))' = 1
        BY <4>4, FS_Singleton, Zenon
      <4>6. ~IsTable(f)'
        <5>1. IsTable(f)' <=> IsTable(f) \/ f \in w.pool.used \ pool.used
          BY <1>3, <1>6 DEF Walks, IsTable, Names
        <5> QED
          BY <4>1, <4>3, <5>1, Zenon
      <4>7. One(f \in handles)' = 0 /\ One(IsTable(f))' = 0 /\ lost'[f] = 0
        BY <1>u, <1>7, <3>3, <4>3, <4>6 DEF One
      <4>8. pool'.refs[f] = 1 /\ f \in pool'.used
        BY <1>5, <1>6, <4>1, Zenon
      <4> QED
        BY <3>3, <4>5, <4>7, <4>8 DEF Counted
    <3> QED
      BY <3>1, <3>2, <3>3
  <2> QED
    BY <1>5, <1>6, <2>1, AllCounted DEF Exact
<1>11. Budgeted'
  BY <1>u, Zenon DEF Inv, Budgeted
<1> QED
  BY <1>4, <1>9, <1>10, <1>11 DEF Inv

(* Below the limit of g_refs there is room for one more user of a page.    *)
LEMMA RoomToShare ==
  ASSUME Careful, Inv, NEW f \in Frames, NEW a \in VAs, f \in handles, Vacant(a), left["share"] > 0
  PROVE  pool.refs[f] < RefMax /\ a \notin Holders(f) /\ frameSlot[f] = 0
<1>1. Known
  BY Facts, Zenon
<1>2. f \notin Reserved /\ frameSlot[f] = 0
  BY <1>1, Zenon DEF Known
<1>3. a \notin Holders(f)
  BY <1>2, Zenon DEF Vacant, Holders, Mapping
<1>4. Cardinality(Holders(f)) <= Cardinality(VAs) - 1 /\ Cardinality(VAs) \in Nat
  <2>1. IsFiniteSet(VAs) /\ Holders(f) \subseteq VAs \ {a}
    BY <1>3, Zenon DEF Careful, Holders, Mapping
  <2>2. IsFiniteSet(VAs \ {a}) /\ Cardinality(VAs \ {a}) = Cardinality(VAs) - 1
    BY <2>1, FS_RemoveElement, Zenon
  <2>3. Cardinality(Holders(f)) <= Cardinality(VAs \ {a})
    BY <2>1, <2>2, FS_Subset, Zenon
  <2>4. Cardinality(VAs) \in Nat
    BY <2>1, FS_CardinalityType, Zenon
  <2> QED
    BY <2>2, <2>3, <2>4, Zenon
<1>5. PICK b \in Budgets : left.share + lost[f] <= b.share
  BY Zenon DEF Inv, Budgeted
<1>6. /\ Cardinality(VAs) + b.share < RefMax /\ b.share \in Nat /\ RefMax \in Nat
      /\ left.share \in Nat /\ left.share > 0
  BY VmmAssumption DEF Careful, Inv, Budgeted
<1>7. pool.refs[f] = Cardinality(Holders(f)) + One(f \in handles) + One(IsTable(f)) + lost[f]
  BY <1>2, AllCounted, Zenon DEF Inv, Counted
<1>8. One(f \in handles) \in 0..1 /\ One(IsTable(f)) \in 0..1
  BY DEF One
<1>9. Cardinality(Holders(f)) \in Nat /\ lost[f] \in Nat
  BY <1>1, Zenon DEF Known
<1> QED
  BY <1>2, <1>3, <1>4, <1>5, <1>6, <1>7, <1>8, <1>9

(* wubu_vmm_map_shared.                                                    *)
LEMMA MapSharedStep ==
  ASSUME Careful, Inv, NEW f \in Frames, NEW a \in VAs, MapShared(f, a)
  PROVE  Inv'
<1>0. PICK p, w : p = Ref(pool, f) /\ w = Walk(p, a)
  BY Zenon
<1>1. Known
  BY Facts, Zenon
<1>2. /\ f \in handles /\ Vacant(a) /\ left["share"] > 0
      /\ pool' = w.pool /\ tables' = w.tables
      /\ pte' = IF w.ok THEN [pte EXCEPT ![a] = Entry(f, FALSE)] ELSE pte
      /\ lost' = IF w.ok \/ p = pool THEN lost ELSE [lost EXCEPT ![f] = @ + 1]
      /\ val' = IF w.ok THEN [val EXCEPT ![a] = mem[f]] ELSE val
      /\ left' = [left EXCEPT !["share"] = @ - 1]
      /\ UNCHANGED <<mem, frameSlot, slotVa, disk, evicting, access, halted, handles, overtaken,
                     faults>>
  BY <1>0, Zenon DEF MapShared, Spend, tracked
<1>u. UNCHANGED <<mem, frameSlot, slotVa, disk, evicting, access, halted, handles, overtaken, faults>>
  BY <1>2, Zenon
<1>3. pool.refs[f] < RefMax /\ a \notin Holders(f) /\ frameSlot[f] = 0
  BY <1>2, RoomToShare, Zenon
<1>4. /\ f \in handles /\ f \in pool.used /\ f \notin Reserved /\ Exact(pool)
      /\ PoolSound(pool, tables)
  BY <1>1, <1>2, Zenon DEF Known, PoolSound
<1>5. /\ Exact(p) /\ p # pool /\ p.used = pool.used /\ p.refs[f] = pool.refs[f] + 1
      /\ \A h \in Frames : h # f => p.refs[h] = pool.refs[h]
  BY <1>0, <1>3, <1>4, RefExact
<1>6. PoolSound(p, tables)
  BY <1>4, <1>5, Zenon DEF PoolSound
<1>7. Walks(p, a, w)
  BY <1>0, <1>6, Walked, Zenon
<1>8. /\ Places' /\ Alone' /\ Evictions' /\ Homes' /\ Served' /\ Saved' /\ StoresKept'
      /\ pte' \in [VAs -> [frame : Frames, write : BOOLEAN] \cup {None}]
      /\ \A b \in VAs : b # a => pte'[b] = pte[b]
      /\ w.ok => pte'[a] # None /\ pte'[a].frame = f
      /\ val' \in [VAs -> Values]
  <2>1. handles' \subseteq handles
    BY <1>u, Zenon
  <2>2. PICK wr \in BOOLEAN : wr = FALSE
    BY Zenon
  <2>3. wr => p.refs[f] = 1
    BY <2>2, Zenon
  <2>4. pte' = IF w.ok THEN [pte EXCEPT ![a] = Entry(f, wr)] ELSE pte
    BY <1>2, <2>2, Zenon
  <2> QED
    <3>1. /\ f \in handles /\ Vacant(a) /\ pool' = w.pool /\ tables' = w.tables
          /\ val' = IF w.ok THEN [val EXCEPT ![a] = mem[f]] ELSE val
          /\ p.used = pool.used /\ \A h \in Frames : h # f => p.refs[h] = pool.refs[h]
      BY <1>2, <1>5, Zenon
    <3>2. UNCHANGED <<mem, frameSlot, slotVa, disk, evicting, access, halted, overtaken, faults>>
      BY <1>u, Zenon
    <3>3. Maps(f, a, wr, p, w)
      BY <1>7, <2>1, <2>3, <2>4, <3>1, <3>2, Zenon DEF Maps
    <3> QED
      BY <3>3, MapKeeps, Zenon DEF Mapped
<1>9. /\ tables' \in [Tables -> Frames \cup {None}] /\ Exact(w.pool)
      /\ \A h \in Frames : h \in p.used => w.pool.refs[h] = p.refs[h]
      /\ \A h \in Frames : h \in p.used => h \in w.pool.used
  <2>1. tables' = w.tables
    BY <1>2, Zenon
  <2>2. Grown(p, a, w)
    BY <1>1, <1>7, <2>1, WalkKeeps, Zenon
  <2> QED
    BY <2>2, Zenon DEF Grown
<1>10. pool' = w.pool /\ tables' = w.tables /\ pte[a] = None
  BY <1>2, Zenon DEF Vacant
<1>11. /\ lost \in [Frames -> Nat] /\ lost' \in [Frames -> Nat]
       /\ (\A h \in Frames : h # f => lost'[h] = lost[h])
       /\ lost'[f] = IF w.ok THEN lost[f] ELSE lost[f] + 1
  <2>1. lost' = IF w.ok THEN lost ELSE [lost EXCEPT ![f] = @ + 1]
    BY <1>2, <1>5, Zenon
  <2>2. lost \in [Frames -> Nat]
    BY Zenon DEF Inv, TypeOK
  <2> QED
    BY <2>1, <2>2
<1>12. ~w.ok => pte' = pte
  BY <1>2, Zenon
<1>13. TypeOK'
  <2>1. pool' \in Pools
    BY <1>9, <1>10, Zenon DEF Exact
  <2> QED
    BY <1>u, <1>8, <1>9, <1>11, <2>1, Zenon DEF Inv, TypeOK, Pools
<1>14. RefsExact'
  <2>1. ASSUME NEW h \in Frames \ Reserved PROVE Counted(h)'
    <3>1. CASE h # f
      <4>1. Holders(h)' = Holders(h)
        <5>1. CASE w.ok
          BY <1>u, <1>8, <1>10, <3>1, <5>1 DEF Holders, Mapping
        <5>2. CASE ~w.ok
          BY <1>u, <1>12, <5>2, SameHolders
        <5> QED
          BY <5>1, <5>2, Zenon
      <4>2. /\ p.refs[h] = pool.refs[h] /\ (h \in p.used <=> h \in pool.used) /\ lost'[h] = lost[h]
            /\ (h \in handles' <=> h \in handles)
        BY <1>u, <1>5, <1>11, <3>1, Zenon
      <4> QED
        BY <1>1, <1>7, <1>10, <4>1, <4>2, WalkCount DEF Inv
    <3>2. CASE h = f
      <4>1. pool.refs[f] = Cardinality(Holders(f)) + One(f \in handles) + One(IsTable(f)) + lost[f]
        BY <1>4, AllCounted, Zenon DEF Inv, Counted
      <4>2. /\ Cardinality(Holders(f)) \in Nat /\ One(f \in handles) \in Nat /\ One(IsTable(f)) \in Nat
            /\ lost[f] \in Nat /\ IsFiniteSet(Holders(f))
        BY <1>1, Zenon DEF One, Known
      <4>3. IsTable(f)' <=> IsTable(f)
        <5>1. IsTable(f)' <=> IsTable(f) \/ f \in w.pool.used \ p.used
          BY <1>7, <1>10 DEF Walks, IsTable, Names
        <5> QED
          BY <1>4, <1>5, <5>1, Zenon
      <4>4. One(f \in handles)' = One(f \in handles) /\ One(IsTable(f))' = One(IsTable(f))
        BY <1>u, <4>3, Zenon DEF One
      <4>5. pool'.refs[f] = pool.refs[f] + 1 /\ f \in pool'.used
        BY <1>4, <1>5, <1>9, <1>10
      <4>6. pool'.refs[f] > 0
        BY <4>1, <4>2, <4>5
      <4>7. CASE w.ok
        <5>1. Holders(f)' = Holders(f) \cup {a}
          BY <1>u, <1>3, <1>8, <4>7 DEF Holders, Mapping
        <5>2. Cardinality(Holders(f) \cup {a}) = Cardinality(Holders(f)) + 1
          BY <1>3, <4>2, FS_AddElement, Zenon
        <5>3. Cardinality(Holders(f))' = Cardinality(Holders(f)) + 1
          BY <5>1, <5>2, Zenon
        <5>4. pool'.refs[f]
                = (Cardinality(Holders(f)) + 1) + One(f \in handles) + One(IsTable(f)) + lost[f]
          BY <4>1, <4>2, <4>5
        <5>5. lost'[f] = lost[f]
          BY <1>11, <4>7, Zenon
        <5> QED
          BY <3>2, <4>4, <4>5, <4>6, <5>3, <5>4, <5>5 DEF Counted
      <4>8. CASE ~w.ok
        <5>1. Holders(f)' = Holders(f)
          BY <1>u, <1>12, <4>8, SameHolders, Zenon
        <5>2. pool'.refs[f]
                = Cardinality(Holders(f)) + One(f \in handles) + One(IsTable(f)) + (lost[f] + 1)
          BY <4>1, <4>2, <4>5
        <5>3. lost'[f] = lost[f] + 1
          BY <1>11, <4>8, Zenon
        <5> QED
          BY <3>2, <4>4, <4>5, <4>6, <5>1, <5>2, <5>3 DEF Counted
      <4> QED
        BY <4>7, <4>8, Zenon
    <3> QED
      BY <3>1, <3>2, Zenon
  <2> QED
    BY <1>9, <1>10, <2>1, AllCounted DEF Exact
<1>15. Budgeted'
  <2>1. /\ left' = [left EXCEPT !["share"] = @ - 1] /\ left["share"] > 0
        /\ left \in [{"alloc", "share", "access", "evict"} -> Nat]
    BY <1>2, Zenon DEF Inv, Budgeted
  <2>2. left' \in [{"alloc", "share", "access", "evict"} -> Nat] /\ left'.share = left.share - 1
    BY <2>1
  <2>3. PICK b \in Budgets : \A h \in Frames : left.share + lost[h] <= b.share
    BY Zenon DEF Inv, Budgeted
  <2>4. \A h \in Frames : lost[h] \in Nat /\ lost'[h] <= lost[h] + 1 /\ lost'[h] \in Nat
    BY <1>11
  <2>5. left.share \in Nat /\ b.share \in Nat
    BY <2>1, VmmAssumption
  <2>6. \A h \in Frames : left'.share + lost'[h] <= b.share
    BY <2>2, <2>3, <2>4, <2>5
  <2> QED
    BY <2>2, <2>6, Zenon DEF Budgeted
<1> QED
  BY <1>8, <1>13, <1>14, <1>15 DEF Inv

(* The tables missing on the way to a page are finitely many.              *)
LEMMA FewMissing ==
  ASSUME NEW a \in VAs
  PROVE  Cardinality(Missing(a)) \in Nat
<1>1. Path[a] \in Seq(Tables)
  BY VmmAssumption, Zenon
<1>2. DOMAIN Path[a] = 1..Len(Path[a]) /\ Len(Path[a]) \in Nat
  BY <1>1
<1>3. Missing(a) \in SUBSET (1..Len(Path[a]))
  BY <1>2, Zenon DEF Missing
<1>4. IsFiniteSet(1..Len(Path[a]))
  <2> DEFINE n == Len(Path[a])
  <2>1. n \in Int /\ 1 \in Int
    BY <1>2
  <2> HIDE DEF n
  <2>2. IsFiniteSet(1..n)
    BY <2>1, FS_Interval, Zenon
  <2> QED
    BY <2>2, Zenon DEF n
<1>5. IsFiniteSet(Missing(a))
  BY <1>3, <1>4, FS_Subset
<1> QED
  BY <1>5, FS_CardinalityType, Zenon

-----------------------------------------------------------------------------
(* wubu_vmm_demand_fill: when it gives up, pages are short and the address *)
(* is in no slot.                                                          *)
LEMMA DemandFillStep ==
  ASSUME Careful, Inv, ~halted, NEW a \in VAs, DemandFill(a), faults' = faults + 1
  PROVE  /\ Inv'
         /\ halted' => pool.free < 1 + Cardinality(Missing(a)) /\ ~Evicted(a)
<1>0. PICK f, p, w : f = Lowest(Runs(pool, 1)) /\ p = Taken(pool, {f}) /\ w = Walk(p, a)
  BY Zenon
<1>1. Known
  BY Facts, Zenon
<1>2. /\ Faulting(a) /\ a \in Demand /\ Runs(pool, 1) # {}
      /\ mem' = [mem EXCEPT ![f] = 0] /\ tables' = w.tables
      /\ pool' = IF w.ok THEN w.pool ELSE FreePage(w.pool, f)
      /\ pte' = IF w.ok THEN [pte EXCEPT ![a] = Entry(f, TRUE)] ELSE pte
      /\ halted' = ~w.ok
      /\ UNCHANGED <<frameSlot, slotVa, disk, evicting, access, left, handles, lost, val, overtaken>>
  BY <1>0, Zenon DEF DemandFill, tracked, ofCallers
<1>u. /\ UNCHANGED <<frameSlot, slotVa, disk, evicting, access, left, handles, lost, val, overtaken>>
      /\ tables' = w.tables /\ (halted' <=> ~w.ok) /\ halted' \in BOOLEAN
  <2>1. halted' = ~w.ok
    BY <1>2, Zenon
  <2>2. halted' \in BOOLEAN /\ (halted' <=> ~w.ok)
    BY <2>1, Zenon
  <2> QED
    BY <1>2, <2>2, Zenon
<1>3. faults' = 1 /\ access # None /\ access.va = a /\ ~Permitted /\ a \in Demand
  BY <1>2, FirstFault
<1>4. f \in Frames /\ f \notin pool.used
  BY <1>0, <1>2, FreeOne, Zenon
<1>5. pte[a] = None
  BY <1>3, Zenon DEF Inv, Homes, Permitted
<1>6. /\ frameSlot[f] = 0 /\ Holders(f) = {} /\ f \notin handles /\ ~IsTable(f) /\ lost[f] = 0
      /\ f \notin Reserved
  BY <1>1, <1>4, Zenon DEF Known, PoolSound
<1>7. /\ Exact(p) /\ p.used = pool.used \cup {f} /\ p.free = pool.free - 1
      /\ p.refs[f] = 1 /\ \A h \in Frames : h # f => p.refs[h] = pool.refs[h]
  <2>1. Exact(pool) /\ \A h \in {f} : h \in Frames /\ h \notin pool.used
    BY <1>1, <1>4, Zenon DEF Known, PoolSound
  <2>2. Exact(p)
    BY <1>0, <2>1, TakeExact
  <2>3. Cardinality({f}) = 1
    BY FS_Singleton, Zenon
  <2>4. /\ p.used = pool.used \cup {f} /\ p.free = pool.free - Cardinality({f})
        /\ \A h \in Frames : p.refs[h] = IF h = f THEN 1 ELSE pool.refs[h]
    BY <1>0, Zenon DEF Taken
  <2> QED
    BY <1>4, <2>2, <2>3, <2>4
<1>8. Walks(p, a, w)
  <2>1. PoolSound(p, tables)
    BY <1>1, <1>4, <1>7 DEF Known, PoolSound
  <2> QED
    BY <1>0, <2>1, Walked
<1>9. Grown(p, a, w)
  BY <1>1, <1>u, <1>8, WalkKeeps
<1>10. /\ Exact(w.pool) /\ f \in w.pool.used /\ w.pool.refs[f] = 1 /\ Reserved \subseteq w.pool.used
       /\ \A h \in Frames : h \in pool.used => h \in w.pool.used /\ w.pool.refs[h] = pool.refs[h]
       /\ ~IsTable(f)'
  <2>1. /\ Exact(w.pool) /\ Reserved \subseteq w.pool.used
        /\ \A h \in Frames : h \in p.used => h \in w.pool.used /\ w.pool.refs[h] = p.refs[h]
    BY <1>9, Zenon DEF Grown
  <2>2. IsTable(f)' <=> IsTable(f) \/ f \in w.pool.used \ p.used
    BY <1>u, <1>4, <1>8, Zenon DEF Walks, IsTable, Names
  <2> QED
    BY <1>4, <1>6, <1>7, <2>1, <2>2
<1>11. /\ Exact(pool')
       /\ \A h \in Frames : h # f => /\ pool'.refs[h] = w.pool.refs[h]
                                     /\ h \in pool'.used <=> h \in w.pool.used
       /\ w.ok => f \in pool'.used /\ pool'.refs[f] = 1
       /\ ~w.ok => f \notin pool'.used /\ pool'.refs[f] = 0
  <2>1. CASE w.ok
    <3>1. pool' = w.pool
      BY <1>2, <2>1, Zenon
    <3> QED
      BY <1>10, <2>1, <3>1, Zenon
  <2>2. CASE ~w.ok
    <3>1. pool' = FreePage(w.pool, f)
      BY <1>2, <2>2, Zenon
    <3>2. /\ Exact(FreePage(w.pool, f)) /\ FreePage(w.pool, f).used = w.pool.used \ {f}
          /\ \A h \in Frames : FreePage(w.pool, f).refs[h]
                                 = IF h = f THEN w.pool.refs[f] - 1 ELSE w.pool.refs[h]
      <4>1. /\ Exact(w.pool) /\ f \in Frames /\ f \in w.pool.used
            /\ w.pool.refs[f] = 1 /\ w.pool.refs[f] >= 1
        BY <1>4, <1>10
      <4>2. /\ Exact(FreePage(w.pool, f))
            /\ FreePage(w.pool, f).used
                 = IF w.pool.refs[f] = 1 THEN w.pool.used \ {f} ELSE w.pool.used
            /\ \A h \in Frames : FreePage(w.pool, f).refs[h]
                                   = IF h = f THEN w.pool.refs[f] - 1 ELSE w.pool.refs[h]
        BY ONLY <4>1, FreeExact, Zenon
      <4> QED
        BY <4>1, <4>2, Zenon
    <3>3. /\ f \in Frames /\ f \in w.pool.used /\ w.pool.refs[f] = 1
      BY <1>4, <1>10, Zenon
    <3>4. f \notin pool'.used /\ pool'.refs[f] = 0
      BY <3>1, <3>2, <3>3
    <3>5. \A h \in Frames : h # f => /\ pool'.refs[h] = w.pool.refs[h]
                                     /\ h \in pool'.used <=> h \in w.pool.used
      BY <3>1, <3>2, Zenon
    <3> QED
      BY <2>2, <3>1, <3>2, <3>4, <3>5
  <2> QED
    BY <2>1, <2>2, Zenon
<1>12. \A h \in Frames : h \in pool.used =>
         h # f /\ h \in pool'.used /\ pool'.refs[h] = pool.refs[h]
  BY <1>4, <1>10, <1>11, Zenon
<1>13. /\ pte \in [VAs -> [frame : Frames, write : BOOLEAN] \cup {None}]
       /\ pte' \in [VAs -> [frame : Frames, write : BOOLEAN] \cup {None}]
       /\ w.ok => pte'[a] # None /\ pte'[a].frame = f /\ pte'[a].write = TRUE
       /\ ~w.ok => pte'[a] = None
       /\ \A b \in VAs : b # a => pte'[b] = pte[b]
  <2>1. Entry(f, TRUE) \in [frame : Frames, write : BOOLEAN]
        /\ Entry(f, TRUE).frame = f /\ Entry(f, TRUE).write = TRUE
    BY <1>4, Zenon DEF Entry
  <2>2. Entry(f, TRUE) # None
    BY <2>1, VmmAssumption, Zenon
  <2>3. pte \in [VAs -> [frame : Frames, write : BOOLEAN] \cup {None}]
        /\ pte' = IF w.ok THEN [pte EXCEPT ![a] = Entry(f, TRUE)] ELSE pte
    BY <1>2, Zenon DEF Inv, TypeOK
  <2>4. CASE w.ok
    BY <2>1, <2>2, <2>3, <2>4, Zenon
  <2>5. CASE ~w.ok
    BY <1>5, <2>3, <2>5, Zenon
  <2> QED
    BY <2>4, <2>5, Zenon
<1>14. mem' \in [Frames -> Values] /\ \A h \in Frames : h # f => mem'[h] = mem[h]
  BY <1>2, <1>4, VmmAssumption, Zenon DEF Inv, TypeOK
<1>15. /\ \A b \in VAs : pte[b] # None => pte[b].frame \in Frames /\ pte[b].frame \in pool.used
       /\ \A h \in Frames : frameSlot[h] # 0 => h \in pool.used
       /\ \A b \in VAs : pte'[b] # None /\ b # a => pte[b] # None /\ pte'[b] = pte[b]
       /\ pte'[a] # None => w.ok /\ pte'[a].frame = f /\ pte'[a].write = TRUE
  BY <1>1, <1>13, Zenon DEF Known

<1>16. TypeOK'
  <2>1. faults' \in Nat /\ pool' \in Pools /\ tables' \in [Tables -> Frames \cup {None}]
    BY <1>3, <1>9, <1>11 DEF Exact, Grown
  <2> QED
    BY <1>u, <1>13, <1>14, <2>1, Zenon DEF Inv, TypeOK, Pools
<1>17. RefsExact'
  <2>1. ASSUME NEW h \in Frames \ Reserved PROVE Counted(h)'
    <3>1. CASE h # f
      <4>1. Holders(h)' = Holders(h)
        <5>1. Mapping(h)' = Mapping(h)
          BY <1>5, <1>13, <3>1, Zenon DEF Mapping
        <5> QED
          BY <1>u, <5>1, Zenon DEF Holders
      <4>2. /\ p.refs[h] = pool.refs[h] /\ (h \in p.used <=> h \in pool.used) /\ lost'[h] = lost[h]
            /\ (h \in handles' <=> h \in handles)
        BY <1>u, <1>7, <3>1, Zenon
      <4>3. pool'.refs[h] = w.pool.refs[h] /\ (h \in pool'.used <=> h \in w.pool.used)
        BY <1>11, <3>1, Zenon
      <4> QED
        BY <1>1, <1>u, <1>8, <4>1, <4>2, <4>3, WalkCount, Zenon DEF Inv
    <3>2. CASE h = f
      <4>1. One(f \in handles)' = 0 /\ One(IsTable(f))' = 0 /\ lost'[f] = 0
        BY <1>u, <1>6, <1>10, Zenon DEF One
      <4>2. CASE w.ok
        <5>1. Mapping(f)' = {a}
          BY <1>13, <1>15, <1>4, <4>2 DEF Mapping
        <5>2. Holders(f)' = {a}
          BY <1>u, <1>6, <5>1 DEF Holders
        <5>3. Cardinality(Holders(f))' = 1
          BY <5>2, FS_Singleton, Zenon
        <5> QED
          BY <1>11, <3>2, <4>1, <4>2, <5>3 DEF Counted
      <4>3. CASE ~w.ok
        <5>1. Mapping(f)' = {}
          BY <1>13, <1>15, <1>4, <4>3 DEF Mapping
        <5>2. Holders(f)' = {}
          BY <1>u, <1>6, <5>1 DEF Holders
        <5>3. Cardinality(Holders(f))' = 0
          BY <5>2, FS_EmptySet, Zenon
        <5> QED
          BY <1>11, <3>2, <4>1, <4>3, <5>3 DEF Counted
      <4> QED
        BY <4>2, <4>3, Zenon
    <3> QED
      BY <3>1, <3>2, Zenon
  <2> QED
    BY <1>11, <2>1, AllCounted, Zenon DEF Exact
<1>18. Places'
  <2>1. \A b \in VAs : pte'[b] # None => pte'[b].frame \notin Reserved
    BY <1>6, <1>15 DEF Inv, Places
  <2>2. /\ \A t \in Tables : tables'[t] \notin Reserved
        /\ \A t, u \in Tables : tables'[t] = tables'[u] /\ tables'[t] # None => t = u
    BY <1>9, Zenon DEF Grown
  <2>3. Reserved \subseteq pool'.used
    BY <1>6, <1>10, <1>11, VmmAssumption, Zenon
  <2> QED
    BY <1>u, <2>1, <2>2, <2>3 DEF Inv, Places
<1>19. Alone'
  <2>1. ASSUME NEW b \in VAs, pte'[b] # None /\ pte'[b].write PROVE pool'.refs[pte'[b].frame] = 1
    <3>1. CASE b = a
      BY <1>11, <1>15, <2>1, <3>1
    <3>2. CASE b # a
      BY <1>12, <1>15, <2>1, <3>2 DEF Inv, Alone
    <3> QED
      BY <3>1, <3>2, Zenon
  <2>2. \A h \in Frames : frameSlot'[h] # 0 => pool'.refs[h] = 1
    BY <1>u, <1>12, <1>15, Zenon DEF Inv, Alone
  <2> QED
    BY <2>1, <2>2, Zenon DEF Alone
<1>20. Evictions'
  <2>1. \A e \in Evictors : evicting[e] # None =>
          /\ evicting[e].va \in VAs /\ evicting[e].va # a
          /\ pte[evicting[e].va] # None /\ pte[evicting[e].va].frame = evicting[e].frame
          /\ pool.refs[evicting[e].frame] = 1 /\ evicting[e].frame \notin handles
    BY <1>5, Zenon DEF Inv, TypeOK, Evictions
  <2>2. \A e \in Evictors : evicting'[e] # None =>
         /\ pte'[evicting'[e].va] # None /\ pte'[evicting'[e].va].frame = evicting'[e].frame
         /\ pool'.refs[evicting'[e].frame] = 1 /\ evicting'[e].frame \notin handles'
    BY <1>u, <1>12, <1>13, <1>15, <2>1
  <2>3. \A e \in Evictors : evicting'[e] # None =>
         /\ frameSlot'[evicting'[e].frame] = IF evicting'[e].recorded THEN evicting'[e].slot ELSE 0
         /\ slotVa'[evicting'[e].slot] = IF evicting'[e].recorded THEN evicting'[e].va ELSE None
    BY <1>u, Zenon DEF Inv, Evictions
  <2>4. \A b \in VAs : pte'[b] # None /\ frameSlot'[pte'[b].frame] # 0 =>
          \E e \in Evictors : Leaves(e, b) /\ evicting[e].recorded
    BY <1>u, <1>6, <1>15 DEF Inv, Evictions
  <2>5. \A e \in Evictors, b \in VAs : Leaves(e, b)' <=> Leaves(e, b)
    BY <1>u, Zenon DEF Leaves
  <2> QED
    BY <1>u, <2>2, <2>3, <2>4, <2>5 DEF Evictions
<1>21. \A b \in VAs : Evicted(b)' <=> Evicted(b)
  BY <1>u, Zenon DEF Evicted
<1>22. Homes'
  <2>1. \A r \in Slots : slotVa'[r] \in VAs \ Demand /\ pte'[slotVa'[r]] # None =>
          \E e \in Evictors : evicting[e] # None /\ evicting[e].va = slotVa'[r] /\ evicting[e].recorded
    BY <1>u, <1>3, <1>15 DEF Inv, Homes, Leaves
  <2>2. \A q, r \in Slots : slotVa'[q] = slotVa'[r] /\ slotVa'[q] \in VAs \ Demand => q = r
    BY <1>u, Zenon DEF Inv, Homes
  <2>3. \A b \in Demand : pte'[b] # None => pte'[b].write
    BY <1>15, VmmAssumption DEF Inv, Homes
  <2>4. \A b \in VAs : Missing(b) = {} => Missing(b)' = {}
    BY <1>9, Zenon DEF Grown
  <2>5. w.ok => Missing(a)' = {}
    BY <1>9, Zenon DEF Grown
  <2>6. \A b \in VAs : pte'[b] # None \/ Evicted(b)' => Missing(b)' = {}
    BY <1>15, <1>21, <2>4, <2>5 DEF Inv, Homes
  <2> QED
    BY <1>u, <2>1, <2>2, <2>3, <2>6 DEF Homes, Leaves
<1>23. Served'
  BY <1>u, <1>3, <1>13 DEF Served, Permitted
<1>24. Budgeted' /\ Saved'
  BY <1>u, Zenon DEF Inv, Budgeted, Saved
<1>25. StoresKept'
  <2> SUFFICES ASSUME NEW b \in VAs \ (Demand \cup overtaken') PROVE ReadsBack(b)'
    BY Zenon DEF StoresKept
  <2>1. ReadsBack(b) /\ b # a
    BY <1>u, <1>3, Zenon DEF Inv, StoresKept
  <2>2. pte'[b] = pte[b] /\ (pte[b] # None => mem'[pte[b].frame] = mem[pte[b].frame])
    BY <1>4, <1>13, <1>14, <1>15, <2>1
  <2> QED
    BY <1>u, <2>1, <2>2, SameReads, Zenon
<1>26. ASSUME ~w.ok PROVE pool.free < 1 + Cardinality(Missing(a)) /\ ~Evicted(a)
  <2>1. Missing(a) # {} /\ p.free < Cardinality(Missing(a))
    BY <1>7, <1>8, <1>26 DEF Walks, Exact
  <2>2. ~Evicted(a)
    BY <2>1, Zenon DEF Inv, Homes
  <2>3. pool.free \in Nat
    BY VmmAssumption DEF Inv, TypeOK
  <2> QED
    BY <1>7, <2>1, <2>2, <2>3, FewMissing
<1> QED
  BY <1>u, <1>16, <1>17, <1>18, <1>19, <1>20, <1>22, <1>23, <1>24, <1>25, <1>26 DEF Inv

-----------------------------------------------------------------------------
(* wubu_vmm_init: nothing is mapped, and the free pages are the ones not   *)
(* reserved.                                                               *)
LEMMA InvInit ==
  ASSUME Careful, Init
  PROVE  Inv
<1>1. /\ pool = [used |-> Reserved, refs |-> [f \in Frames |-> 0],
                 free |-> NFrames - Cardinality(Reserved)]
      /\ mem \in [Frames -> Values \ {0}] /\ disk = [s \in Slots |-> 0]
      /\ tables = [t \in Tables |-> None] /\ pte = [a \in VAs |-> None]
      /\ frameSlot = [f \in Frames |-> 0] /\ slotVa = [s \in Slots |-> None]
      /\ evicting = [e \in Evictors |-> None] /\ access = None /\ halted = FALSE
      /\ left \in Budgets /\ handles = {} /\ lost = [f \in Frames |-> 0]
      /\ val = [a \in VAs |-> 0] /\ overtaken = {} /\ faults = 0
  BY Zenon DEF Init
<1>2. /\ \A f \in Frames : pool.refs[f] = 0 /\ frameSlot[f] = 0 /\ lost[f] = 0
      /\ \A t \in Tables : tables[t] = None
      /\ \A a \in VAs : pte[a] = None
      /\ \A s \in Slots : slotVa[s] = None
      /\ \A e \in Evictors : evicting[e] = None
      /\ pool.used = Reserved /\ pool.free = NFrames - Cardinality(Reserved)
  BY <1>1, Zenon
<1>3. None \notin Frames /\ None \notin VAs /\ 0 \in Values /\ Reserved \subseteq Frames
  BY VmmAssumption, Zenon
<1>4. pool.free = Cardinality(Frames \ Reserved) /\ pool.free \in 0..NFrames
  <2>1. IsFiniteSet(Frames) /\ Cardinality(Frames) = NFrames
    BY VmmAssumption, FS_Interval DEF Frames
  <2>2. Cardinality(Frames \ Reserved) = Cardinality(Frames) - Cardinality(Frames \cap Reserved)
    BY <2>1, FS_Difference, Zenon
  <2>3. Frames \cap Reserved = Reserved
    BY <1>3, Zenon
  <2>4. Cardinality(Frames \ Reserved) \in 0..NFrames
    BY Framed, Zenon
  <2>5. Cardinality(Frames \ Reserved) = NFrames - Cardinality(Reserved)
    BY <2>1, <2>2, <2>3, Zenon
  <2> QED
    BY <1>2, <2>4, <2>5
<1>5. TypeOK
  <2>1. pool \in Pools
    <3>1. [f \in Frames |-> 0] \in [Frames -> 0..RefMax]
      BY VmmAssumption
    <3>2. pool = [used |-> Reserved, refs |-> [f \in Frames |-> 0], free |-> pool.free]
      BY <1>1, Zenon
    <3> QED
      BY <1>3, <1>4, <3>1, <3>2 DEF Pools
  <2>2. mem \in [Frames -> Values]
    BY <1>1, Zenon
  <2>3. /\ disk \in [Slots -> Values] /\ tables \in [Tables -> Frames \cup {None}]
        /\ pte \in [VAs -> [frame : Frames, write : BOOLEAN] \cup {None}]
        /\ frameSlot \in [Frames -> {0} \cup Slots] /\ slotVa \in [Slots -> VAs \cup {None}]
        /\ val \in [VAs -> Values] /\ lost \in [Frames -> Nat]
    BY <1>1, <1>3, Zenon
  <2>4. evicting \in [Evictors -> {None} \cup
          [va : VAs, frame : Frames, slot : Slots, recorded : BOOLEAN]]
    BY <1>1, Zenon
  <2>5. /\ access \in [va : VAs, v : Values \cup {None}] \cup {None} /\ halted \in BOOLEAN
        /\ handles \subseteq Frames /\ overtaken \subseteq VAs /\ faults \in Nat
    BY <1>1, Zenon
  <2> QED
    BY <2>1, <2>2, <2>3, <2>4, <2>5, Zenon DEF TypeOK, Pools
<1>6. RefsExact
  <2>1. ASSUME NEW f \in Frames \ Reserved PROVE Counted(f)
    <3>1. Holders(f) = {} /\ ~IsTable(f) /\ f \notin handles
      BY <1>1, <1>2, <1>3, Zenon DEF Holders, Mapping, IsTable
    <3>2. Cardinality(Holders(f)) = 0
      BY <3>1, FS_EmptySet, Zenon
    <3>3. One(f \in handles) = 0 /\ One(IsTable(f)) = 0
      BY <3>1, Zenon DEF One
    <3> QED
      BY <1>2, <3>2, <3>3 DEF Counted
  <2>2. pool.free = Cardinality(Frames \ pool.used)
    BY <1>2, <1>4, Zenon
  <2> QED
    BY <2>1, <2>2, AllCounted
<1>7. Places /\ Alone /\ Evictions /\ Saved
  BY <1>1, <1>2, <1>3, Zenon DEF Places, Alone, Evictions, Saved
<1>8. \A a \in VAs : ~Evicted(a)
  BY <1>2, <1>3, Zenon DEF Evicted
<1>9. Homes
  BY <1>2, <1>3, <1>8, VmmAssumption, Zenon DEF Homes
<1>10. Served
  BY <1>1 DEF Served
<1>11. Budgeted
  <2>1. left \in [{"alloc", "share", "access", "evict"} -> Nat]
    BY <1>1, VmmAssumption, Zenon
  <2>2. \A f \in Frames : left.share + lost[f] <= left.share
    BY <1>2, <2>1
  <2> QED
    BY <1>1, <2>1, <2>2, Zenon DEF Budgeted
<1>12. StoresKept
  BY <1>2, <1>8, Zenon DEF StoresKept, ReadsBack
<1> QED
  BY <1>5, <1>6, <1>7, <1>9, <1>10, <1>11, <1>12 DEF Inv

(* Nothing happens.                                                        *)
LEMMA Stutters ==
  ASSUME Inv, UNCHANGED vars
  PROVE  Inv'
<1>1. UNCHANGED <<pool, mem, tables, pte, frameSlot, slotVa, disk, evicting, access, halted, left,
                  handles, lost, val, overtaken, faults>>
  BY Zenon DEF vars, tracked, history
<1>2. TypeOK'
  BY <1>1, Zenon DEF Inv, TypeOK
<1>3. RefsExact'
  BY <1>1, SameHolders, SameRefs, Zenon DEF Inv
<1>4. Places' /\ Alone' /\ Evictions'
  <2>1. Places'
    BY <1>1, Zenon DEF Inv, Places
  <2>2. Alone'
    BY <1>1, Zenon DEF Inv, Alone
  <2>3. Evictions'
    BY <1>1, Zenon DEF Inv, Evictions, Leaves
  <2> QED
    BY <2>1, <2>2, <2>3, Zenon
<1>5. Homes'
  BY <1>1, Zenon DEF Inv, Homes, Leaves, Evicted, Missing
<1>6. Served'
  BY <1>1, Zenon DEF Inv, Served, Evicted, Permitted
<1>7. Budgeted' /\ Saved'
  BY <1>1, Zenon DEF Inv, Budgeted, Saved
<1>8. StoresKept'
  BY <1>1, SameReads, Zenon DEF Inv, StoresKept
<1> QED
  BY <1>2, <1>3, <1>4, <1>5, <1>6, <1>7, <1>8 DEF Inv

(* Every step keeps the invariant.                                         *)
LEMMA InvStep ==
  ASSUME Careful, Inv, [Next]_vars
  PROVE  Inv'
<1>1. CASE UNCHANGED vars
  BY <1>1, Stutters, Zenon
<1>2. CASE Next
  <2>1. ~halted /\ Acts
    BY <1>2, Zenon DEF Next
  <2>2. CASE \E n \in 1 .. 2, v \in Values \ {0} : AllocPages(n, v)
    BY <2>2, AllocStep, Zenon
  <2>3. CASE \E f \in Frames : FreePages(f) \/ \E a \in VAs : MapPage(f, a) \/ MapShared(f, a)
    BY <2>3, FreeStep, MapPageStep, MapSharedStep, Zenon
  <2>4. CASE \E a \in VAs : Discard(a) \/ \E v \in Values \cup {None} : Begin(a, v)
    BY <2>4, DiscardStep, BeginStep, Zenon
  <2>5. CASE \E e \in Evictors : SwapRecord(e) \/ SwapUnmap(e) \/ \E a \in VAs : SwapOut(e, a)
    BY <2>1, <2>5, SwapRecordStep, SwapUnmapStep, SwapOutStep, Zenon
  <2>6. CASE Complete
    BY <2>6, CompleteStep, Zenon
  <2>7. CASE HandlePageFault
    <3>1. faults' = faults + 1
      BY <2>7, Zenon DEF HandlePageFault
    <3>2. PICK a \in VAs : DemandFill(a) \/ CowAlone(a) \/ CowCopy(a) \/ SwapIn(a) \/ Panic(a)
      BY <2>7, Zenon DEF HandlePageFault
    <3> QED
      BY <2>1, <3>1, <3>2, DemandFillStep, CowAloneStep, CowCopyStep, SwapInStep, PanicStep
  <2> QED
    BY <2>1, <2>2, <2>3, <2>4, <2>5, <2>6, <2>7, Zenon DEF Acts
<1> QED
  BY <1>1, <1>2, Zenon

(* The invariant holds throughout.                                         *)
LEMMA Invariance ==
  ASSUME Careful
  PROVE  Spec => []Inv
<1>1. Init => Inv
  BY InvInit, Zenon
<1>2. Inv /\ [Next]_vars => Inv'
  BY InvStep, Zenon
<1> QED
  BY <1>1, <1>2, PTL DEF Spec

(* The panic at the end of handle_page_fault: there is no free page, and   *)
(* the address is in no slot.                                              *)
LEMMA PanicShort ==
  ASSUME Careful, Inv, ~halted, NEW a \in VAs, Panic(a)
  PROVE  pool.free < 1 + Cardinality(Missing(a)) /\ ~Evicted(a)
<1>1. NotCopied(a) /\ Faulting(a) /\ (Evicted(a) => \A f \in Frames : frameSlot[f] # SlotOf(a))
  BY Zenon DEF Panic, NotCopied, NotFilled
<1>2. access # None /\ access.va = a
  BY <1>1, FirstFault, Zenon
<1>3. ~Evicted(a)
  <2> SUFFICES ASSUME Evicted(a) PROVE FALSE
    BY Zenon
  <2>1. SlotOf(a) \in Slots /\ slotVa[SlotOf(a)] = a /\ a # None
    BY SlotFound, VmmAssumption, Zenon
  <2>2. \E f \in Frames : frameSlot[f] = SlotOf(a)
    BY <2>1, Zenon DEF Inv, Places
  <2> QED
    BY <1>1, <2>2, Zenon
<1>4. Runs(pool, 1) = {}
  BY <1>1, <1>2, <1>3, Zenon DEF Inv, Served, NotCopied, NotFilled
<1>5. Frames \ pool.used = {}
  <2> SUFFICES ASSUME NEW f \in Frames \ pool.used PROVE FALSE
    BY Zenon
  <2>1. f \in Nat
    BY VmmAssumption DEF Frames
  <2>2. f .. f + 1 - 1 = {f}
    BY <2>1
  <2> QED
    BY <1>4, <2>2, Zenon DEF Runs
<1>6. pool.free = 0
  BY <1>5, FS_EmptySet, Zenon DEF Inv, RefsExact
<1> QED
  BY <1>3, <1>6, FewMissing

(* What a step that stops the machine has found.                           *)
LEMMA HaltStep ==
  ASSUME Careful, Inv, Next, halted'
  PROVE  pool.free < 1 + Cardinality(Missing(access.va)) /\ ~Evicted(access.va)
<1>1. ~halted /\ Acts
  BY Zenon DEF Next
<1>2. ASSUME halted' = halted PROVE FALSE
  BY <1>1, <1>2
<1>3. HandlePageFault
  <2>1. ASSUME \E n \in 1 .. 2, v \in Values \ {0} : AllocPages(n, v) PROVE FALSE
    BY <1>2, <2>1, Zenon DEF AllocPages
  <2>2. ASSUME \E f \in Frames : FreePages(f) \/ \E a \in VAs : MapPage(f, a) \/ MapShared(f, a)
        PROVE  FALSE
    <3>1. PICK f \in Frames : FreePages(f) \/ \E a \in VAs : MapPage(f, a) \/ MapShared(f, a)
      BY <2>2, Zenon
    <3> QED
      BY <1>2, <3>1, Zenon DEF FreePages, MapPage, MapShared
  <2>3. ASSUME \E a \in VAs : Discard(a) \/ \E v \in Values \cup {None} : Begin(a, v) PROVE FALSE
    BY <1>2, <2>3, Zenon DEF Discard, Begin
  <2>4. ASSUME \E e \in Evictors : SwapRecord(e) \/ SwapUnmap(e) \/ \E a \in VAs : SwapOut(e, a)
        PROVE  FALSE
    BY <1>2, <2>4, Zenon DEF SwapRecord, SwapUnmap, SwapOut
  <2>5. ASSUME Complete PROVE FALSE
    BY <1>2, <2>5, Zenon DEF Complete
  <2> QED
    BY <1>1, <2>1, <2>2, <2>3, <2>4, <2>5, Zenon DEF Acts
<1>4. faults' = faults + 1
  BY <1>3, Zenon DEF HandlePageFault
<1>5. PICK a \in VAs : DemandFill(a) \/ CowAlone(a) \/ CowCopy(a) \/ SwapIn(a) \/ Panic(a)
  BY <1>3, Zenon DEF HandlePageFault
<1>6. Faulting(a)
  BY <1>5, Zenon DEF DemandFill, CowAlone, CowCopy, SwapIn, Panic, NotCopied, NotFilled
<1>7. access.va = a
  BY <1>1, <1>6, FirstFault, Zenon
<1>8. ~CowAlone(a) /\ ~CowCopy(a)
  BY <1>2, Zenon DEF CowAlone, CowCopy
<1>9. ~SwapIn(a)
  BY <1>1, <1>4, SwapInStep, Zenon
<1>10. CASE DemandFill(a)
  BY <1>1, <1>4, <1>7, <1>10, DemandFillStep, Zenon
<1>11. CASE Panic(a)
  BY <1>1, <1>7, <1>11, PanicShort, Zenon
<1> QED
  BY <1>5, <1>8, <1>9, <1>10, <1>11

-----------------------------------------------------------------------------
(* Every reference that g_refs counts is somebody's, and g_free_pages is   *)
(* the number of free pages.                                               *)
THEOREM RefsExactHolds ==
  ASSUME Careful
  PROVE  Spec => []RefsExact
<1>1. Inv => RefsExact
  BY Zenon DEF Inv
<1> QED
  BY <1>1, Invariance, PTL

(* The write bit in a page's entry means that its frame has no other user, *)
(* whatever wubu_vmm_cow_fault, wubu_swap_in and wubu_vmm_demand_fill did. *)
THEOREM WritableAloneHolds ==
  ASSUME Careful
  PROVE  Spec => []WritableAlone
<1>1. Inv => WritableAlone
  <2> SUFFICES ASSUME Inv, NEW a \in VAs, pte[a] # None /\ pte[a].write, NEW f, f = pte[a].frame
               PROVE  Holders(f) = {a} /\ f \notin handles /\ ~IsTable(f) /\ f \in pool.used
    BY Zenon DEF WritableAlone
  <2>1. Known
    BY Facts, Zenon
  <2>2. /\ f \in Frames /\ f \in pool.used /\ f \notin Reserved /\ a \in Holders(f)
        /\ pool.refs[f] = 1
    BY <2>1, Zenon DEF Known, Inv, Alone
  <2>3. f \notin handles /\ ~IsTable(f) /\ \A b, c \in Holders(f) : b = c
    <3>1. \A h \in Frames \ Reserved : pool.refs[h] = 1 /\ Holders(h) # {} =>
            h \notin handles /\ ~IsTable(h) /\ \A b, c \in Holders(h) : b = c
      BY <2>1, Zenon DEF Known
    <3> HIDE DEF Holders, IsTable
    <3> QED
      BY <2>2, <3>1, Zenon
  <2> HIDE DEF Holders
  <2> QED
    BY <2>2, <2>3
<1> QED
  BY <1>1, Invariance, PTL

(* Outside the demand-zero regions an address reads as what was last       *)
(* stored there, mapped or in the swap area.                               *)
THEOREM StoresKeptHolds ==
  ASSUME Careful
  PROVE  Spec => []StoresKept
<1>1. Inv => StoresKept
  BY Zenon DEF Inv
<1> QED
  BY <1>1, Invariance, PTL

(* handle_page_fault never returns to an instruction that faults again.    *)
THEOREM OneFaultHolds ==
  ASSUME Careful
  PROVE  Spec => []OneFault
<1>1. Inv => OneFault
  BY Zenon DEF Inv, Served, OneFault
<1> QED
  BY <1>1, Invariance, PTL

(* handle_page_fault gives up only for want of pages, and never on a page  *)
(* that is in the swap area.                                               *)
THEOREM PanicsOnlyWhenFullHolds ==
  ASSUME Careful
  PROVE  Spec => PanicsOnlyWhenFull
<1>1. Inv /\ [Next]_vars =>
        [~halted /\ halted' =>
           /\ pool.free < 1 + Cardinality(Missing(access.va))
           /\ ~Evicted(access.va)]_vars
  BY HaltStep, Zenon
<1> QED
  BY <1>1, Invariance, PTL DEF Spec, PanicsOnlyWhenFull
=============================================================================
