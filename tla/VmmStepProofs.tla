--------------------------- MODULE VmmStepProofs ----------------------------
(***************************************************************************)
(* The inductive invariant of Vmm, and that it is kept by the steps that   *)
(* use one page: allocating and freeing it, taking it out to the swap area *)
(* and letting it be stored to again.  The other steps and the theorems    *)
(* are in VmmProofs.                                                       *)
(***************************************************************************)
EXTENDS Vmm, FiniteSetTheorems, TLAPS

(* What the code needs of its callers: no two evictions at a time, no      *)
(* eviction of shared pages, and fewer users of a page than g_refs counts. *)
Careful ==
  /\ \A d, e \in Evictors : d = e
  /\ ~EvictShared
  /\ IsFiniteSet(VAs) /\ \A b \in Budgets : Cardinality(VAs) + b.share < RefMax

(* Who may be where: frames that are used are not reserved; a frame in the *)
(* swap area has one slot, a slot one frame; every table has its own.      *)
Places ==
  /\ Reserved \subseteq pool.used
  /\ \A a \in VAs : pte[a] # None => pte[a].frame \notin Reserved
  /\ handles \cap Reserved = {}
  /\ \A t \in Tables : tables[t] \notin Reserved
  /\ \A t, u \in Tables : tables[t] = tables[u] /\ tables[t] # None => t = u
  /\ \A f \in Frames : frameSlot[f] # 0 => f \notin Reserved /\ slotVa[frameSlot[f]] # None
  /\ \A f, g \in Frames : frameSlot[f] = frameSlot[g] /\ frameSlot[f] # 0 => f = g
  /\ \A s \in Slots : slotVa[s] # None => \E f \in Frames : frameSlot[f] = s

(* Pages with one user: those that can be stored to or are in the swap area. *)
Alone ==
  /\ \A a \in VAs : pte[a] # None /\ pte[a].write => pool.refs[pte[a].frame] = 1
  /\ \A f \in Frames : frameSlot[f] # 0 => pool.refs[f] = 1

(* A page on its way out is mapped, and only such a page is mapped and has *)
(* a slot.                                                                 *)
Leaves(e, a) == evicting[e] # None /\ evicting[e].va = a
Evictions ==
  /\ \A e \in Evictors : evicting[e] # None =>
       /\ pte[evicting[e].va] # None /\ pte[evicting[e].va].frame = evicting[e].frame
       /\ pool.refs[evicting[e].frame] = 1 /\ evicting[e].frame \notin handles
       /\ frameSlot[evicting[e].frame] = IF evicting[e].recorded THEN evicting[e].slot ELSE 0
       /\ slotVa[evicting[e].slot] = IF evicting[e].recorded THEN evicting[e].va ELSE None
  /\ \A a \in VAs : pte[a] # None /\ frameSlot[pte[a].frame] # 0 =>
       \E e \in Evictors : Leaves(e, a) /\ evicting[e].recorded

(* Outside the demand-zero regions an address has one slot and is not also *)
(* mapped, but while it is evicted; in them every mapping can be stored to.*)
Homes ==
  /\ \A s \in Slots : slotVa[s] \in VAs \ Demand /\ pte[slotVa[s]] # None =>
       \E e \in Evictors : Leaves(e, slotVa[s]) /\ evicting[e].recorded
  /\ \A r, s \in Slots : slotVa[r] = slotVa[s] /\ slotVa[r] \in VAs \ Demand => r = s
  /\ \A a \in Demand : pte[a] # None => pte[a].write
  /\ \A a \in VAs : pte[a] # None \/ Evicted(a) => Missing(a) = {}

(* The access a program is at can be served, and is once it has faulted.   *)
Served ==
  /\ access # None => pte[access.va] # None \/ Evicted(access.va) \/ access.va \in Demand
  /\ faults <= 1 /\ (faults # 0 => access # None /\ (halted \/ Permitted))

Budgeted ==
  /\ left \in [{"alloc", "share", "access", "evict"} -> Nat]
  /\ \E b \in Budgets : \A f \in Frames : left.share + lost[f] <= b.share

Saved ==
  \A e \in Evictors : evicting[e] # None /\ evicting[e].va \notin Demand \cup overtaken =>
    disk[evicting[e].slot] = val[evicting[e].va]

Inv ==
  /\ TypeOK /\ RefsExact /\ Places /\ Alone /\ Evictions /\ Homes /\ Served /\ Budgeted
  /\ Saved /\ StoresKept

-----------------------------------------------------------------------------
(* Least elements, and the place of a number in a finite set of numbers.   *)
Less == {ss \in Nat \X Nat : ss[1] < ss[2]}

(* A set of naturals has a least element.                                  *)
LEMMA LeastNat ==
  ASSUME NEW T \in SUBSET Nat, T # {}
  PROVE  \E n \in T : \A m \in T : n <= m
<1>1. Less = OpToRel(<, Nat)
  BY ZenonT(20) DEF OpToRel, Less
<1>2. IsWellFoundedOn(Less, Nat)
  BY <1>1, NatLessThanWellFounded, Zenon
<1>3. PICK n \in T : \A m \in T : ~(<<m, n>> \in Less)
  BY <1>2, WFMin, Zenon
<1>4. \A m \in T : ~(m < n)
  BY <1>3, Zenon DEF Less
<1> QED
  BY <1>4

(* Lowest picks a member of the set, the least one.                        *)
LEMMA LowestIn ==
  ASSUME NEW T \in SUBSET Nat, T # {}
  PROVE  Lowest(T) \in T /\ \A m \in T : Lowest(T) <= m
<1>1. \E n \in T : \A m \in T : n <= m
  BY LeastNat, Zenon
<1> QED
  BY <1>1, Zenon DEF Lowest

(* Ranks are numbers up to the size of the set, and no two are equal.      *)
LEMMA RankType ==
  ASSUME NEW S \in SUBSET Nat, IsFiniteSet(S), NEW x \in S, NEW y \in S
  PROVE  /\ Rank(S, x) \in 1..Cardinality(S)
         /\ x < y => Rank(S, x) < Rank(S, y)
<1> DEFINE U(z) == {v \in S : v <= z}
<1>1. ASSUME NEW z \in S PROVE IsFiniteSet(U(z)) /\ Cardinality(U(z)) \in 1..Cardinality(S)
  <2>1. U(z) \in SUBSET S /\ z \in U(z)
    OBVIOUS
  <2>2. /\ IsFiniteSet(U(z)) /\ Cardinality(U(z)) <= Cardinality(S)
        /\ Cardinality(U(z)) \in Nat /\ Cardinality(S) \in Nat
    BY <2>1, FS_Subset, FS_CardinalityType, Zenon
  <2>3. Cardinality(U(z)) # 0
    <3> HIDE DEF U
    <3> QED
      BY <2>1, <2>2, FS_EmptySet, Zenon
  <2> QED
    BY <2>2, <2>3
<1>2. ASSUME x < y PROVE Cardinality(U(x)) < Cardinality(U(y))
  <2>1. U(x) \in SUBSET U(y) /\ y \in U(y) /\ y \notin U(x)
    <3>1. x \in Nat /\ y \in Nat /\ \A v \in S : v \in Nat
      BY Zenon
    <3>2. \A v \in S : v <= x => v <= y
      BY <1>2, <3>1
    <3>3. y <= y /\ ~(y <= x)
      BY <1>2, <3>1
    <3> QED
      BY <3>2, <3>3, Zenon
  <2>2. Cardinality(U(x)) <= Cardinality(U(y)) /\ Cardinality(U(x)) # Cardinality(U(y))
    <3> HIDE DEF U
    <3>1. IsFiniteSet(U(y)) /\ U(x) # U(y)
      BY <1>1, <2>1, Zenon
    <3> QED
      BY <2>1, <3>1, FS_Subset, Zenon
  <2> QED
    BY <1>1, <2>2
<1> QED
  BY <1>1, <1>2, Zenon DEF Rank

(* Every number up to the size of the set is a rank.                       *)
LEMMA RankOnto ==
  ASSUME NEW S \in SUBSET Nat, IsFiniteSet(S), NEW i \in 1..Cardinality(S)
  PROVE  \E x \in S : Rank(S, x) = i
<1> DEFINE N == 1..Cardinality(S)
           f == [x \in S |-> Rank(S, x)]
<1>1. Cardinality(S) \in Nat
  BY FS_CardinalityType, Zenon
<1>2. IsFiniteSet(N) /\ Cardinality(N) = Cardinality(S)
  BY <1>1, FS_Interval
<1>3. f \in [S -> N] /\ \A x \in S : f[x] = Rank(S, x)
  BY RankType, Zenon
<1>4. ASSUME NEW x \in S, NEW y \in S, f[x] = f[y] PROVE x = y
  <2>1. Rank(S, x) = Rank(S, y) /\ Rank(S, x) \in Nat
    BY <1>1, <1>3, <1>4, RankType
  <2> QED
    BY <2>1, RankType
<1> HIDE DEF N, f
<1>5. f \in Injection(S, N)
  BY <1>3, <1>4, Zenon DEF Injection, IsInjective
<1>6. f \in Surjection(S, N)
  BY <1>2, <1>5, FS_Injection, Zenon
<1>7. PICK x \in S : f[x] = i
  BY <1>6, Zenon DEF Surjection, N
<1> QED
  BY <1>3, <1>7, Zenon

-----------------------------------------------------------------------------
(* The allocator and the walk.                                             *)
Pools == [used : SUBSET Frames, refs : [Frames -> 0 .. RefMax], free : 0 .. NFrames]

(* The frames are finitely many numbers, and so are those of any set.      *)
LEMMA Framed ==
  ASSUME NEW U
  PROVE  /\ Frames \in SUBSET Nat /\ IsFiniteSet(Frames \ U)
         /\ Cardinality(Frames \ U) \in 0..NFrames /\ Cardinality(Frames \ U) \in Nat
<1>1. IsFiniteSet(Frames) /\ Cardinality(Frames) = NFrames
  BY VmmAssumption, FS_Interval DEF Frames
<1>2. Frames \ U \in SUBSET Frames
  BY Zenon
<1>3. IsFiniteSet(Frames \ U) /\ Cardinality(Frames \ U) <= NFrames
  BY <1>1, <1>2, FS_Subset, Zenon
<1> QED
  BY <1>3, FS_CardinalityType, VmmAssumption DEF Frames

Exact(p) == p \in Pools /\ p.free = Cardinality(Frames \ p.used)

(* wubu_vmm_alloc_pages keeps the number of free pages exact.              *)
LEMMA TakeExact ==
  ASSUME NEW p, Exact(p), NEW fs, \A f \in fs : f \in Frames /\ f \notin p.used
  PROVE  Exact(Taken(p, fs))
<1> DEFINE q == Taken(p, fs)
<1>0. p \in Pools /\ p.free = Cardinality(Frames \ p.used)
  BY Zenon DEF Exact
<1>1. /\ q.used = p.used \cup fs /\ q.free = p.free - Cardinality(fs)
      /\ q.refs = [f \in Frames |-> IF f \in fs THEN 1 ELSE p.refs[f]]
      /\ q = [used |-> q.used, free |-> q.free, refs |-> q.refs]
  BY Zenon DEF Taken
<1> HIDE DEF q
<1>2. Frames \ (p.used \cup fs) = (Frames \ p.used) \ fs /\ (Frames \ p.used) \cap fs = fs
  BY Zenon
<1>3. /\ IsFiniteSet(Frames \ p.used) /\ Cardinality(Frames \ p.used) \in Nat
      /\ Cardinality(fs) \in Nat
  <2>1. IsFiniteSet(Frames \ p.used)
    BY Framed, Zenon
  <2>2. IsFiniteSet(fs)
    BY <2>1, FS_Subset
  <2> QED
    BY <2>1, <2>2, FS_CardinalityType, Zenon
<1>4. Cardinality((Frames \ p.used) \ fs) = Cardinality(Frames \ p.used) - Cardinality(fs)
  <2> DEFINE S == Frames \ p.used
  <2>1. IsFiniteSet(S) /\ S \cap fs = fs
    BY <1>2, <1>3, Zenon
  <2> HIDE DEF S
  <2>2. Cardinality(S \ fs) = Cardinality(S) - Cardinality(fs)
    <3>1. Cardinality(S \ fs) = Cardinality(S) - Cardinality(S \cap fs)
      BY <2>1, FS_Difference, Zenon
    <3> QED
      BY <2>1, <3>1, Zenon
  <2> QED
    BY <2>2, Zenon DEF S
<1>5. q.free = Cardinality(Frames \ q.used) /\ q.free \in 0..NFrames
  <2>1. Cardinality(Frames \ (p.used \cup fs)) \in 0..NFrames
    BY Framed, Zenon
  <2> QED
    BY <1>0, <1>1, <1>2, <1>4, <2>1
<1>6. q.used \in SUBSET Frames /\ q.refs \in [Frames -> 0..RefMax]
  BY <1>0, <1>1, VmmAssumption DEF Pools
<1>7. q \in Pools
  BY <1>1, <1>5, <1>6, Zenon DEF Pools
<1> QED
  BY <1>5, <1>7, Zenon DEF q, Exact

(* A pool and the page tables made from it.                                *)
PoolSound(p, tb) ==
  /\ Exact(p) /\ Reserved \subseteq p.used
  /\ \A f \in Frames \ p.used : p.refs[f] = 0
  /\ tb \in [Tables -> Frames \cup {None}]
  /\ \A t \in Tables : tb[t] = None \/ tb[t] \in p.used \ Reserved
  /\ \A t, u \in Tables : tb[t] = tb[u] /\ tb[t] # None => t = u
Names(tb, f) == \E t \in Tables : tb[t] = f

(* The walk of wubu_vmm_map_page makes the missing tables, each from a     *)
(* free page of its own, and fails only when there are too few.            *)
Walks(p, a, w) ==
  /\ PoolSound(w.pool, w.tables) /\ p.used \subseteq w.pool.used
  /\ \A f \in Frames : w.pool.refs[f] = IF f \in w.pool.used \ p.used THEN 1 ELSE p.refs[f]
  /\ \A f \in Frames : Names(w.tables, f) <=> Names(tables, f) \/ f \in w.pool.used \ p.used
  /\ \A t \in Tables : tables[t] # None => w.tables[t] = tables[t]
  /\ w.ok <=> \A i \in DOMAIN Path[a] : w.tables[Path[a][i]] # None
  /\ ~w.ok => Cardinality(Frames \ p.used) < Cardinality(Missing(a))
  /\ Missing(a) = {} => w.ok /\ w.pool.used = p.used /\ w.tables = tables
LEMMA Walked ==
  ASSUME NEW p, NEW a \in VAs, PoolSound(p, tables)
  PROVE  Walks(p, a, Walk(p, a))
<1> DEFINE free == Frames \ p.used
           M == Missing(a)
           made == Made(p, a)
           page(i) == NewTable(p, a, i)
           w == Walk(p, a)
<1>1. /\ w.ok <=> made = M
      /\ w.pool = Taken(p, {page(i) : i \in made})
      /\ w.tables = [t \in Tables |-> IF \E i \in made : Path[a][i] = t
                                      THEN page(Level(a, t)) ELSE tables[t]]
  BY Zenon DEF Walk
<1>2. /\ Path[a] \in Seq(Tables) /\ DOMAIN Path[a] = 1..Len(Path[a]) /\ Len(Path[a]) \in Nat
      /\ \A i \in DOMAIN Path[a] : Path[a][i] \in Tables
      /\ \A i, j \in DOMAIN Path[a] : Path[a][i] = Path[a][j] => i = j
  BY VmmAssumption
<1>3. /\ M \in SUBSET Nat /\ IsFiniteSet(M) /\ M \subseteq DOMAIN Path[a]
      /\ \A i \in M : tables[Path[a][i]] = None
  <2>1. M \in SUBSET (1..Len(Path[a])) /\ IsFiniteSet(1..Len(Path[a]))
    BY <1>2, FS_Interval DEF Missing
  <2> QED
    BY <1>2, <2>1, FS_Subset DEF Missing
<1>4. free \in SUBSET Nat /\ IsFiniteSet(free) /\ Cardinality(free) \in Nat
  <2>1. Frames \in SUBSET Nat /\ IsFiniteSet(free) /\ Cardinality(free) \in Nat
    BY Framed, Zenon
  <2> QED
    BY <2>1, Zenon
<1>5. \A i \in made : page(i) \in free /\ Rank(free, page(i)) = Rank(M, i)
  <2> TAKE i \in made
  <2>1. Rank(M, i) \in 1..Cardinality(free)
    <3>0. i \in M /\ Rank(M, i) <= Cardinality(free)
      BY Zenon DEF Made
    <3>1. Rank(M, i) \in 1..Cardinality(M) /\ Cardinality(M) \in Nat
      BY <1>3, <3>0, RankType, FS_CardinalityType, Zenon
    <3> QED
      BY <1>4, <3>0, <3>1
  <2>2. \E f \in free : Rank(free, f) = Rank(M, i)
    <3> HIDE DEF free, M
    <3> QED
      BY <1>4, <2>1, RankOnto, Zenon
  <2> QED
    BY <2>2, Zenon DEF NewTable
<1>6. ASSUME NEW i \in made, NEW j \in made, page(i) = page(j) PROVE i = j
  <2>1. Rank(M, i) = Rank(M, j) /\ i \in M /\ j \in M /\ i \in Nat /\ j \in Nat
    <3>1. i \in M /\ j \in M
      BY Zenon DEF Made
    <3> QED
      BY <1>3, <1>5, <1>6, <3>1
  <2>2. Rank(M, i) \in 1..Cardinality(M) /\ Cardinality(M) \in Nat
    BY <1>3, <2>1, RankType, FS_CardinalityType, Zenon
  <2> QED
    BY <1>3, <2>1, <2>2, RankType
<1>7. w.ok \/ Cardinality(free) < Cardinality(M)
  <2> SUFFICES ASSUME NEW i \in M, i \notin made PROVE Cardinality(free) < Cardinality(M)
    <3>1. made \subseteq M
      BY Zenon DEF Made
    <3> HIDE DEF w, made, M
    <3> QED
      BY <1>1, <3>1, Zenon
  <2>1. Rank(M, i) \in 1..Cardinality(M) /\ Cardinality(M) \in Nat
    BY <1>3, RankType, FS_CardinalityType, Zenon
  <2> QED
    BY <1>4, <2>1 DEF Made
<1>8. \A i \in made : Level(a, Path[a][i]) = i /\ Path[a][i] \in Tables /\ tables[Path[a][i]] = None
  <2> TAKE i \in made
  <2>1. i \in DOMAIN Path[a]
    BY <1>3, Zenon DEF Made
  <2>2. Level(a, Path[a][i]) \in DOMAIN Path[a] /\ Path[a][Level(a, Path[a][i])] = Path[a][i]
    BY <2>1, Zenon DEF Level
  <2> QED
    BY <1>2, <1>3, <2>1, <2>2, Zenon DEF Made
<1> HIDE DEF page, made, free, M, w
<1> DEFINE q == w.pool
           tb == w.tables
           fs == {page(i) : i \in made}
<1>9. made \subseteq M
  BY Zenon DEF made, M, Made
<1>10. \A i \in made : tb[Path[a][i]] = page(i)
  BY <1>1, <1>8
<1>11. \A t \in Tables : \/ tb[t] = tables[t] /\ \A i \in made : Path[a][i] # t
                         \/ \E i \in made : Path[a][i] = t /\ tb[t] = page(i)
  BY <1>1, <1>10
<1>12. /\ Exact(q) /\ q.used = p.used \cup fs
       /\ \A f \in Frames : q.refs[f] = IF f \in fs THEN 1 ELSE p.refs[f]
  <2>1. \A f \in fs : f \in Frames /\ f \notin p.used
    BY <1>5, Zenon DEF free
  <2>2. /\ Taken(p, fs).used = p.used \cup fs
        /\ Taken(p, fs).refs = [f \in Frames |-> IF f \in fs THEN 1 ELSE p.refs[f]]
    BY Zenon DEF Taken
  <2>3. q = Taken(p, fs)
    BY <1>1, Zenon
  <2> HIDE DEF fs
  <2>4. Exact(Taken(p, fs))
    BY <2>1, TakeExact, Zenon DEF PoolSound
  <2> HIDE DEF q
  <2> QED
    BY <2>2, <2>3, <2>4, Zenon
<1>13. q.used \ p.used = fs /\ \A f \in fs : f \in Frames /\ f \notin p.used
  BY <1>5, <1>12 DEF free
<1>14. /\ \A t \in Tables : tables[t] = None \/ tables[t] \in p.used \ Reserved
       /\ \A t, u \in Tables : tables[t] = tables[u] /\ tables[t] # None => t = u
       /\ tables \in [Tables -> Frames \cup {None}] /\ Reserved \subseteq p.used
       /\ \A f \in Frames \ p.used : p.refs[f] = 0
       /\ None \notin Frames
  BY VmmAssumption, Zenon DEF PoolSound
<1> HIDE DEF q, tb, fs
<1>15. PoolSound(q, tb)
  <2>1. tb \in [Tables -> Frames \cup {None}]
    <3>1. tb = [t \in Tables |-> tb[t]]
      BY <1>1, Zenon DEF tb
    <3>2. \A t \in Tables : tb[t] \in Frames \cup {None}
      BY <1>5, <1>11, <1>14 DEF free
    <3> QED
      BY <3>1, <3>2, Zenon
  <2>2. \A t \in Tables : tb[t] = None \/ tb[t] \in q.used \ Reserved
    BY <1>5, <1>11, <1>12, <1>14 DEF free, fs
  <2>3. ASSUME NEW t \in Tables, NEW u \in Tables, tb[t] = tb[u], tb[t] # None PROVE t = u
    <3>1. ASSUME NEW i \in made, Path[a][i] = t, tb[t] = page(i) PROVE t = u
      <4>1. page(i) \notin p.used
        BY <1>5, Zenon DEF free
      <4>2. tb[u] # tables[u]
        BY <1>14, <2>3, <3>1, <4>1
      <4>3. PICK j \in made : Path[a][j] = u /\ tb[u] = page(j)
        BY <1>11, <4>2, Zenon
      <4> QED
        BY <1>6, <2>3, <3>1, <4>3, Zenon
    <3>2. ASSUME tb[t] = tables[t] PROVE t = u
      <4>1. tb[u] \in p.used
        BY <1>14, <2>3, <3>2, Zenon
      <4>2. tb[u] = tables[u]
        BY <1>5, <1>11, <4>1, Zenon DEF free
      <4> QED
        BY <1>14, <2>3, <3>2, <4>2, Zenon
    <3> QED
      BY <1>11, <3>1, <3>2, Zenon
  <2>4. Reserved \subseteq q.used /\ \A f \in Frames \ q.used : q.refs[f] = 0
    BY <1>12, <1>14, Zenon
  <2> QED
    BY <1>12, <2>1, <2>2, <2>3, <2>4, Zenon DEF PoolSound
<1>16. \A f \in Frames : Names(tb, f) <=> Names(tables, f) \/ f \in fs
  <2> TAKE f \in Frames
  <2>1. ASSUME NEW i \in made, f = page(i) PROVE Names(tb, f)
    BY <1>8, <1>10, <2>1, Zenon DEF Names
  <2>2. ASSUME NEW t \in Tables, tables[t] = f PROVE Names(tb, f)
    <3>1. \A i \in made : Path[a][i] # t
      BY <1>8, <1>14, <2>2
    <3> QED
      BY <1>11, <2>2, <3>1 DEF Names
  <2>3. ASSUME NEW t \in Tables, tb[t] = f PROVE Names(tables, f) \/ f \in fs
    BY <1>11, <2>3 DEF Names, fs
  <2> QED
    BY <2>1, <2>2, <2>3, Zenon DEF Names, fs
<1>17. \A t \in Tables : tables[t] # None => tb[t] = tables[t]
  BY <1>8, <1>11
<1>18. w.ok <=> \A i \in DOMAIN Path[a] : tb[Path[a][i]] # None
  <2>1. ASSUME made = M, NEW i \in DOMAIN Path[a] PROVE tb[Path[a][i]] # None
    <3>1. CASE i \in M
      BY <1>5, <1>10, <1>14, <2>1, <3>1 DEF free
    <3>2. CASE i \notin M
      BY <1>2, <1>17, <3>2, Zenon DEF M, Missing
    <3> QED
      BY <3>1, <3>2, Zenon
  <2>2. ASSUME \A i \in DOMAIN Path[a] : tb[Path[a][i]] # None PROVE M \subseteq made
    <3> SUFFICES ASSUME NEW i \in M PROVE i \in made
      BY Zenon
    <3>1. PICK j \in made : Path[a][j] = Path[a][i]
      BY <1>2, <1>3, <1>11, <2>2
    <3> QED
      BY <1>2, <1>3, <1>9, <3>1, Zenon
  <2> QED
    BY <1>1, <1>9, <2>1, <2>2, Zenon
<1>19. M = {} => w.ok /\ q.used = p.used /\ tb = tables
  <2> SUFFICES ASSUME M = {} PROVE w.ok /\ q.used = p.used /\ tb = tables
    BY Zenon
  <2>1. made = {} /\ fs = {} /\ w.ok
    BY <1>1, <1>9, Zenon DEF fs
  <2>2. \A t \in Tables : tb[t] = tables[t]
    BY <1>11, <2>1, Zenon
  <2>3. tb \in [Tables -> Frames \cup {None}]
    BY <1>15, Zenon DEF PoolSound
  <2> QED
    BY <1>12, <1>14, <2>1, <2>2, <2>3
<1> QED
  <2>1. ~w.ok => Cardinality(Frames \ p.used) < Cardinality(Missing(a))
    BY <1>7, Zenon DEF free, M
  <2>2. p.used \subseteq q.used
    BY <1>12, Zenon
  <2>3. \A f \in Frames : q.refs[f] = IF f \in q.used \ p.used THEN 1 ELSE p.refs[f]
    BY <1>12, <1>13, Zenon
  <2>4. \A f \in Frames : Names(tb, f) <=> Names(tables, f) \/ f \in q.used \ p.used
    BY <1>13, <1>16, Zenon
  <2> QED
    BY <1>15, <1>17, <1>18, <1>19, <2>1, <2>2, <2>3, <2>4, Zenon DEF Walks, w, q, tb, M

(* wubu_vmm_ref below the limit of the count adds one.                     *)
LEMMA RefExact ==
  ASSUME NEW p, Exact(p), NEW f \in Frames, f \in p.used, p.refs[f] < RefMax
  PROVE  /\ Exact(Ref(p, f)) /\ Ref(p, f) # p /\ Ref(p, f).used = p.used
         /\ \A g \in Frames : Ref(p, f).refs[g] = IF g = f THEN p.refs[f] + 1 ELSE p.refs[g]
<1> DEFINE q == Ref(p, f)
<1>0. /\ p.used \in SUBSET Frames /\ p.refs \in [Frames -> 0..RefMax] /\ p.free \in 0..NFrames
      /\ p = [used |-> p.used, refs |-> p.refs, free |-> p.free]
      /\ p.free = Cardinality(Frames \ p.used)
  BY Zenon DEF Exact, Pools
<1>1. /\ q.used = p.used /\ q.free = p.free /\ q.refs = [p.refs EXCEPT ![f] = @ + 1]
      /\ q = [used |-> q.used, refs |-> q.refs, free |-> q.free]
  BY <1>0, Zenon DEF Ref
<1> HIDE DEF q
<1>2. q.refs \in [Frames -> 0..RefMax] /\ q.refs[f] # p.refs[f]
  BY <1>0, <1>1, VmmAssumption
<1>3. q \in Pools
  BY <1>0, <1>1, <1>2, Zenon DEF Pools
<1> QED
  BY <1>0, <1>1, <1>2, <1>3, Zenon DEF Exact, q

(* wubu_vmm_free_pages drops a reference, with the last one the page.      *)
LEMMA FreeExact ==
  ASSUME NEW p, Exact(p), NEW f \in Frames, f \in p.used, p.refs[f] >= 1
  PROVE  /\ Exact(FreePage(p, f))
         /\ FreePage(p, f).used = IF p.refs[f] = 1 THEN p.used \ {f} ELSE p.used
         /\ \A g \in Frames : FreePage(p, f).refs[g] = IF g = f THEN p.refs[f] - 1 ELSE p.refs[g]
<1> DEFINE q == FreePage(p, f)
<1>0. /\ p.used \in SUBSET Frames /\ p.refs \in [Frames -> 0..RefMax] /\ p.free \in 0..NFrames
      /\ p = [used |-> p.used, refs |-> p.refs, free |-> p.free]
      /\ p.free = Cardinality(Frames \ p.used)
  BY Zenon DEF Exact, Pools
<1>1. CASE p.refs[f] # 1
  <2>1. /\ q.used = p.used /\ q.free = p.free /\ q.refs = [p.refs EXCEPT ![f] = @ - 1]
        /\ q = [used |-> q.used, refs |-> q.refs, free |-> q.free]
    <3>1. p.refs[f] > 1
      BY <1>0, <1>1
    <3>2. q = [p EXCEPT !.refs = [p.refs EXCEPT ![f] = p.refs[f] - 1]]
      BY <3>1, Zenon DEF FreePage
    <3> HIDE DEF q
    <3> QED
      BY <1>0, <3>2, Zenon
  <2> HIDE DEF q
  <2>2. q.refs \in [Frames -> 0..RefMax]
    BY <1>0, <1>1, <2>1, VmmAssumption
  <2>3. q \in Pools
    BY <1>0, <2>1, <2>2, Zenon DEF Pools
  <2> QED
    BY <1>0, <1>1, <2>1, <2>3, Zenon DEF Exact, q
<1>2. CASE p.refs[f] = 1
  <2>1. /\ q.used = p.used \ {f} /\ q.free = p.free + 1 /\ q.refs = [p.refs EXCEPT ![f] = 0]
        /\ q = [used |-> q.used, refs |-> q.refs, free |-> q.free]
    BY <1>0, <1>2 DEF FreePage
  <2> HIDE DEF q
  <2>2. q.refs \in [Frames -> 0..RefMax] /\ q.used \in SUBSET Frames
    BY <1>0, <2>1, VmmAssumption
  <2>3. q.free = Cardinality(Frames \ q.used)
    <3> DEFINE S == Frames \ p.used
    <3>1. Frames \ q.used = S \cup {f} /\ f \notin S /\ IsFiniteSet(S)
      BY <1>0, <2>1, Framed, Zenon
    <3> HIDE DEF S
    <3>2. Cardinality(S \cup {f}) = Cardinality(S) + 1
      BY <3>1, FS_AddElement, Zenon
    <3> QED
      BY <1>0, <2>1, <3>1, <3>2, Zenon DEF S
  <2>4. q.free \in 0..NFrames
    BY <2>3, Framed, Zenon
  <2>5. q \in Pools
    BY <2>1, <2>2, <2>4, Zenon DEF Pools
  <2> QED
    BY <1>0, <1>2, <2>1, <2>3, <2>5 DEF Exact, q
<1> QED
  BY <1>1, <1>2, Zenon

-----------------------------------------------------------------------------
(* What the invariant says of the users of a frame.                        *)
Known ==
  /\ PoolSound(pool, tables)
  /\ \A f \in Frames : /\ IsFiniteSet(Holders(f)) /\ Cardinality(Holders(f)) \in Nat
                       /\ pool.refs[f] \in Nat /\ lost[f] \in Nat
  /\ \A a \in VAs : pte[a] # None =>
       /\ pte[a].frame \in Frames /\ pte[a].frame \in pool.used /\ pte[a].frame \notin Reserved
       /\ a \in Holders(pte[a].frame) /\ pool.refs[pte[a].frame] >= 1
  /\ \A f \in handles : f \in Frames /\ f \in pool.used /\ f \notin Reserved /\ pool.refs[f] >= 1
  /\ \A f \in Frames : f \notin pool.used =>
       Holders(f) = {} /\ f \notin handles /\ ~IsTable(f) /\ lost[f] = 0 /\ frameSlot[f] = 0
  /\ \A f \in Frames \ Reserved : pool.refs[f] = 1 /\ Holders(f) # {} =>
       /\ f \notin handles /\ ~IsTable(f) /\ lost[f] = 0
       /\ \A a, b \in Holders(f) : a = b
  /\ \A f \in Frames : frameSlot[f] # 0 =>
       /\ slotVa[frameSlot[f]] \in Holders(f) /\ f \notin Reserved /\ pool.refs[f] = 1
       /\ f \in pool.used

(* It follows from the invariant.                                          *)
LEMMA Facts ==
  ASSUME Careful, Inv
  PROVE  Known
<1>1. /\ pool \in Pools /\ tables \in [Tables -> Frames \cup {None}]
      /\ pte \in [VAs -> [frame : Frames, write : BOOLEAN] \cup {None}]
      /\ frameSlot \in [Frames -> {0} \cup Slots] /\ slotVa \in [Slots -> VAs \cup {None}]
      /\ handles \subseteq Frames /\ lost \in [Frames -> Nat]
  BY Zenon DEF Inv, TypeOK, Pools
<1>2. pool.refs \in [Frames -> 0..RefMax] /\ pool.used \in SUBSET Frames
  BY <1>1, Zenon DEF Pools
<1>3. \A f \in Frames : /\ IsFiniteSet(Holders(f)) /\ Cardinality(Holders(f)) \in Nat
                        /\ pool.refs[f] \in Nat /\ lost[f] \in Nat
  <2> TAKE f \in Frames
  <2>1. Holders(f) \in SUBSET VAs
    BY Zenon DEF Holders, Mapping
  <2> HIDE DEF Holders
  <2> QED
    BY <1>1, <1>2, <2>1, FS_Subset, FS_CardinalityType, VmmAssumption DEF Careful
<1>4. \A f \in Frames : (Cardinality(Holders(f)) = 0 <=> Holders(f) = {})
                        /\ (Cardinality(Holders(f)) = 1 => \A a, b \in Holders(f) : a = b)
  <2> TAKE f \in Frames
  <2> DEFINE S == Holders(f)
  <2>1. IsFiniteSet(S)
    BY <1>3, Zenon
  <2> HIDE DEF S
  <2>2. Cardinality(S) = 0 <=> S = {}
    BY <2>1, FS_EmptySet, Zenon
  <2>3. Cardinality(S) = 1 => \E x : S = {x}
    BY <2>1, FS_Singleton, Zenon
  <2> QED
    BY <2>2, <2>3, Zenon DEF S
<1>5. \A f \in Frames \ Reserved :
        /\ f \in pool.used <=> pool.refs[f] > 0
        /\ pool.refs[f] = Cardinality(Holders(f)) + One(f \in handles) + One(IsTable(f)) + lost[f]
        /\ f \in handles => One(f \in handles) = 1
        /\ f \notin handles => One(f \in handles) = 0
        /\ IsTable(f) => One(IsTable(f)) = 1
        /\ ~IsTable(f) => One(IsTable(f)) = 0
  BY Zenon DEF Inv, RefsExact, One
<1>6. \A a \in VAs : pte[a] # None =>
        /\ pte[a].frame \in Frames /\ pte[a].frame \notin Reserved /\ a \in Holders(pte[a].frame)
  BY <1>1 DEF Inv, Places, Holders, Mapping
<1>7. /\ Reserved \subseteq pool.used /\ handles \cap Reserved = {}
      /\ \A t \in Tables : tables[t] \notin Reserved
      /\ \A t, u \in Tables : tables[t] = tables[u] /\ tables[t] # None => t = u
      /\ \A f \in Frames : frameSlot[f] # 0 => f \notin Reserved /\ slotVa[frameSlot[f]] # None
      /\ \A f \in Frames : frameSlot[f] # 0 => pool.refs[f] = 1
  BY Zenon DEF Inv, Places, Alone
<1> HIDE DEF Holders, Mapping, IsTable
<1>8. \A a \in VAs : pte[a] # None => pte[a].frame \in pool.used /\ pool.refs[pte[a].frame] >= 1
  <2> TAKE a \in VAs
  <2> HAVE pte[a] # None
  <2> DEFINE f == pte[a].frame
  <2>1. f \in Frames \ Reserved /\ a \in Holders(f)
    BY <1>6, Zenon
  <2> HIDE DEF f
  <2>2. Cardinality(Holders(f)) # 0
    BY <1>4, <2>1, Zenon
  <2>3. One(f \in handles) \in Nat /\ One(IsTable(f)) \in Nat
    BY Zenon DEF One
  <2> QED
    BY <1>3, <1>5, <2>1, <2>2, <2>3 DEF f
<1>9. \A f \in handles : f \in Frames /\ f \in pool.used /\ f \notin Reserved /\ pool.refs[f] >= 1
  <2> TAKE f \in handles
  <2>1. f \in Frames \ Reserved
    BY <1>1, <1>7, Zenon
  <2>2. One(IsTable(f)) \in Nat
    BY Zenon DEF One
  <2> QED
    BY <1>3, <1>5, <2>1, <2>2
<1>10. \A f \in Frames : f \notin pool.used =>
         pool.refs[f] = 0 /\ Holders(f) = {} /\ f \notin handles /\ ~IsTable(f) /\ lost[f] = 0
  <2> TAKE f \in Frames
  <2> HAVE f \notin pool.used
  <2>1. f \in Frames \ Reserved
    BY <1>7, Zenon
  <2>2. One(IsTable(f)) \in Nat /\ One(f \in handles) \in Nat
    BY Zenon DEF One
  <2> QED
    BY <1>3, <1>4, <1>5, <2>1, <2>2
<1>11. \A f \in Frames \ Reserved : pool.refs[f] = 1 /\ Holders(f) # {} =>
         /\ f \notin handles /\ ~IsTable(f) /\ lost[f] = 0
         /\ \A a, b \in Holders(f) : a = b
  <2> TAKE f \in Frames \ Reserved
  <2> HAVE pool.refs[f] = 1 /\ Holders(f) # {}
  <2>1. One(IsTable(f)) \in Nat /\ One(f \in handles) \in Nat
    BY Zenon DEF One
  <2>2. Cardinality(Holders(f)) = 1 /\ f \notin handles /\ ~IsTable(f) /\ lost[f] = 0
    BY <1>3, <1>4, <1>5, <2>1
  <2> QED
    BY <1>4, <2>2, Zenon
<1>12. \A f \in Frames : frameSlot[f] # 0 => slotVa[frameSlot[f]] \in Holders(f) /\ f \in pool.used
  <2> TAKE f \in Frames
  <2> HAVE frameSlot[f] # 0
  <2>1. frameSlot[f] \in Slots /\ slotVa[frameSlot[f]] \in VAs
    BY <1>1, <1>7
  <2>2. slotVa[frameSlot[f]] \in Holders(f)
    BY <2>1, Zenon DEF Holders
  <2>3. f \in pool.used
    BY <1>7, <1>10, <2>2, Zenon
  <2> QED
    BY <2>2, <2>3, Zenon
<1>13. PoolSound(pool, tables)
  <2>1. Exact(pool)
    BY <1>1, Zenon DEF Exact, Inv, RefsExact
  <2>2. \A f \in Frames \ pool.used : pool.refs[f] = 0
    BY <1>10, Zenon
  <2>3. \A t \in Tables : tables[t] = None \/ tables[t] \in pool.used \ Reserved
    <3> TAKE t \in Tables
    <3> SUFFICES ASSUME tables[t] # None PROVE tables[t] \in pool.used \ Reserved
      BY Zenon
    <3>1. tables[t] \in Frames /\ IsTable(tables[t])
      BY <1>1, Zenon DEF IsTable
    <3> QED
      BY <1>7, <1>10, <3>1
  <2> QED
    BY <1>1, <1>7, <2>1, <2>2, <2>3, Zenon DEF PoolSound
<1> QED
  BY <1>3, <1>6, <1>7, <1>8, <1>9, <1>10, <1>11, <1>12, <1>13 DEF Known

-----------------------------------------------------------------------------
(* The count of a frame.                                                   *)
Counted(f) ==
  /\ f \in pool.used <=> pool.refs[f] > 0
  /\ pool.refs[f] = Cardinality(Holders(f)) + One(f \in handles) + One(IsTable(f)) + lost[f]

(* RefsExact counts every frame that is not reserved.                      *)
LEMMA AllCounted ==
  /\ RefsExact <=> /\ pool.free = Cardinality(Frames \ pool.used)
                   /\ \A f \in Frames \ Reserved : Counted(f)
  /\ RefsExact' <=> /\ pool'.free = Cardinality(Frames \ pool'.used)
                    /\ \A f \in Frames \ Reserved : Counted(f)'
BY Zenon DEF RefsExact, Counted

(* A frame whose users stay keeps its count.                               *)
LEMMA SameCount ==
  ASSUME NEW f, Counted(f), Holders(f)' = Holders(f), f \in handles' <=> f \in handles,
         IsTable(f)' <=> IsTable(f), lost'[f] = lost[f],
         pool'.refs[f] = pool.refs[f], f \in pool'.used <=> f \in pool.used
  PROVE  Counted(f)'
<1>1. One(f \in handles)' = One(f \in handles) /\ One(IsTable(f))' = One(IsTable(f))
  BY Zenon DEF One
<1> QED
  BY <1>1, Zenon DEF Counted

(* Who holds a frame depends on the mappings and the swap area.            *)
LEMMA SameHolders ==
  ASSUME UNCHANGED <<pte, frameSlot, slotVa>>
  PROVE  \A f : Holders(f)' = Holders(f)
BY Zenon DEF Holders, Mapping

(* wubu_vmm_alloc_pages hands out free pages.                              *)
LEMMA FreeRun ==
  ASSUME NEW n \in 1..2, Runs(pool, n) # {}
  PROVE  LET first == Lowest(Runs(pool, n))
         IN  \A f \in first .. first + n - 1 : f \in Frames /\ f \notin pool.used
<1> DEFINE first == Lowest(Runs(pool, n))
<1>1. Runs(pool, n) \in SUBSET Nat
  BY VmmAssumption DEF Runs, Frames
<1>2. first \in Runs(pool, n)
  BY <1>1, LowestIn, Zenon
<1> HIDE DEF first
<1>3. first .. first + n - 1 \subseteq Frames \ pool.used
  BY <1>2, Zenon DEF Runs
<1> QED
  BY <1>3, Zenon DEF first

(* wubu_vmm_alloc_pages.                                                   *)
LEMMA AllocStep ==
  ASSUME Careful, Inv, NEW n \in 1..2, NEW v \in Values, AllocPages(n, v)
  PROVE  Inv'
<1> DEFINE fs == Lowest(Runs(pool, n)) .. Lowest(Runs(pool, n)) + n - 1
<1>1. Known
  BY Facts, Zenon
<1>2. /\ pool' = Taken(pool, fs) /\ handles' = handles \cup fs
      /\ mem' = [f \in Frames |-> IF f \in fs THEN v ELSE mem[f]]
      /\ UNCHANGED <<tables, pte, frameSlot, slotVa, disk, evicting, access, halted, lost, val,
                     overtaken, faults>>
      /\ left' = [left EXCEPT !["alloc"] = @ - 1] /\ left["alloc"] > 0
  BY Zenon DEF AllocPages, tracked, Spend
<1>3. \A f \in fs : f \in Frames /\ f \notin pool.used
  BY FreeRun, Zenon DEF AllocPages
<1> HIDE DEF fs
<1>4. Exact(pool) /\ Reserved \subseteq pool.used
  BY <1>1, Zenon DEF Known, PoolSound
<1>5. Exact(pool')
  BY <1>2, <1>3, <1>4, TakeExact
<1>6. /\ pool'.used = pool.used \cup fs
      /\ \A f \in Frames : pool'.refs[f] = IF f \in fs THEN 1 ELSE pool.refs[f]
  BY <1>2, Zenon DEF Taken
<1>7. TypeOK'
  <2>1. pool' \in Pools /\ handles' \subseteq Frames
    BY <1>2, <1>3, <1>5, Zenon DEF Exact, Inv, TypeOK
  <2>2. mem' \in [Frames -> Values]
    BY <1>2, Zenon DEF Inv, TypeOK
  <2> QED
    BY <1>2, <2>1, <2>2, Zenon DEF Inv, TypeOK, Pools
<1>8. RefsExact'
  <2>1. ASSUME NEW f \in Frames \ Reserved PROVE Counted(f)'
    <3>1. Holders(f)' = Holders(f) /\ (IsTable(f)' <=> IsTable(f))
      BY <1>2, SameHolders, Zenon DEF IsTable
    <3>2. CASE f \in fs
      <4>1. Holders(f) = {} /\ f \in handles' /\ ~IsTable(f)' /\ lost'[f] = 0
        BY <1>1, <1>2, <1>3, <3>1, <3>2, Zenon DEF Known
      <4>2. Cardinality(Holders(f))' = 0
        BY <3>1, <4>1, FS_EmptySet
      <4> QED
        BY <1>6, <3>2, <4>1, <4>2 DEF Counted, One
    <3>3. CASE f \notin fs
      BY <1>2, <1>6, <3>1, <3>3, SameCount, AllCounted DEF Inv
    <3> QED
      BY <3>2, <3>3, Zenon
  <2> QED
    BY <1>5, <2>1, AllCounted, Zenon DEF Exact
<1>9. \A a \in VAs : pte[a] # None => pte[a].frame \in Frames /\ pte[a].frame \notin fs
  BY <1>1, <1>3, Zenon DEF Known
<1>10. Places'
  BY <1>2, <1>3, <1>4, <1>6 DEF Inv, Places
<1>11. Alone' /\ Evictions'
  <2>1. \A f \in Frames : frameSlot[f] # 0 => f \notin fs
    BY <1>1, <1>3 DEF Known
  <2>2. Alone'
    BY <1>2, <1>6, <1>9, <2>1 DEF Inv, Alone
  <2>3. Evictions'
    BY <1>2, <1>6, <1>9 DEF Inv, TypeOK, Evictions, Leaves
  <2> QED
    BY <2>2, <2>3, Zenon
<1>12. Homes' /\ Served'
  BY <1>2 DEF Inv, Homes, Served, Leaves, Evicted, Missing, Permitted
<1>13. Budgeted' /\ Saved'
  BY <1>2 DEF Inv, Budgeted, Saved
<1>14. StoresKept'
  BY <1>2, <1>9 DEF Inv, StoresKept, ReadsBack, Evicted, SlotOf
<1> QED
  BY <1>7, <1>8, <1>10, <1>11, <1>12, <1>13, <1>14, Zenon DEF Inv

(* wubu_vmm_free_pages by the holder of a page.                            *)
LEMMA FreeStep ==
  ASSUME Careful, Inv, NEW f \in Frames, FreePages(f)
  PROVE  Inv'
<1>1. Known
  BY Facts, Zenon
<1>2. /\ f \in handles /\ pool' = FreePage(pool, f) /\ handles' = handles \ {f}
      /\ UNCHANGED <<mem, tables, pte, frameSlot, slotVa, disk, evicting, access, halted, left, lost,
                     val, overtaken, faults>>
  BY Zenon DEF FreePages, tracked
<1>3. /\ f \in pool.used /\ f \notin Reserved /\ pool.refs[f] >= 1
      /\ Exact(pool) /\ Reserved \subseteq pool.used
  BY <1>1, <1>2, Zenon DEF Known, PoolSound
<1>4. /\ Exact(pool')
      /\ pool'.used = IF pool.refs[f] = 1 THEN pool.used \ {f} ELSE pool.used
      /\ \A g \in Frames : pool'.refs[g] = IF g = f THEN pool.refs[f] - 1 ELSE pool.refs[g]
  BY <1>2, <1>3, FreeExact, Zenon
<1>5. TypeOK'
  <2>1. pool' \in Pools /\ handles' \subseteq Frames
    BY <1>2, <1>4 DEF Exact, Inv, TypeOK
  <2> QED
    BY <1>2, <2>1, Zenon DEF Inv, TypeOK, Pools
<1>6. RefsExact'
  <2>1. ASSUME NEW g \in Frames \ Reserved PROVE Counted(g)'
    <3>1. Holders(g)' = Holders(g) /\ (IsTable(g)' <=> IsTable(g)) /\ Counted(g)
      BY <1>2, SameHolders, AllCounted, Zenon DEF IsTable, Inv
    <3>2. CASE g = f
      <4>1. One(IsTable(g))' = One(IsTable(g)) /\ One(g \in handles) = 1 /\ One(g \in handles)' = 0
        BY <1>2, <3>1, <3>2 DEF One
      <4>2. Cardinality(Holders(g))' = Cardinality(Holders(g)) /\ lost'[g] = lost[g]
        BY <1>2, <3>1
      <4>3. One(IsTable(g)) \in Nat /\ Cardinality(Holders(g)) \in Nat /\ lost[g] \in Nat
        BY <1>1, Zenon DEF One, Known
      <4>4. pool.refs[g] = Cardinality(Holders(g)) + 1 + One(IsTable(g)) + lost[g]
        BY <3>1, <4>1, Zenon DEF Counted
      <4>5. pool'.refs[g] = Cardinality(Holders(g)) + 0 + One(IsTable(g)) + lost[g]
        BY <1>4, <3>2, <4>3, <4>4
      <4>6. g \in pool'.used <=> pool'.refs[g] > 0
        BY <1>3, <1>4, <3>2, <4>3, <4>4
      <4> QED
        BY <4>1, <4>2, <4>5, <4>6, Zenon DEF Counted
    <3>3. CASE g # f
      BY <1>2, <1>4, <3>1, <3>3, SameCount
    <3> QED
      BY <3>2, <3>3
  <2> QED
    BY <1>4, <2>1, AllCounted, Zenon DEF Exact
<1>7. Places'
  BY <1>2, <1>3, <1>4 DEF Inv, Places
<1>8. Alone' /\ Evictions'
  <2>1. \A a \in VAs : pte[a] # None =>
          pte[a].frame \in Frames /\ (pool.refs[pte[a].frame] = 1 => pte[a].frame # f)
    BY <1>1, <1>2, Zenon DEF Known
  <2>2. \A g \in Frames : frameSlot[g] # 0 => g # f
    BY <1>1, <1>2, Zenon DEF Known
  <2>3. Alone'
    BY <1>2, <1>4, <2>1, <2>2 DEF Inv, Alone
  <2>4. Evictions'
    BY <1>2, <1>4, <2>1 DEF Inv, TypeOK, Evictions, Leaves
  <2> QED
    BY <2>3, <2>4, Zenon
<1>9. Homes' /\ Served'
  BY <1>2 DEF Inv, Homes, Served, Leaves, Evicted, Missing, Permitted
<1>10. Budgeted' /\ Saved' /\ StoresKept'
  BY <1>2 DEF Inv, Budgeted, Saved, StoresKept, ReadsBack, Evicted, SlotOf
<1> QED
  BY <1>5, <1>6, <1>7, <1>8, <1>9, <1>10 DEF Inv

(* wubu_vmm_unmap and wubu_vmm_free_pages by the owner of a mapping.       *)
LEMMA DiscardStep ==
  ASSUME Careful, Inv, NEW a \in VAs, Discard(a)
  PROVE  Inv'
<1> DEFINE f == pte[a].frame
<1>1. Known
  BY Facts, Zenon
<1>2. /\ pte[a] # None /\ ~BeingEvicted(a) /\ ~Busy(a)
      /\ pool' = FreePage(pool, f) /\ pte' = [pte EXCEPT ![a] = None]
      /\ val' = [val EXCEPT ![a] = 0] /\ overtaken' = overtaken \ {a}
      /\ UNCHANGED <<mem, tables, frameSlot, slotVa, disk, evicting, access, halted, left, handles,
                     lost, faults>>
  BY Zenon DEF Discard, tracked
<1>3. /\ f \in Frames /\ f \in pool.used /\ f \notin Reserved /\ pool.refs[f] >= 1
      /\ a \in Holders(f) /\ Exact(pool) /\ Reserved \subseteq pool.used
  BY <1>1, <1>2, Zenon DEF Known, PoolSound
<1>4. /\ Exact(pool')
      /\ pool'.used = IF pool.refs[f] = 1 THEN pool.used \ {f} ELSE pool.used
      /\ \A g \in Frames : pool'.refs[g] = IF g = f THEN pool.refs[f] - 1 ELSE pool.refs[g]
  BY <1>2, <1>3, FreeExact, Zenon
<1>5. frameSlot[f] = 0
  BY <1>2 DEF Inv, Evictions, Leaves, BeingEvicted
<1>6. /\ pte \in [VAs -> [frame : Frames, write : BOOLEAN] \cup {None}]
      /\ pte' \in [VAs -> [frame : Frames, write : BOOLEAN] \cup {None}] /\ pte'[a] = None
      /\ \A b \in VAs : b # a => pte'[b] = pte[b]
  BY <1>2, Zenon DEF Inv, TypeOK
<1>7. \A b \in VAs \ {a} : pte[b] # None =>
        pte[b].frame \in Frames /\ (pool.refs[pte[b].frame] = 1 => pte[b].frame # f)
  BY <1>1, <1>2, <1>3 DEF Known
<1> HIDE DEF f
<1>8. TypeOK'
  <2>1. pool' \in Pools /\ overtaken' \subseteq VAs
    BY <1>2, <1>4, Zenon DEF Exact, Inv, TypeOK
  <2>2. val' \in [VAs -> Values]
    BY <1>2, VmmAssumption, Zenon DEF Inv, TypeOK
  <2> QED
    BY <1>2, <1>6, <2>1, <2>2, Zenon DEF Inv, TypeOK, Pools
<1>9. RefsExact'
  <2>1. ASSUME NEW g \in Frames \ Reserved PROVE Counted(g)'
    <3>1. (IsTable(g)' <=> IsTable(g)) /\ Counted(g)
      BY <1>2, AllCounted, Zenon DEF IsTable, Inv
    <3>2. CASE g = f
      <4>1. Holders(g)' = Holders(g) \ {a}
        BY <1>2, <1>5, <1>6, <3>2 DEF Holders, Mapping
      <4>2. Cardinality(Holders(g))' = Cardinality(Holders(g)) - 1
        <5>1. IsFiniteSet(Holders(g)) /\ a \in Holders(g)
          BY <1>1, <1>3, <3>2, Zenon DEF Known
        <5>2. Cardinality(Holders(g) \ {a}) = Cardinality(Holders(g)) - 1
          BY <5>1, FS_RemoveElement, Zenon
        <5> QED
          BY <4>1, <5>2, Zenon
      <4>3. One(IsTable(g))' = One(IsTable(g)) /\ One(g \in handles) = One(g \in handles)'
            /\ lost'[g] = lost[g]
        BY <1>2, <3>1, <3>2, Zenon DEF One
      <4>4. One(IsTable(g)) \in Nat /\ One(g \in handles) \in Nat
            /\ Cardinality(Holders(g)) \in Nat /\ lost[g] \in Nat
        BY <1>1, Zenon DEF One, Known
      <4>5. pool.refs[g] = Cardinality(Holders(g)) + One(g \in handles) + One(IsTable(g)) + lost[g]
        BY <3>1, Zenon DEF Counted
      <4>6. pool'.refs[g] = (Cardinality(Holders(g)) - 1) + One(g \in handles) + One(IsTable(g)) + lost[g]
        BY <1>4, <3>2, <4>4, <4>5
      <4>7. g \in pool'.used <=> pool'.refs[g] > 0
        BY <1>3, <1>4, <3>2, <4>4, <4>5
      <4> QED
        BY <4>2, <4>3, <4>6, <4>7, Zenon DEF Counted
    <3>3. CASE g # f
      <4>1. Holders(g)' = Holders(g)
        BY <1>2, <1>6, <3>3, Zenon DEF Holders, Mapping, f
      <4> QED
        BY <1>2, <1>4, <3>1, <3>3, <4>1, SameCount
    <3> QED
      BY <3>2, <3>3, Zenon
  <2> QED
    BY <1>4, <2>1, AllCounted, Zenon DEF Exact
<1>10. Places'
  BY <1>2, <1>3, <1>4, <1>6 DEF Inv, Places
<1>11. Alone' /\ Evictions'
  <2>1. Alone'
    BY <1>2, <1>4, <1>5, <1>6, <1>7 DEF Inv, Alone
  <2>2. \A e \in Evictors : evicting[e] # None => evicting[e].va \in VAs \ {a}
    BY <1>2, Zenon DEF Inv, TypeOK, BeingEvicted
  <2>3. Evictions /\ \A e \in Evictors, b \in VAs : Leaves(e, b)' <=> Leaves(e, b)
    BY <1>2, Zenon DEF Inv, Leaves
  <2>4. \A e \in Evictors : evicting'[e] # None =>
          /\ pte'[evicting'[e].va] # None /\ pte'[evicting'[e].va].frame = evicting'[e].frame
          /\ pool'.refs[evicting'[e].frame] = 1 /\ evicting'[e].frame \notin handles'
          /\ frameSlot'[evicting'[e].frame] = IF evicting'[e].recorded THEN evicting'[e].slot ELSE 0
          /\ slotVa'[evicting'[e].slot] = IF evicting'[e].recorded THEN evicting'[e].va ELSE None
    BY <1>2, <1>4, <1>6, <1>7, <2>2, <2>3 DEF Evictions
  <2>5. \A b \in VAs : pte'[b] # None /\ frameSlot'[pte'[b].frame] # 0 =>
          \E e \in Evictors : Leaves(e, b) /\ evicting[e].recorded
    BY <1>2, <1>4, <1>6, <1>7, <2>3 DEF Evictions
  <2>6. Evictions'
    BY <1>2, <2>3, <2>4, <2>5, Zenon DEF Evictions
  <2> QED
    BY <2>1, <2>6, Zenon
<1>12. Homes' /\ Served'
  <2>1. Homes'
    BY <1>2, <1>6, VmmAssumption DEF Inv, Homes, Leaves, Evicted, Missing
  <2>2. Served'
    BY <1>2, <1>6, Zenon DEF Inv, TypeOK, Served, Evicted, Permitted, Busy
  <2> QED
    BY <2>1, <2>2, Zenon
<1>13. Budgeted' /\ Saved'
  BY <1>2, Zenon DEF Inv, TypeOK, Budgeted, Saved, BeingEvicted
<1>14. StoresKept'
  <2> SUFFICES ASSUME NEW b \in VAs \ (Demand \cup overtaken') PROVE ReadsBack(b)'
    BY Zenon DEF StoresKept
  <2>1. CASE b = a
    <3>1. ~Evicted(a)
      BY <1>2, <2>1 DEF Inv, Homes, Leaves, BeingEvicted, Evicted
    <3> QED
      BY <1>2, <1>6, <2>1, <3>1 DEF ReadsBack, Evicted
  <2>2. CASE b # a
    <3>1. ReadsBack(b) /\ pte'[b] = pte[b] /\ val'[b] = val[b]
      BY <1>2, <1>6, <2>2 DEF Inv, TypeOK, StoresKept
    <3>2. SlotOf(b)' = SlotOf(b) /\ (Evicted(b)' <=> Evicted(b))
      BY <1>2, Zenon DEF SlotOf, Evicted
    <3> QED
      BY <1>2, <3>1, <3>2, Zenon DEF ReadsBack
  <2> QED
    BY <2>1, <2>2, Zenon
<1> QED
  BY <1>8, <1>9, <1>10, <1>11, <1>12, <1>13, <1>14, Zenon DEF Inv

(* The slot that wubu_swap_va_slot finds is one of the address.            *)
LEMMA SlotFound ==
  ASSUME NEW a, Evicted(a)
  PROVE  SlotOf(a) \in Slots /\ slotVa[SlotOf(a)] = a
<1> DEFINE S == {s \in Slots : slotVa[s] = a}
<1>1. S \in SUBSET Nat /\ S # {}
  BY VmmAssumption DEF Slots, Evicted
<1>2. Lowest(S) \in S
  BY <1>1, LowestIn, Zenon
<1> QED
  BY <1>2, Zenon DEF SlotOf

(* The counts stay when nobody's use of a frame changes.                   *)
LEMMA SameRefs ==
  ASSUME RefsExact, UNCHANGED <<pool, tables, handles, lost>>,
         \A f \in Frames : Holders(f)' = Holders(f)
  PROVE  RefsExact'
<1>1. ASSUME NEW f \in Frames \ Reserved PROVE Counted(f)'
  <2>1. Counted(f) /\ (IsTable(f)' <=> IsTable(f))
    BY AllCounted, Zenon DEF IsTable
  <2> QED
    BY <2>1, SameCount, Zenon
<1> QED
  BY <1>1, AllCounted, Zenon

(* A step that leaves the pages, the mappings and the slots alone keeps    *)
(* what the invariant says of them.                                        *)
LEMMA SameShape ==
  ASSUME Inv, UNCHANGED <<pool, tables, pte, frameSlot, slotVa, evicting, handles>>
  PROVE  Places' /\ Alone' /\ Evictions' /\ Homes'
<1>1. Places /\ Alone /\ Evictions /\ Homes
  BY Zenon DEF Inv
<1>2. Places'
  BY <1>1, Zenon DEF Places
<1>3. Alone'
  BY <1>1, Zenon DEF Alone
<1>4. \A e, a : Leaves(e, a)' <=> Leaves(e, a)
  BY Zenon DEF Leaves
<1>5. Evictions'
  BY <1>1, <1>4, Zenon DEF Evictions
<1>6. \A a : (Evicted(a)' <=> Evicted(a)) /\ Missing(a)' = Missing(a)
  BY Zenon DEF Evicted, Missing
<1>7. Homes'
  BY <1>1, <1>4, <1>6, Zenon DEF Homes
<1> QED
  BY <1>2, <1>3, <1>5, <1>7, Zenon

(* An address reads back as before when nothing about it changes.          *)
LEMMA SameReads ==
  ASSUME NEW b, ReadsBack(b), pte'[b] = pte[b], val'[b] = val[b], slotVa' = slotVa,
         pte[b] # None => mem'[pte[b].frame] = mem[pte[b].frame],
         Evicted(b) => disk'[SlotOf(b)] = disk[SlotOf(b)]
  PROVE  ReadsBack(b)'
<1>1. SlotOf(b)' = SlotOf(b) /\ (Evicted(b)' <=> Evicted(b))
  BY Zenon DEF SlotOf, Evicted
<1> QED
  BY <1>1, Zenon DEF ReadsBack

(* wubu_swap_out up to its write to the disk.                              *)
LEMMA SwapOutStep ==
  ASSUME Careful, Inv, NEW e \in Evictors, NEW a \in VAs, SwapOut(e, a)
  PROVE  Inv'
<1> DEFINE f == pte[a].frame
<1>1. Known
  BY Facts, Zenon
<1>2. /\ evicting[e] = None /\ pte[a] # None /\ ~BeingEvicted(a) /\ Private(f) /\ frameSlot[f] = 0
      /\ left' = [left EXCEPT !["evict"] = @ - 1] /\ left["evict"] > 0
      /\ UNCHANGED <<pool, mem, tables, pte, frameSlot, slotVa, access, halted, handles, lost, val,
                     overtaken, faults>>
  BY Zenon DEF SwapOut, Spend, history, Careful
<1>3. PICK s \in Slots :
        /\ slotVa[s] = None /\ disk' = [disk EXCEPT ![s] = mem[f]]
        /\ evicting' = [evicting EXCEPT ![e] =
                         [va |-> a, frame |-> f, slot |-> s, recorded |-> FALSE]]
  BY Zenon DEF SwapOut
<1>4. f \in Frames
  BY <1>1, <1>2, Zenon DEF Known
<1>5. \A d \in Evictors : d = e
  BY Zenon DEF Careful
<1> HIDE DEF f
<1>6. /\ evicting' \in [Evictors -> {None} \cup
           [va : VAs, frame : Frames, slot : Slots, recorded : BOOLEAN]]
      /\ evicting'[e] # None
      /\ evicting'[e] = [va |-> a, frame |-> f, slot |-> s, recorded |-> FALSE]
  <2>1. evicting \in [Evictors -> {None} \cup
           [va : VAs, frame : Frames, slot : Slots, recorded : BOOLEAN]]
    BY Zenon DEF Inv, TypeOK
  <2>2. evicting'[e] = [va |-> a, frame |-> f, slot |-> s, recorded |-> FALSE]
    BY <1>3, <2>1, Zenon
  <2>3. [va |-> a, frame |-> f, slot |-> s, recorded |-> FALSE] # None
    <3>1. [va |-> a, frame |-> f, slot |-> s, recorded |-> FALSE]
            \in [va : VAs, frame : Frames, slot : Slots, recorded : BOOLEAN]
      BY <1>4, Zenon
    <3> QED
      BY <3>1, VmmAssumption, Zenon
  <2> QED
    BY <1>3, <1>4, <2>1, <2>2, <2>3
<1>7. TypeOK'
  <2>1. disk' \in [Slots -> Values]
    BY <1>3, <1>4, Zenon DEF Inv, TypeOK
  <2> QED
    BY <1>2, <1>6, <2>1, Zenon DEF Inv, TypeOK
<1>8. RefsExact'
  BY <1>2, SameHolders, SameRefs, Zenon DEF Inv
<1>9. Places' /\ Alone'
  BY <1>2, Zenon DEF Inv, Places, Alone
<1>10. Evictions'
  BY <1>2, <1>3, <1>5, <1>6 DEF Inv, Evictions, Leaves, Private, f
<1>11. Homes' /\ Served'
  <2>1. Homes'
    BY <1>2, <1>5 DEF Inv, Homes, Leaves, Evicted, Missing
  <2>2. Served'
    BY <1>2, Zenon DEF Inv, Served, Evicted, Permitted
  <2> QED
    BY <2>1, <2>2, Zenon
<1>12. Budgeted'
  BY <1>2 DEF Inv, Budgeted
<1>13. disk \in [Slots -> Values] /\ disk'[s] = mem[f] /\ \A r \in Slots : r # s => disk'[r] = disk[r]
  BY <1>3, Zenon DEF Inv, TypeOK
<1>14. Saved'
  <2>1. a \notin Demand \cup overtaken => mem[f] = val[a]
    BY <1>2, Zenon DEF Inv, StoresKept, ReadsBack, f
  <2> QED
    BY <1>2, <1>5, <1>6, <1>13, <2>1 DEF Saved
<1>15. StoresKept'
  <2> SUFFICES ASSUME NEW b \in VAs \ (Demand \cup overtaken') PROVE ReadsBack(b)'
    BY Zenon DEF StoresKept
  <2>1. ReadsBack(b)
    BY <1>2, Zenon DEF Inv, StoresKept
  <2>2. Evicted(b) => disk'[SlotOf(b)] = disk[SlotOf(b)]
    BY <1>3, <1>13, SlotFound, VmmAssumption
  <2> QED
    BY <1>2, <2>1, <2>2, SameReads, Zenon
<1> QED
  BY <1>7, <1>8, <1>9, <1>10, <1>11, <1>12, <1>14, <1>15 DEF Inv

(* The entries of wubu_swap_out in the slot tables.                        *)
LEMMA SwapRecordStep ==
  ASSUME Careful, Inv, NEW e \in Evictors, SwapRecord(e)
  PROVE  Inv'
<1>0. PICK x : x = evicting[e]
  BY Zenon
<1> DEFINE f == x.frame
           a == x.va
           s == x.slot
<1>1. Known
  BY Facts, Zenon
<1>2. /\ evicting[e] # None /\ ~evicting[e].recorded
      /\ frameSlot' = [frameSlot EXCEPT ![f] = s] /\ slotVa' = [slotVa EXCEPT ![s] = a]
      /\ evicting' = [evicting EXCEPT ![e].recorded = TRUE]
      /\ UNCHANGED <<pool, mem, tables, pte, disk, access, halted, left, handles, lost, val,
                     overtaken, faults>>
  BY <1>0, Zenon DEF SwapRecord, history
<1>3. \A d \in Evictors : d = e
  BY Zenon DEF Careful
<1>4. evicting \in [Evictors -> {None} \cup
         [va : VAs, frame : Frames, slot : Slots, recorded : BOOLEAN]]
  BY Zenon DEF Inv, TypeOK
<1>5. /\ f \in Frames /\ a \in VAs /\ s \in Slots
      /\ evicting[e] \in [va : VAs, frame : Frames, slot : Slots, recorded : BOOLEAN]
  BY <1>0, <1>2, <1>4
<1>6. /\ pte[a] # None /\ pte[a].frame = f /\ pool.refs[f] = 1 /\ f \notin handles
      /\ frameSlot[f] = 0 /\ slotVa[s] = None
  BY <1>0, <1>2, Zenon DEF Inv, Evictions
<1>7. /\ evicting'[e] # None /\ evicting'[e].va = a /\ evicting'[e].frame = f
      /\ evicting'[e].slot = s /\ evicting'[e].recorded = TRUE
      /\ evicting' \in [Evictors -> {None} \cup
           [va : VAs, frame : Frames, slot : Slots, recorded : BOOLEAN]]
  <2>1. [evicting[e] EXCEPT !.recorded = TRUE]
          \in [va : VAs, frame : Frames, slot : Slots, recorded : BOOLEAN]
    BY <1>5, Zenon
  <2>2. evicting'[e] = [evicting[e] EXCEPT !.recorded = TRUE]
    BY <1>2, <1>4, Zenon
  <2>3. evicting'[e] # None
    BY <2>1, <2>2, VmmAssumption, Zenon
  <2> QED
    BY <1>0, <1>2, <1>4, <1>5, <2>1, <2>2, <2>3
<1>8. /\ f \notin Reserved /\ a \in Holders(f) /\ \A b \in VAs : b \in Holders(f) => b = a
  BY <1>1, <1>5, <1>6 DEF Known
<1> HIDE DEF f, a, s
<1>9. /\ frameSlot \in [Frames -> {0} \cup Slots] /\ slotVa \in [Slots -> VAs \cup {None}]
      /\ frameSlot' \in [Frames -> {0} \cup Slots] /\ slotVa' \in [Slots -> VAs \cup {None}]
      /\ frameSlot'[f] = s /\ (\A g \in Frames : g # f => frameSlot'[g] = frameSlot[g])
      /\ slotVa'[s] = a /\ (\A r \in Slots : r # s => slotVa'[r] = slotVa[r])
      /\ s # 0 /\ a # None /\ 0 \notin Slots
  BY <1>2, <1>5, VmmAssumption DEF Inv, TypeOK, Slots
<1>10. \A g \in Frames : frameSlot[g] # s
  BY <1>5, <1>6, <1>9, Zenon DEF Inv, Places
<1>11. TypeOK'
  BY <1>2, <1>7, <1>9, Zenon DEF Inv, TypeOK
<1>12. RefsExact'
  <2>1. ASSUME NEW g \in Frames PROVE Holders(g)' = Holders(g)
    <3>1. Mapping(g)' = Mapping(g)
      BY <1>2, Zenon DEF Mapping
    <3>2. CASE g = f
      BY <1>5, <1>6, <1>9, <3>1, <3>2 DEF Holders, Mapping
    <3>3. CASE g # f
      <4>1. frameSlot'[g] = frameSlot[g] /\ frameSlot[g] # s /\ frameSlot[g] \in {0} \cup Slots
        BY <1>9, <1>10, <3>3, Zenon
      <4> QED
        BY <1>9, <3>1, <4>1, Zenon DEF Holders
    <3> QED
      BY <3>2, <3>3, Zenon
  <2> QED
    BY <1>2, <2>1, SameRefs, Zenon DEF Inv
<1>13. Places'
  <2>1. \A g \in Frames : frameSlot'[g] # 0 => g \notin Reserved /\ slotVa'[frameSlot'[g]] # None
    BY <1>5, <1>8, <1>9, <1>10 DEF Inv, Places
  <2>2. \A g, h \in Frames : frameSlot'[g] = frameSlot'[h] /\ frameSlot'[g] # 0 => g = h
    BY <1>9, <1>10 DEF Inv, Places
  <2>3. \A r \in Slots : slotVa'[r] # None => \E g \in Frames : frameSlot'[g] = r
    <3> TAKE r \in Slots
    <3> HAVE slotVa'[r] # None
    <3>1. CASE r = s
      BY <1>5, <1>9, <3>1
    <3>2. CASE r # s
      <4>1. PICK g \in Frames : frameSlot[g] = r
        BY <1>9, <3>2 DEF Inv, Places
      <4>2. g # f
        BY <1>6, <1>9, <4>1
      <4> QED
        BY <1>9, <4>1, <4>2
    <3> QED
      BY <3>1, <3>2
  <2> QED
    BY <1>2, <2>1, <2>2, <2>3, Zenon DEF Inv, Places
<1>14. Alone'
  BY <1>2, <1>6, <1>9 DEF Inv, Alone
<1>15. \A b \in VAs : pte[b] # None => frameSlot[pte[b].frame] = 0
  BY <1>2, <1>3, Zenon DEF Inv, Evictions
<1>16. \A r \in Slots : slotVa[r] \in VAs \ Demand => pte[slotVa[r]] = None
  BY <1>2, <1>3 DEF Inv, Homes
<1>17. Evictions'
  <2>1. \A b \in VAs : pte[b] # None /\ pte[b].frame = f => b = a
    BY <1>8, Zenon DEF Holders, Mapping
  <2>2. \A b \in VAs : pte[b] # None => pte[b].frame \in Frames
    BY <1>1 DEF Known
  <2>3. \A b \in VAs : pte'[b] # None /\ frameSlot'[pte'[b].frame] # 0 =>
          \E d \in Evictors : Leaves(d, b)' /\ evicting'[d].recorded
    BY <1>2, <1>7, <1>9, <1>15, <2>1, <2>2 DEF Leaves
  <2> QED
    BY <1>2, <1>3, <1>6, <1>7, <1>9, <2>3 DEF Evictions
<1>18. Homes'
  <2>0. Leaves(e, a)' /\ evicting'[e].recorded
    BY <1>7, Zenon DEF Leaves
  <2>1. (\A r \in Slots : slotVa[r] \in VAs \ Demand /\ pte[slotVa[r]] # None =>
           \E d \in Evictors : Leaves(d, slotVa[r]) /\ evicting[d].recorded)'
    <3>1. \A r \in Slots : slotVa'[r] \in VAs \ Demand /\ pte'[slotVa'[r]] # None => slotVa'[r] = a
      BY <1>2, <1>9, <1>16
    <3> QED
      BY <2>0, <3>1, Zenon
  <2>2. \A q, r \in Slots : slotVa'[q] = slotVa'[r] /\ slotVa'[q] \in VAs \ Demand => q = r
    BY <1>6, <1>9, <1>16 DEF Inv, Homes
  <2>3. \A b \in VAs : Evicted(b)' => Evicted(b) \/ b = a
    BY <1>9, Zenon DEF Evicted
  <2>4. \A b \in VAs : Missing(b)' = Missing(b)
    BY <1>2 DEF Missing
  <2>5. \A b \in VAs : pte'[b] # None \/ Evicted(b)' => Missing(b)' = {}
    BY <1>2, <1>6, <2>3, <2>4 DEF Inv, Homes
  <2> QED
    BY <1>2, <2>1, <2>2, <2>5 DEF Inv, Homes
<1>19. Served'
  <2>1. \A b \in VAs : Evicted(b) => Evicted(b)'
    BY <1>6, <1>9, VmmAssumption DEF Evicted
  <2>2. access # None => access.va \in VAs
    BY Zenon DEF Inv, TypeOK
  <2> QED
    BY <1>2, <2>1, <2>2 DEF Inv, Served, Permitted
<1>20. Budgeted' /\ Saved'
  BY <1>0, <1>2, <1>3, <1>7 DEF Inv, Budgeted, Saved, a, s
<1>21. StoresKept'
  <2> SUFFICES ASSUME NEW b \in VAs \ (Demand \cup overtaken') PROVE ReadsBack(b)'
    BY Zenon DEF StoresKept
  <2>1. ReadsBack(b)
    BY <1>2 DEF Inv, StoresKept
  <2>2. CASE b = a
    BY <1>2, <1>6, <2>1, <2>2 DEF ReadsBack
  <2>3. CASE b # a
    <3>1. \A r \in Slots : slotVa'[r] = b <=> slotVa[r] = b
      BY <1>6, <1>9, <2>3, VmmAssumption
    <3>2. (Evicted(b)' <=> Evicted(b)) /\ SlotOf(b)' = SlotOf(b)
      BY <3>1, Zenon DEF Evicted, SlotOf
    <3> QED
      BY <1>2, <2>1, <3>2 DEF ReadsBack
  <2> QED
    BY <2>2, <2>3, Zenon
<1> QED
  BY <1>11, <1>12, <1>13, <1>14, <1>17, <1>18, <1>19, <1>20, <1>21 DEF Inv

(* The unmapping at the end of wubu_swap_out.                              *)
LEMMA SwapUnmapStep ==
  ASSUME Careful, Inv, ~halted, NEW e \in Evictors, SwapUnmap(e)
  PROVE  Inv'
<1>0. PICK x : x = evicting[e]
  BY Zenon
<1> DEFINE f == x.frame
           a == x.va
           s == x.slot
<1>1. Known
  BY Facts, Zenon
<1>2. /\ x # None /\ x.recorded
      /\ pte' = [pte EXCEPT ![a] = None] /\ evicting' = [evicting EXCEPT ![e] = None]
      /\ faults' = IF Busy(a) THEN 0 ELSE faults
      /\ UNCHANGED <<pool, mem, tables, frameSlot, slotVa, disk, access, halted, left, handles, lost,
                     val, overtaken>>
  BY <1>0, Zenon DEF SwapUnmap
<1>3. \A d \in Evictors : d = e
  BY Zenon DEF Careful
<1>4. evicting \in [Evictors -> {None} \cup
         [va : VAs, frame : Frames, slot : Slots, recorded : BOOLEAN]]
  BY Zenon DEF Inv, TypeOK
<1>5. f \in Frames /\ a \in VAs /\ s \in Slots
  BY <1>0, <1>2, <1>4, Zenon
<1>6. pte[a] # None /\ pte[a].frame = f /\ frameSlot[f] = s /\ slotVa[s] = a
  BY <1>0, <1>2, Zenon DEF Inv, Evictions
<1>7. a \notin Demand \cup overtaken => disk[s] = val[a]
  BY <1>0, <1>2, Zenon DEF Inv, Saved
<1> HIDE DEF f, a, s
<1>8. /\ evicting' \in [Evictors -> {None} \cup
           [va : VAs, frame : Frames, slot : Slots, recorded : BOOLEAN]]
      /\ \A d \in Evictors : evicting'[d] = None
  BY <1>2, <1>3, <1>4, Zenon
<1>9. /\ pte \in [VAs -> [frame : Frames, write : BOOLEAN] \cup {None}]
      /\ pte' \in [VAs -> [frame : Frames, write : BOOLEAN] \cup {None}] /\ pte'[a] = None
      /\ \A b \in VAs : b # a => pte'[b] = pte[b]
  BY <1>2, <1>5, Zenon DEF Inv, TypeOK
<1>10. \A d \in Evictors, b \in VAs : Leaves(d, b) => b = a
  BY <1>0, <1>3, Zenon DEF Leaves, a
<1>11. TypeOK'
  <2>1. faults' \in Nat
    BY <1>2, Zenon DEF Inv, TypeOK
  <2> QED
    BY <1>2, <1>8, <1>9, <2>1, Zenon DEF Inv, TypeOK
<1>12. RefsExact'
  <2>1. ASSUME NEW g \in Frames PROVE Holders(g)' = Holders(g)
    <3>1. CASE g = f
      <4>1. s # 0
        BY <1>5, VmmAssumption DEF Slots
      <4> QED
        BY <1>2, <1>5, <1>6, <1>9, <3>1, <4>1 DEF Holders, Mapping
    <3>2. CASE g # f
      BY <1>2, <1>6, <1>9, <3>2 DEF Holders, Mapping
    <3> QED
      BY <3>1, <3>2, Zenon
  <2> QED
    BY <1>2, <2>1, SameRefs, Zenon DEF Inv
<1>13. Places'
  BY <1>2, <1>9 DEF Inv, Places
<1>14. Alone'
  BY <1>2, <1>9, Zenon DEF Inv, Alone
<1>15. Evictions'
  BY <1>2, <1>8, <1>9, <1>10 DEF Inv, Evictions
<1>16. Homes'
  <2>1. \A r \in Slots : ~(slotVa'[r] \in VAs \ Demand /\ pte'[slotVa'[r]] # None)
    BY <1>2, <1>9, <1>10 DEF Inv, Homes
  <2>2. \A b \in VAs : Missing(b)' = Missing(b) /\ (Evicted(b)' <=> Evicted(b))
    BY <1>2, Zenon DEF Missing, Evicted
  <2>3. \A b \in Demand : pte'[b] # None => pte'[b].write
    BY <1>9, VmmAssumption, Zenon DEF Inv, Homes
  <2>4. \A b \in VAs : pte'[b] # None \/ Evicted(b)' => Missing(b)' = {}
    BY <1>9, <2>2, Zenon DEF Inv, Homes
  <2>5. \A q, r \in Slots : slotVa'[q] = slotVa'[r] /\ slotVa'[q] \in VAs \ Demand => q = r
    BY <1>2, Zenon DEF Inv, Homes
  <2> QED
    BY <2>1, <2>3, <2>4, <2>5, Zenon DEF Homes
<1>17. Served'
  <2>1. Evicted(a)' /\ \A b \in VAs : Evicted(b)' <=> Evicted(b)
    BY <1>2, <1>5, <1>6, Zenon DEF Evicted
  <2>2. access # None => access.va \in VAs
    BY Zenon DEF Inv, TypeOK
  <2>3. access' # None => pte'[access'.va] # None \/ Evicted(access.va)' \/ access'.va \in Demand
    BY <1>2, <1>9, <2>1, <2>2 DEF Inv, Served
  <2>4. faults' <= 1 /\ (faults' # 0 => access' # None /\ Permitted')
    BY <1>2, <1>9, <2>2 DEF Inv, Served, Permitted, Busy
  <2> QED
    BY <2>3, <2>4, Zenon DEF Served
<1>18. Budgeted' /\ Saved'
  BY <1>2, <1>8, Zenon DEF Inv, Budgeted, Saved
<1>19. StoresKept'
  <2> SUFFICES ASSUME NEW b \in VAs \ (Demand \cup overtaken') PROVE ReadsBack(b)'
    BY Zenon DEF StoresKept
  <2>1. CASE b = a
    <3>1. Evicted(a)
      BY <1>5, <1>6 DEF Evicted
    <3>2. SlotOf(a) = s
      BY <1>5, <1>6, <2>1, <3>1, SlotFound DEF Inv, Homes
    <3>3. SlotOf(b)' = SlotOf(b)
      BY <1>2, Zenon DEF SlotOf
    <3> QED
      BY <1>2, <1>7, <1>9, <2>1, <3>2, <3>3 DEF ReadsBack
  <2>2. CASE b # a
    BY <1>2, <1>9, <2>2, SameReads DEF Inv, StoresKept
  <2> QED
    BY <2>1, <2>2, Zenon
<1> QED
  BY <1>11, <1>12, <1>13, <1>14, <1>15, <1>16, <1>17, <1>18, <1>19 DEF Inv

(* The start of an access.                                                 *)
LEMMA BeginStep ==
  ASSUME Careful, Inv, NEW a \in VAs, NEW v \in Values \cup {None}, Begin(a, v)
  PROVE  Inv'
<1>1. /\ IF pte[a] = None THEN Evicted(a) \/ a \in Demand ELSE v # None
      /\ access' = [va |-> a, v |-> v] /\ faults' = 0
      /\ left' = [left EXCEPT !["access"] = @ - 1] /\ left["access"] > 0
      /\ UNCHANGED <<pool, mem, tables, pte, frameSlot, slotVa, disk, evicting, halted, handles, lost,
                     val, overtaken>>
  BY Zenon DEF Begin, Spend, tracked
<1>2. TypeOK'
  BY <1>1, Zenon DEF Inv, TypeOK
<1>3. RefsExact'
  BY <1>1, SameHolders, SameRefs DEF Inv
<1>4. Places' /\ Alone' /\ Evictions' /\ Homes'
  BY <1>1, SameShape, Zenon
<1>6. Served'
  BY <1>1 DEF Served, Evicted
<1>b. Budgeted'
  <2>1. Budgeted
    BY Zenon DEF Inv
  <2> QED
    BY <1>1, <2>1 DEF Budgeted
<1>7. Budgeted' /\ Saved'
  BY <1>1, <1>b, Zenon DEF Inv, Saved
<1>8. StoresKept'
  BY <1>1, SameReads, Zenon DEF Inv, StoresKept
<1> QED
  BY <1>2, <1>3, <1>4, <1>6, <1>7, <1>8, Zenon DEF Inv

(* The end of an access.                                                   *)
LEMMA CompleteStep ==
  ASSUME Careful, Inv, Complete
  PROVE  Inv'
<1>0. PICK a, v : access # None => a = access.va /\ v = access.v
  BY Zenon
<1> DEFINE f == pte[a].frame
<1>1. Known
  BY Facts
<1>2. /\ access # None /\ a = access.va /\ v = access.v /\ a \in VAs /\ v \in Values \cup {None}
      /\ pte[a] # None /\ (v = None \/ pte[a].write)
      /\ access' = None /\ faults' = 0
      /\ UNCHANGED <<pool, tables, pte, frameSlot, slotVa, disk, evicting, halted, left, handles, lost>>
  BY <1>0 DEF Complete, Permitted, tracked, Inv, TypeOK
<1>3. \/ v = None /\ UNCHANGED <<mem, val, overtaken>>
      \/ /\ v # None /\ mem' = [mem EXCEPT ![f] = v] /\ val' = [val EXCEPT ![a] = v]
         /\ overtaken' = IF BeingEvicted(a) THEN overtaken \cup {a} ELSE overtaken
  BY <1>2, Zenon DEF Complete
<1>4. RefsExact'
  BY <1>2, SameHolders, SameRefs DEF Inv
<1>5. Places' /\ Alone' /\ Evictions' /\ Homes'
  BY <1>2, SameShape, Zenon
<1>6. Homes' /\ Served' /\ Budgeted'
  <2>1. Budgeted
    BY Zenon DEF Inv
  <2>2. Budgeted'
    BY <1>2, <2>1 DEF Budgeted
  <2>3. Served'
    BY <1>2 DEF Served
  <2> QED
    BY <1>5, <2>2, <2>3, Zenon
<1>7. CASE v = None
  <2>1. UNCHANGED <<mem, val, overtaken>>
    BY <1>3, <1>7, Zenon
  <2>2. TypeOK'
    BY <1>2, <2>1, Zenon DEF Inv, TypeOK
  <2>3. Saved' /\ StoresKept'
    BY <1>2, <2>1, SameReads DEF Inv, Saved, StoresKept
  <2> QED
    BY <1>4, <1>5, <1>6, <2>2, <2>3, Zenon DEF Inv
<1>8. CASE v # None
  <2>1. /\ mem' = [mem EXCEPT ![f] = v] /\ val' = [val EXCEPT ![a] = v]
        /\ overtaken' = IF BeingEvicted(a) THEN overtaken \cup {a} ELSE overtaken
    BY <1>3, <1>8
  <2>2. f \in Frames /\ f \notin Reserved /\ pool.refs[f] = 1 /\ v \in Values
    <3>1. f \in Frames /\ f \notin Reserved /\ pool.refs[f] = 1
      BY <1>1, <1>2, <1>8, Zenon DEF Known, Inv, Alone
    <3> QED
      BY <1>2, <1>8, <3>1, Zenon
  <2>3. \A b \in VAs : pte[b] # None /\ pte[b].frame = f => b = a
    <3>1. a \in Holders(f) /\ \A c, d \in Holders(f) : c = d
      BY <1>1, <1>2, <2>2, Zenon DEF Known
    <3>2. \A b \in VAs : pte[b] # None => b \in Holders(pte[b].frame)
      BY <1>1, Zenon DEF Known
    <3> QED
      BY <3>1, <3>2, Zenon
  <2> HIDE DEF f
  <2>4. /\ mem \in [Frames -> Values] /\ mem' \in [Frames -> Values] /\ mem'[f] = v
        /\ (\A g \in Frames : g # f => mem'[g] = mem[g])
        /\ val' \in [VAs -> Values] /\ val'[a] = v /\ (\A b \in VAs : b # a => val'[b] = val[b])
        /\ overtaken' \subseteq VAs
    BY <1>2, <2>1, <2>2, Zenon DEF Inv, TypeOK
  <2>5. TypeOK'
    BY <1>2, <2>4, Zenon DEF Inv, TypeOK
  <2>6. Saved'
    <3> SUFFICES ASSUME NEW e \in Evictors, evicting[e] # None,
                        evicting[e].va \notin Demand \cup overtaken'
                 PROVE  disk[evicting[e].slot] = val'[evicting[e].va]
      BY <1>2 DEF Saved
    <3>1. evicting[e].va \in VAs
      BY Zenon DEF Inv, TypeOK
    <3>2. evicting[e].va # a /\ evicting[e].va \notin overtaken
      BY <2>1, Zenon DEF BeingEvicted
    <3> QED
      BY <2>4, <3>1, <3>2 DEF Inv, Saved
  <2>7. StoresKept'
    <3> SUFFICES ASSUME NEW b \in VAs \ (Demand \cup overtaken') PROVE ReadsBack(b)'
      BY Zenon DEF StoresKept
    <3>1. CASE b = a
      BY <1>2, <2>4, <3>1 DEF ReadsBack, f
    <3>2. CASE b # a
      <4>1. ReadsBack(b)
        BY <2>1, Zenon DEF Inv, StoresKept
      <4>2. pte[b] # None => mem'[pte[b].frame] = mem[pte[b].frame]
        <5>1. pte[b] # None => pte[b].frame \in Frames /\ pte[b].frame # f
          BY <1>1, <2>3, <3>2, Zenon DEF Known
        <5> QED
          BY <2>4, <5>1, Zenon
      <4> QED
        BY <1>2, <2>4, <3>2, <4>1, <4>2, SameReads
    <3> QED
      BY <3>1, <3>2
  <2> QED
    BY <1>4, <1>5, <1>6, <2>5, <2>6, <2>7 DEF Inv
<1> QED
  BY <1>7, <1>8, Zenon

-----------------------------------------------------------------------------
(* handle_page_fault.  An access that faults has not faulted before.       *)
LEMMA FirstFault ==
  ASSUME Inv, ~halted, NEW a \in VAs, Faulting(a)
  PROVE  faults = 0 /\ access # None /\ access.va = a /\ ~Permitted
         /\ access.v \in Values \cup {None}
BY Zenon DEF Inv, TypeOK, Served, Faulting, Busy

(* The first free page, by itself.                                         *)
LEMMA FreeOne ==
  ASSUME Runs(pool, 1) # {}
  PROVE  Lowest(Runs(pool, 1)) \in Frames /\ Lowest(Runs(pool, 1)) \notin pool.used
<1> DEFINE first == Lowest(Runs(pool, 1))
<1>1. Runs(pool, 1) \in SUBSET Nat /\ Runs(pool, 1) \subseteq Frames
  BY VmmAssumption DEF Runs, Frames
<1>2. first \in Runs(pool, 1)
  BY <1>1, LowestIn, Zenon
<1>3. first \in Nat /\ first .. first + 1 - 1 \subseteq Frames \ pool.used
  BY <1>1, <1>2, Zenon DEF Runs
<1> HIDE DEF first
<1>4. first \in first .. first + 1 - 1
  BY <1>3
<1> QED
  BY <1>3, <1>4, Zenon DEF first

(* wubu_vmm_cow_fault on a page with one user.                             *)
LEMMA CowAloneStep ==
  ASSUME Careful, Inv, ~halted, NEW a \in VAs, CowAlone(a), faults' = faults + 1
  PROVE  Inv'
<1>1. Known
  BY Facts, Zenon
<1>2. /\ Faulting(a) /\ pte[a] # None /\ pool.refs[pte[a].frame] <= 1
      /\ pte' = [pte EXCEPT ![a].write = TRUE]
      /\ UNCHANGED <<pool, mem, tables, frameSlot, slotVa, disk, evicting, access, halted, left,
                     handles, lost, val, overtaken>>
  BY Zenon DEF CowAlone, NotFilled, tracked, ofCallers
<1>3. faults' = 1 /\ access # None /\ access.va = a
  BY <1>2, FirstFault
<1>4. /\ pte'[a].frame = pte[a].frame /\ pte'[a] # None /\ pte'[a].write = TRUE
      /\ \A b \in VAs : b # a => pte'[b] = pte[b]
      /\ pte' \in [VAs -> [frame : Frames, write : BOOLEAN] \cup {None}]
  <2>1. /\ pte \in [VAs -> [frame : Frames, write : BOOLEAN] \cup {None}]
        /\ pte[a] \in [frame : Frames, write : BOOLEAN]
    BY <1>2, Zenon DEF Inv, TypeOK
  <2>2. [pte[a] EXCEPT !.write = TRUE] \in [frame : Frames, write : BOOLEAN]
    BY <2>1, Zenon
  <2>3. pte'[a] = [pte[a] EXCEPT !.write = TRUE]
    BY <1>2, <2>1, Zenon
  <2>4. pte'[a] # None
    BY <2>2, <2>3, VmmAssumption, Zenon
  <2> QED
    BY <1>2, <2>1, <2>2, <2>3, <2>4
<1>5. \A b \in VAs : (pte'[b] = None <=> pte[b] = None) /\ pte'[b].frame = pte[b].frame
  BY <1>2, <1>4, Zenon
<1>6. pool.refs[pte[a].frame] = 1
  BY <1>1, <1>2 DEF Known
<1>7. TypeOK'
  <2>1. faults' \in Nat
    BY <1>3
  <2> QED
    BY <1>2, <1>4, <2>1, Zenon DEF Inv, TypeOK
<1>8. RefsExact'
  <2>1. \A f \in Frames : Holders(f)' = Holders(f)
    BY <1>2, <1>5 DEF Holders, Mapping
  <2> QED
    BY <1>2, <2>1, SameRefs DEF Inv
<1>9. Places'
  BY <1>2, <1>5 DEF Inv, Places
<1>10. Alone'
  BY <1>2, <1>4, <1>6 DEF Inv, Alone
<1>11. Evictions'
  <2>1. \A e \in Evictors : evicting[e] # None => evicting[e].va \in VAs
    BY Zenon DEF Inv, TypeOK
  <2> QED
    BY <1>2, <1>5, <2>1 DEF Inv, Evictions, Leaves
<1>12. Homes'
  BY <1>2, <1>4, <1>5, VmmAssumption DEF Inv, Homes, Leaves, Evicted, Missing
<1>13. Served'
  BY <1>2, <1>3, <1>4 DEF Served, Permitted
<1>14. Budgeted' /\ Saved'
  BY <1>2, Zenon DEF Inv, Budgeted, Saved
<1>15. StoresKept'
  <2> SUFFICES ASSUME NEW b \in VAs \ (Demand \cup overtaken') PROVE ReadsBack(b)'
    BY Zenon DEF StoresKept
  <2>1. ReadsBack(b)
    BY <1>2, Zenon DEF Inv, StoresKept
  <2>2. SlotOf(b)' = SlotOf(b) /\ (Evicted(b)' <=> Evicted(b))
    BY <1>2, Zenon DEF SlotOf, Evicted
  <2> QED
    BY <1>2, <1>5, <2>1, <2>2 DEF ReadsBack
<1> QED
  BY <1>7, <1>8, <1>9, <1>10, <1>11, <1>12, <1>13, <1>14, <1>15 DEF Inv

(* The end of handle_page_fault when nothing helped.                       *)
LEMMA PanicStep ==
  ASSUME Careful, Inv, ~halted, NEW a \in VAs, Panic(a), faults' = faults + 1
  PROVE  Inv'
<1>1. /\ Faulting(a) /\ halted' = TRUE
      /\ UNCHANGED <<pool, mem, tables, pte, frameSlot, slotVa, disk, evicting, access, left, handles,
                     lost, val, overtaken>>
  BY Zenon DEF Panic, NotCopied, NotFilled, tracked, ofCallers
<1>2. faults' = 1 /\ access # None
  BY <1>1, FirstFault
<1>3. TypeOK'
  <2>1. faults' \in Nat /\ halted' \in BOOLEAN
    BY <1>1, <1>2
  <2> QED
    BY <1>1, <2>1, Zenon DEF Inv, TypeOK
<1>4. RefsExact'
  BY <1>1, SameHolders, SameRefs DEF Inv
<1>5. Places' /\ Alone' /\ Evictions' /\ Homes'
  BY <1>1, SameShape, Zenon
<1>7. Served'
  BY <1>1, <1>2 DEF Inv, Served, Evicted
<1>8. Budgeted' /\ Saved'
  BY <1>1, Zenon DEF Inv, Budgeted, Saved
<1>9. StoresKept'
  BY <1>1, SameReads, Zenon DEF Inv, StoresKept
<1> QED
  BY <1>3, <1>4, <1>5, <1>7, <1>8, <1>9, Zenon DEF Inv

=============================================================================
