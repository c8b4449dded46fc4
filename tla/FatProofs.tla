----------------------------- MODULE FatProofs ------------------------------
(***************************************************************************)
(* Proofs about FatCache and Fat32, for every volume: the cached table     *)
(* behaves like a plain array, and no cluster of the volume ever has two   *)
(* owners.                                                                 *)
(***************************************************************************)
EXTENDS Fat32, TLAPS

StoreOK(f) == f \in Stores /\ Consistent(f)
Cells == 0 .. (TotalClusters - 1)

-----------------------------------------------------------------------------
(* Division by the entries of a sector. *)
LEMMA DivMod ==
  ASSUME NEW e \in Nat \ {0}, NEW c \in Nat
  PROVE  /\ c \div e \in Nat /\ c % e \in 0 .. (e - 1)
         /\ c = (e * (c \div e)) + (c % e)
  OBVIOUS

LEMMA DivMonotone ==
  ASSUME NEW e \in Nat \ {0}, NEW q \in Nat, NEW r \in 0 .. (e - 1), NEW p \in Nat, NEW s \in 0 .. (e - 1),
         (e * q) + r <= (e * p) + s
  PROVE  q <= p
<1>1. SUFFICES ASSUME q > p PROVE FALSE
  OBVIOUS
<1>2. PICK k \in Nat : q = (p + 1) + k
  <2>1. q - p - 1 \in Nat /\ q = (p + 1) + (q - p - 1)
    BY <1>1
  <2>2. QED
    BY <2>1, Zenon
<1>3. e * q = ((e * p) + e) + (e * k)
  BY <1>2
<1>4. e * k >= 0 /\ e * p \in Nat
  OBVIOUS
<1>5. QED
  BY <1>3, <1>4

(* A cluster's entry is at a place of a sector of the table; no two        *)
(* clusters share one.                                                     *)
LEMMA Places ==
  ASSUME NEW c \in Cells
  PROVE  Sector(c) \in Sectors /\ Offset(c) \in Offsets /\ Sector(c) # NoSector
<1>1. EntriesPerSector \in Nat \ {0} /\ c \in Nat /\ TotalClusters - 1 \in Nat /\ c <= TotalClusters - 1
  BY FatAssumption DEF Cells
<1>2. Sector(c) \in Nat /\ Offset(c) \in Offsets /\ c = (EntriesPerSector * Sector(c)) + Offset(c)
  BY <1>1, DivMod, Zenon DEF Sector, Offset, Offsets
<1>3. /\ Sector(TotalClusters - 1) \in Nat /\ Offset(TotalClusters - 1) \in Offsets
      /\ TotalClusters - 1 = (EntriesPerSector * Sector(TotalClusters - 1)) + Offset(TotalClusters - 1)
  BY <1>1, DivMod, Zenon DEF Sector, Offset, Offsets
<1>4. Sector(c) <= Sector(TotalClusters - 1)
  BY <1>1, <1>2, <1>3, DivMonotone, Zenon DEF Offsets
<1>5. QED
  BY <1>2, <1>3, <1>4 DEF Sectors, NoSector

LEMMA Apart ==
  ASSUME NEW c \in Cells, NEW d \in Cells, Sector(c) = Sector(d), Offset(c) = Offset(d)
  PROVE  c = d
<1>1. EntriesPerSector \in Nat \ {0} /\ c \in Nat /\ d \in Nat
  BY FatAssumption DEF Cells
<1>2. c = (EntriesPerSector * Sector(c)) + Offset(c) /\ d = (EntriesPerSector * Sector(d)) + Offset(d)
  BY <1>1, DivMod, Zenon DEF Sector, Offset
<1>3. QED
  BY <1>2, Zenon

-----------------------------------------------------------------------------
(* The cache is transparent: going to another sector, flushing, and        *)
(* dropping a clean cache change no entry; a write changes one.            *)
LEMMA FlushedOK ==
  ASSUME NEW f, StoreOK(f)
  PROVE  /\ Flushed(f) \in [Sectors -> [Offsets -> Values]]
         /\ f.sector # NoSector => Flushed(f)[f.sector] = f.cache
         /\ \A s \in Sectors : s # f.sector => Flushed(f)[s] = f.disk[s]
  BY Zenon DEF StoreOK, Stores, Consistent, Flushed

LEMMA TouchOK ==
  ASSUME NEW f, StoreOK(f), NEW s \in Sectors, s # NoSector
  PROVE  /\ StoreOK(Touch(f, s)) /\ Touch(f, s).sector = s
         /\ \A c \in Cells : Entry(Touch(f, s), c) = Entry(f, c)
<1>1. CASE s = f.sector
  BY <1>1, Zenon DEF Touch
<1>2. CASE s # f.sector
  <2> DEFINE g == Touch(f, s)
  <2>1. g = [disk |-> Flushed(f), sector |-> s, cache |-> Flushed(f)[s], dirty |-> 0]
    BY <1>2, Zenon DEF Touch
  <2>2. StoreOK(g)
    BY <2>1, FlushedOK DEF StoreOK, Stores, Consistent
  <2>3. ASSUME NEW c \in Cells PROVE Entry(g, c) = Entry(f, c)
    <3>1. Sector(c) \in Sectors /\ Sector(c) # NoSector
      BY Places, Zenon
    <3>2. Entry(g, c) = Flushed(f)[Sector(c)][Offset(c)]
      BY <2>1 DEF Entry
    <3>3. QED
      BY <3>1, <3>2, FlushedOK, Zenon DEF Entry
  <2>4. QED
    BY <2>1, <2>2, <2>3
<1>3. QED
  BY <1>1, <1>2, Zenon

LEMMA ReadOK ==
  ASSUME NEW f, StoreOK(f), NEW c \in Cells
  PROVE  /\ StoreOK(fat_read_entry(f, c))
         /\ \A d \in Cells : Entry(fat_read_entry(f, c), d) = Entry(f, d)
  BY Places, TouchOK, Zenon DEF fat_read_entry

LEMMA WriteOK ==
  ASSUME NEW f, StoreOK(f), NEW c \in Cells, NEW v \in Values
  PROVE  /\ StoreOK(fat_write_entry(f, c, v))
         /\ Entry(fat_write_entry(f, c, v), c) = v
         /\ \A d \in Cells : d # c => Entry(fat_write_entry(f, c, v), d) = Entry(f, d)
<1> DEFINE g == Touch(f, Sector(c))
           h == fat_write_entry(f, c, v)
<1>1. Sector(c) \in Sectors /\ Offset(c) \in Offsets /\ Sector(c) # NoSector
  BY Places, Zenon
<1>2. StoreOK(g) /\ g.sector = Sector(c) /\ \A d \in Cells : Entry(g, d) = Entry(f, d)
  BY <1>1, TouchOK, Zenon
<1>3. h = [g EXCEPT !.cache = [g.cache EXCEPT ![Offset(c)] = v], !.dirty = 1]
  BY Zenon DEF fat_write_entry
<1>4. /\ h.sector = Sector(c) /\ h.disk = g.disk /\ h.cache = [g.cache EXCEPT ![Offset(c)] = v]
      /\ h.dirty = 1
  BY <1>2, <1>3, Zenon DEF StoreOK, Stores
<1>5. g.cache \in [Offsets -> Values]
  BY <1>2, Zenon DEF StoreOK, Stores
<1>6. StoreOK(h)
  <2>1. [g.cache EXCEPT ![Offset(c)] = v] \in [Offsets -> Values]
    BY <1>1, <1>5, Zenon
  <2>2. h \in Stores
    BY <2>1, <1>2, <1>3, Zenon DEF StoreOK, Stores
  <2>3. QED
    BY <1>1, <1>4, <2>2 DEF StoreOK, Consistent
<1>7. Entry(h, c) = v
  BY <1>1, <1>4, <1>5, Zenon DEF Entry
<1>8. ASSUME NEW d \in Cells, d # c PROVE Entry(h, d) = Entry(f, d)
  <2>1. CASE Sector(d) = Sector(c)
    <3>1. Offset(d) # Offset(c) /\ Offset(d) \in Offsets
      BY <2>1, <1>8, Apart, Places, Zenon
    <3>2. Entry(h, d) = g.cache[Offset(d)]
      BY <2>1, <3>1, <1>4, <1>5, Zenon DEF Entry
    <3>3. QED
      BY <2>1, <3>2, <1>2, Zenon DEF Entry
  <2>2. CASE Sector(d) # Sector(c)
    BY <2>2, <1>2, <1>4, Zenon DEF Entry
  <2>3. QED
    BY <2>1, <2>2, Zenon
<1>9. QED
  BY <1>6, <1>7, <1>8, Zenon

LEMMA FlushOK ==
  ASSUME NEW f, StoreOK(f)
  PROVE  /\ StoreOK(fat32_flush(f)) /\ fat32_flush(f).dirty = 0
         /\ \A c \in Cells : Entry(fat32_flush(f), c) = Entry(f, c)
<1> DEFINE g == fat32_flush(f)
<1>1. g.disk = Flushed(f) /\ g.sector = f.sector /\ g.cache = f.cache /\ g.dirty = 0 /\ g \in Stores
  BY FlushedOK, Zenon DEF StoreOK, Stores, fat32_flush
<1>2. StoreOK(g)
  BY <1>1, FlushedOK, Zenon DEF StoreOK, Stores, Consistent
<1>3. ASSUME NEW c \in Cells PROVE Entry(g, c) = Entry(f, c)
  BY <1>1, FlushedOK, Places, Zenon DEF Entry
<1>4. QED
  BY <1>1, <1>2, <1>3, Zenon

LEMMA InvalidateOK ==
  ASSUME NEW f, StoreOK(f)
  PROVE  /\ StoreOK(fat_cache_invalidate(f))
         /\ f.dirty = 0 => \A c \in Cells : Entry(fat_cache_invalidate(f), c) = Entry(f, c)
<1> DEFINE g == fat_cache_invalidate(f)
<1>1. g.disk = f.disk /\ g.sector = NoSector /\ g.dirty = 0 /\ g \in Stores
  BY Zenon DEF StoreOK, Stores, fat_cache_invalidate, Values
<1>2. StoreOK(g)
  BY <1>1 DEF StoreOK, Consistent
<1>3. ASSUME f.dirty = 0, NEW c \in Cells PROVE Entry(g, c) = Entry(f, c)
  BY <1>1, <1>3, Places, Zenon DEF Entry, StoreOK, Consistent
<1>4. QED
  BY <1>2, <1>3, Zenon

LEMMA EntryOK ==
  ASSUME NEW f, StoreOK(f), NEW c \in Cells
  PROVE  Entry(f, c) \in Values
  BY Places DEF StoreOK, Stores, Entry

LEMMA ScanOK ==
  ASSUME NEW f, StoreOK(f), NEW c \in Cells
  PROVE  /\ StoreOK(Scanned(f, c)) /\ StoreOK(ScannedAll(f))
         /\ \A d \in Cells : Entry(Scanned(f, c), d) = Entry(f, d)
         /\ \A d \in Cells : Entry(ScannedAll(f), d) = Entry(f, d)
<1>1. 2 \in Cells /\ 3 \in Cells /\ TotalClusters - 1 \in Cells
  BY FatAssumption DEF Cells
<1> DEFINE g == Touch(f, Sector(2))
<1>2. StoreOK(g) /\ \A d \in Cells : Entry(g, d) = Entry(f, d)
  BY <1>1, Places, TouchOK, Zenon
<1>3. ASSUME NEW b \in Cells
      PROVE  StoreOK(Scanned(f, b)) /\ \A d \in Cells : Entry(Scanned(f, b), d) = Entry(f, d)
  BY <1>2, Places, TouchOK, Zenon DEF Scanned
<1> DEFINE h == Scanned(f, TotalClusters - 1)
<1>4. StoreOK(h) /\ \A d \in Cells : Entry(h, d) = Entry(f, d)
  BY <1>1, <1>3, Zenon
<1>5. StoreOK(Touch(h, Sector(3))) /\ \A d \in Cells : Entry(Touch(h, Sector(3)), d) = Entry(h, d)
  BY <1>1, <1>4, Places, TouchOK, Zenon
<1>6. QED
  BY <1>3, <1>4, <1>5, Zenon DEF ScannedAll

LEMMA AllocatedOK ==
  ASSUME NEW f, StoreOK(f), NEW c \in Cells
  PROVE  /\ StoreOK(Allocated(f, c)) /\ Entry(Allocated(f, c), c) = EOC
         /\ \A d \in Cells : d # c => Entry(Allocated(f, c), d) = Entry(f, d)
<1>1. EOC \in Values
  BY Zenon DEF Values
<1> DEFINE g == Scanned(f, c)
<1>2. StoreOK(g) /\ \A d \in Cells : Entry(g, d) = Entry(f, d)
  BY ScanOK, Zenon
<1>3. /\ StoreOK(fat_write_entry(g, c, EOC)) /\ Entry(fat_write_entry(g, c, EOC), c) = EOC
      /\ \A d \in Cells : d # c => Entry(fat_write_entry(g, c, EOC), d) = Entry(g, d)
  BY <1>1, <1>2, WriteOK
<1>4. QED
  BY <1>2, <1>3, Zenon DEF Allocated

(* A new cluster at the end of a chain: allocated, linked from b, and      *)
(* marked as the end.                                                      *)
LEMMA LinkedOK ==
  ASSUME NEW f, StoreOK(f), NEW b \in Cells, NEW c \in Clusters
  PROVE  LET g == fat_write_entry(fat_write_entry(Allocated(f, c), b, c), c, EOC) IN
         /\ StoreOK(g) /\ Entry(g, c) = EOC /\ (b # c => Entry(g, b) = c)
         /\ \A d \in Cells : d # b /\ d # c => Entry(g, d) = Entry(f, d)
<1>1. EOC \in Values /\ c \in Values /\ c \in Cells
  BY FatAssumption DEF Values, Clusters, Cells
<1> DEFINE h == Allocated(f, c)
           i == fat_write_entry(h, b, c)
<1>2. StoreOK(h) /\ \A d \in Cells : d # c => Entry(h, d) = Entry(f, d)
  BY <1>1, AllocatedOK, Zenon
<1>3. StoreOK(i) /\ Entry(i, b) = c /\ \A d \in Cells : d # b => Entry(i, d) = Entry(h, d)
  BY <1>1, <1>2, WriteOK
<1> HIDE DEF i
<1>4. /\ StoreOK(fat_write_entry(i, c, EOC)) /\ Entry(fat_write_entry(i, c, EOC), c) = EOC
      /\ \A d \in Cells : d # c => Entry(fat_write_entry(i, c, EOC), d) = Entry(i, d)
  BY <1>1, <1>3, WriteOK
<1>5. QED
  BY <1>2, <1>3, <1>4, Zenon DEF i

-----------------------------------------------------------------------------
(* The inductive invariant.  Its parts: types; the shape of the volume, a  *)
(* partition of the clusters in use into the directory and the rest that   *)
(* links respect, with one reference to a cluster at most; that what is    *)
(* referred to is allocated; what a call under way and a handle know.      *)
MaybeName == Names \cup {NoName}
InfoType == [first : Cursor, size : Int, dcl : Cursor, dof : {0} \cup Units]
UnitType == [kind : {"end", "gone", "lfn", "file", "byte"}, name : MaybeName, first : Cursor, size : Int]
HandleType == [open : {0, 1}, name : MaybeName, first : Cursor, cur : Cursor, pos : Int,
               size : Int, write : {0, 1}, dcl : Cursor, dof : {0} \cup Units]
OpType == [pc : {"idle", "find", "found", "free", "mark", "slot", "tail", "before", "write",
                 "read", "seek"},
           call : {"none", "create", "delete", "r", "rw", "w", "a"},
           goal : {"none", "read", "delete", "append", "create"},
           name : MaybeName, cl : Cursor, new : Cursor, prev : Cursor, left : Int, info : InfoType]
Searching == op.pc \in {"find", "found", "free", "mark", "slot"}

CallTypes ==
  /\ fp \in HandleType /\ op \in OpType
  /\ Searching => op.name \in Names /\ fp.open = 0
  /\ op.pc \in {"find", "slot"} => op.cl \in Clusters

Types ==
  /\ StoreOK(store) /\ data \in [Clusters -> [Units -> UnitType]]
  /\ flag \in {0, 1} /\ vol \in [mounted : {0, 1}, dirty : {0, 1}]
  /\ dirs \subseteq Clusters /\ CallTypes

FileIn(dt, ds, d, u) == d \in ds /\ u \in Slots /\ dt[d][u].kind = "file"

TreeOf(f, ds) ==
  /\ Root \in ds /\ ds \subseteq Clusters
  /\ \A c \in ds : Entry(f, c) # Free
  /\ \A c \in Clusters : Entry(f, c) # Root
  /\ \A c, d \in Clusters : Entry(f, c) = d => (c \in ds <=> d \in ds) /\ Entry(f, d) # Free
  /\ \A b, c, d \in Clusters : Entry(f, b) = d /\ Entry(f, c) = d => b = c

(* x is the first cluster of the file that is being deleted. *)
EntriesOf(f, dt, ds, x) ==
  /\ \A d \in ds, u \in Slots : FileIn(dt, ds, d, u) =>
       /\ dt[d][u].first \in Clusters \ ds
       /\ \A c \in Clusters : Entry(f, c) # dt[d][u].first
       /\ Entry(f, dt[d][u].first) = Free => dt[d][u].first = x
  /\ \A d, e \in ds, u, w \in Slots :
       FileIn(dt, ds, d, u) /\ FileIn(dt, ds, e, w) /\ dt[d][u].first = dt[e][w].first
         => d = e /\ u = w
Doomed == IF op.pc \in {"free", "mark"} THEN op.info.first ELSE 0

(* A cluster in use to which no link and no entry refers. *)
Alone(f, ds, x) ==
  /\ x \in Clusters \ ds /\ Entry(f, x) # Free
  /\ \A c \in Clusters : Entry(f, c) # x
Unnamed(dt, ds, x) == \A d \in ds, u \in Slots : FileIn(dt, ds, d, u) => dt[d][u].first # x

Locals ==
  /\ op.pc \in {"find", "slot"} => op.cl \in dirs
  /\ op.pc = "slot" => Alone(store, dirs, op.new) /\ Unnamed(data, dirs, op.new)
  /\ op.pc \in {"free", "mark"} \/ (op.pc = "found" /\ op.info # NotFound) =>
       /\ FileIn(data, dirs, op.info.dcl, op.info.dof)
       /\ data[op.info.dcl][op.info.dof].first = op.info.first
  /\ op.pc = "free" => /\ Alone(store, dirs, op.cl)
                       /\ op.cl = op.info.first \/ Unnamed(data, dirs, op.cl)
  /\ op.pc \in {"before", "write", "read", "seek"} => op.cl \notin dirs /\ op.prev \notin dirs
  /\ fp.open = 1 => fp.first \notin dirs /\ fp.cur \notin dirs
  /\ op.pc \in {"tail", "before", "write", "read", "seek"} => fp.open = 1

Reported ==
  /\ vol.mounted = 1 => flag = 1
  /\ "torn" \in hurt /\ "hidden" \notin hurt => flag = 1 /\ (vol.mounted = 1 => vol.dirty = 1)

IInv == Types /\ Reported /\ ("torn" \notin hurt => TreeOf(store, dirs) /\ EntriesOf(store, data, dirs, Doomed) /\ Locals)

-----------------------------------------------------------------------------
(* What the changes of the table and of the directory do to the shape.     *)
LEMMA ClusterFacts ==
  /\ Clusters \subseteq Cells /\ 0 \in Cells /\ Cursor \subseteq Cells /\ Root \in Clusters
  /\ 0 \notin Clusters /\ EOC \notin Clusters /\ EOC # Free
  /\ \A c \in Clusters : c # Free /\ c # EOC /\ c >= 2 /\ c < EOC
  /\ \A c \in Cursor : c >= 2 => c \in Clusters
  BY FatAssumption DEF Clusters, Cells, Cursor, EOC, Free, Root

LEMMA SameShape ==
  ASSUME NEW f, NEW g, \A c \in Cells : Entry(g, c) = Entry(f, c), NEW ds, TreeOf(f, ds)
  PROVE  /\ TreeOf(g, ds)
         /\ \A x : Alone(f, ds, x) => Alone(g, ds, x)
         /\ \A dt, x : EntriesOf(f, dt, ds, x) => EntriesOf(g, dt, ds, x)
<1>1. \A c \in Clusters : Entry(g, c) = Entry(f, c)
  BY ClusterFacts, Zenon
<1>2. TreeOf(g, ds)
  BY <1>1, Zenon DEF TreeOf
<1>3. ASSUME NEW x, Alone(f, ds, x) PROVE Alone(g, ds, x)
  BY <1>1, <1>3, Zenon DEF Alone
<1>4. ASSUME NEW dt, NEW x, EntriesOf(f, dt, ds, x) PROVE EntriesOf(g, dt, ds, x)
  BY <1>1, <1>4 DEF EntriesOf
<1>5. QED
  BY <1>2, <1>3, <1>4, Zenon

(* The changes of the directory from dt to du: none; a removal; a new      *)
(* entry; a new cluster.                                                   *)
Alike(dt, du, ds) ==
  \A d \in ds, u \in Slots : du[d][u].kind = dt[d][u].kind /\ du[d][u].first = dt[d][u].first
Removed(dt, du, ds, e, w) ==
  /\ e \in ds /\ w \in Slots /\ FileIn(dt, ds, e, w) /\ du[e][w].kind # "file"
  /\ \A d \in ds, u \in Slots : d # e \/ u # w => du[d][u] = dt[d][u]
Added(dt, du, ds, e, w, x) ==
  /\ e \in ds /\ w \in Slots /\ du[e][w].first = x
  /\ \A d \in ds, u \in Slots : (d # e \/ u # w) /\ FileIn(du, ds, d, u) => du[d][u] = dt[d][u]
Grown(dt, du, ds, c) ==
  (\A d \in ds : d # c => du[d] = dt[d]) /\ \A u \in Slots : du[c][u].kind # "file"

LEMMA SameFiles ==
  ASSUME NEW f, NEW ds, NEW dt, NEW du, NEW x, Alike(dt, du, ds), EntriesOf(f, dt, ds, x)
  PROVE  /\ EntriesOf(f, du, ds, x)
         /\ \A y : Unnamed(dt, ds, y) => Unnamed(du, ds, y)
<1>1. \A d \in ds, u \in Slots :
        (FileIn(du, ds, d, u) <=> FileIn(dt, ds, d, u)) /\ du[d][u].first = dt[d][u].first
  BY Zenon DEF FileIn, Alike
<1>2. EntriesOf(f, du, ds, x)
  BY <1>1 DEF EntriesOf
<1>3. QED
  BY <1>1, <1>2, Zenon DEF Unnamed

LEMMA FreeShape ==
  ASSUME NEW f, NEW g, NEW c, NEW ds, TreeOf(f, ds), Alone(f, ds, c), Entry(g, c) = Free,
         \A d \in Cells : d # c => Entry(g, d) = Entry(f, d),
         NEW dt, NEW x, EntriesOf(f, dt, ds, x), c = x \/ Unnamed(dt, ds, c)
  PROVE  /\ TreeOf(g, ds) /\ EntriesOf(g, dt, ds, x)
         /\ Entry(f, c) \in Clusters => /\ Alone(g, ds, Entry(f, c)) /\ Unnamed(dt, ds, Entry(f, c))
<1>1. c \in Clusters \ ds /\ \A d \in Clusters : d # c => Entry(g, d) = Entry(f, d)
  BY ClusterFacts, Zenon DEF Alone
<1>2. TreeOf(g, ds)
  BY <1>1, ClusterFacts DEF TreeOf, Alone
<1>3. EntriesOf(g, dt, ds, x)
  BY <1>1, ClusterFacts DEF EntriesOf, Unnamed, Alone
<1>4. ASSUME Entry(f, c) \in Clusters PROVE Alone(g, ds, Entry(f, c)) /\ Unnamed(dt, ds, Entry(f, c))
  <2>1. Alone(g, ds, Entry(f, c))
    BY <1>1, <1>4, ClusterFacts, Zenon DEF TreeOf, Alone
  <2>2. Unnamed(dt, ds, Entry(f, c))
    BY <1>1, <1>4, Zenon DEF EntriesOf, Unnamed
  <2>3. QED
    BY <2>1, <2>2, Zenon
<1>5. QED
  BY <1>2, <1>3, <1>4, Zenon

LEMMA AllocShape ==
  ASSUME NEW f, NEW g, NEW c \in Clusters, NEW ds, TreeOf(f, ds), Entry(f, c) = Free,
         Entry(g, c) = EOC, \A d \in Cells : d # c => Entry(g, d) = Entry(f, d),
         NEW dt, EntriesOf(f, dt, ds, 0)
  PROVE  /\ TreeOf(g, ds) /\ EntriesOf(g, dt, ds, 0)
         /\ Alone(g, ds, c) /\ Unnamed(dt, ds, c)
<1>1. c \notin ds /\ \A d \in Clusters : d # c => Entry(g, d) = Entry(f, d)
  BY ClusterFacts, Zenon DEF TreeOf
<1>2. TreeOf(g, ds)
  BY <1>1, ClusterFacts DEF TreeOf
<1>3. EntriesOf(g, dt, ds, 0)
  BY <1>1, ClusterFacts DEF EntriesOf
<1>4. Alone(g, ds, c)
  BY <1>1, ClusterFacts, Zenon DEF TreeOf, Alone
<1>5. Unnamed(dt, ds, c)
  BY ClusterFacts, Zenon DEF EntriesOf, Unnamed
<1>6. QED
  BY <1>2, <1>3, <1>4, <1>5, Zenon

LEMMA LinkShape ==
  ASSUME NEW f, NEW g, NEW b \in Clusters, NEW c \in Clusters, b # c, NEW ds, b \notin ds,
         TreeOf(f, ds), Entry(f, c) = Free, Entry(g, c) = EOC, Entry(g, b) = c,
         \A d \in Cells : d # b /\ d # c => Entry(g, d) = Entry(f, d),
         NEW dt, EntriesOf(f, dt, ds, 0)
  PROVE  c \notin ds /\ TreeOf(g, ds) /\ EntriesOf(g, dt, ds, 0)
<1>1. /\ c \notin ds /\ \A d \in Clusters : Entry(f, d) # c
      /\ \A d \in Clusters : d # b /\ d # c => Entry(g, d) = Entry(f, d)
  BY ClusterFacts, Zenon DEF TreeOf
<1>2. TreeOf(g, ds)
  BY <1>1, ClusterFacts DEF TreeOf
<1>3. EntriesOf(g, dt, ds, 0)
  <2>1. \A d \in ds, u \in Slots : FileIn(dt, ds, d, u) => dt[d][u].first # c
    BY ClusterFacts DEF EntriesOf
  <2>2. QED
    BY <1>1, <2>1, ClusterFacts DEF EntriesOf
<1>4. QED
  BY <1>1, <1>2, <1>3, Zenon

LEMMA GrowShape ==
  ASSUME NEW f, NEW g, NEW ds, NEW b \in ds, NEW c \in Clusters,
         TreeOf(f, ds), Entry(f, c) = Free, Entry(g, c) = EOC, Entry(g, b) = c,
         \A d \in Cells : d # b /\ d # c => Entry(g, d) = Entry(f, d),
         NEW dt, EntriesOf(f, dt, ds, 0),
         NEW du, Grown(dt, du, ds, c),
         NEW x, Alone(f, ds, x), Unnamed(dt, ds, x)
  PROVE  /\ TreeOf(g, ds \cup {c}) /\ EntriesOf(g, du, ds \cup {c}, 0)
         /\ Alone(g, ds \cup {c}, x) /\ Unnamed(du, ds \cup {c}, x)
<1>1. /\ c \notin ds /\ b \in Clusters /\ b # c /\ x # c /\ \A d \in Clusters : Entry(f, d) # c
      /\ \A d \in Clusters : d # b /\ d # c => Entry(g, d) = Entry(f, d)
  BY ClusterFacts, Zenon DEF TreeOf, Alone
<1>2. TreeOf(g, ds \cup {c})
  BY <1>1, ClusterFacts DEF TreeOf
<1>3. \A d \in ds \cup {c}, u \in Slots :
        FileIn(du, ds \cup {c}, d, u) => d \in ds /\ FileIn(dt, ds, d, u) /\ du[d][u].first = dt[d][u].first
  BY <1>1, Zenon DEF FileIn, Grown
<1>4. EntriesOf(g, du, ds \cup {c}, 0)
  <2>1. \A d \in ds, u \in Slots : FileIn(dt, ds, d, u) => dt[d][u].first # c
    BY ClusterFacts DEF EntriesOf
  <2>2. ASSUME NEW d \in ds \cup {c}, NEW u \in Slots, FileIn(du, ds \cup {c}, d, u)
        PROVE  /\ du[d][u].first \in Clusters \ (ds \cup {c})
               /\ \A y \in Clusters : Entry(g, y) # du[d][u].first
               /\ Entry(g, du[d][u].first) = Free => du[d][u].first = 0
    BY <1>1, <1>3, <2>1, <2>2, ClusterFacts DEF EntriesOf
  <2>3. \A d, e \in ds \cup {c}, u, w \in Slots :
          FileIn(du, ds \cup {c}, d, u) /\ FileIn(du, ds \cup {c}, e, w)
            /\ du[d][u].first = du[e][w].first => d = e /\ u = w
    BY <1>3 DEF EntriesOf
  <2>4. QED
    BY <2>2, <2>3, Zenon DEF EntriesOf
<1>5. Alone(g, ds \cup {c}, x)
  BY <1>1, ClusterFacts DEF Alone
<1>6. Unnamed(du, ds \cup {c}, x)
  BY <1>3 DEF Unnamed
<1>7. QED
  BY <1>2, <1>4, <1>5, <1>6, Zenon

(* The entry at (e, w) is removed, or is a new one. *)
LEMMA MarkShape ==
  ASSUME NEW f, NEW ds, NEW dt, NEW du, NEW e, NEW w, NEW x,
         EntriesOf(f, dt, ds, x), Removed(dt, du, ds, e, w), dt[e][w].first = x
  PROVE  EntriesOf(f, du, ds, 0)
<1>1. \A d \in ds, u \in Slots : FileIn(du, ds, d, u) =>
        FileIn(dt, ds, d, u) /\ (d # e \/ u # w) /\ du[d][u].first = dt[d][u].first
  BY Zenon DEF FileIn, Removed
<1>2. \A d \in ds, u \in Slots : FileIn(du, ds, d, u) => du[d][u].first # dt[e][w].first
  BY <1>1 DEF EntriesOf, Removed
<1>3. QED
  BY <1>1, <1>2 DEF EntriesOf

LEMMA SlotShape ==
  ASSUME NEW f, NEW ds, NEW dt, NEW du, NEW e, NEW w, NEW x,
         EntriesOf(f, dt, ds, 0), Alone(f, ds, x), Unnamed(dt, ds, x), Added(dt, du, ds, e, w, x)
  PROVE  EntriesOf(f, du, ds, 0)
<1>1. \A d \in ds, u \in Slots : (d # e \/ u # w) /\ FileIn(du, ds, d, u) =>
        FileIn(dt, ds, d, u) /\ du[d][u].first = dt[d][u].first /\ du[d][u].first # x
  BY DEF FileIn, Unnamed, Added
<1>2. ASSUME NEW d \in ds, NEW u \in Slots, FileIn(du, ds, d, u)
      PROVE  /\ du[d][u].first \in Clusters \ ds
             /\ \A c \in Clusters : Entry(f, c) # du[d][u].first
             /\ Entry(f, du[d][u].first) = Free => du[d][u].first = 0
  <2>1. CASE d = e /\ u = w
    BY <2>1, Zenon DEF Alone, Added
  <2>2. CASE d # e \/ u # w
    BY <1>1, <1>2, <2>2 DEF EntriesOf
  <2>3. QED
    BY <2>1, <2>2, Zenon
<1>3. ASSUME NEW d \in ds, NEW u \in Slots, FileIn(du, ds, d, u),
             NEW c \in ds, NEW v \in Slots, FileIn(du, ds, c, v), du[d][u].first = du[c][v].first
      PROVE  d = c /\ u = v
  <2>1. CASE (d = e /\ u = w) \/ (c = e /\ v = w)
    BY <1>1, <1>3, <2>1 DEF Added
  <2>2. CASE (d # e \/ u # w) /\ (c # e \/ v # w)
    BY <1>1, <1>3, <2>2 DEF EntriesOf
  <2>3. QED
    BY <2>1, <2>2, Zenon
<1>4. QED
  BY <1>2, <1>3 DEF EntriesOf

LEMMA NextOK ==
  ASSUME NEW f, StoreOK(f), NEW c \in Cursor
  PROVE  LET n == fat32_next_cluster(f, c) IN
         /\ n \in Cursor /\ (n # 0 => n \in Clusters /\ c \in Clusters /\ Entry(f, c) = n)
         /\ \A ds : TreeOf(f, ds) => /\ c \notin ds => n \notin ds
                                     /\ c \in ds /\ n # 0 => n \in ds
<1> DEFINE n == fat32_next_cluster(f, c)
<1>1. c \in Cells /\ Entry(f, c) \in Values
  BY ClusterFacts, EntryOK, Zenon
<1>2. n \in Cursor /\ (n # 0 => n \in Clusters /\ c \in Clusters /\ Entry(f, c) = n)
  BY <1>1, ClusterFacts, FatAssumption DEF fat32_next_cluster, Values, Cursor, Free, EOC, Cells
<1>3. ASSUME NEW ds, TreeOf(f, ds)
      PROVE  (c \notin ds => n \notin ds) /\ (c \in ds /\ n # 0 => n \in ds)
  BY <1>2, <1>3, ClusterFacts, Zenon DEF TreeOf
<1>4. QED
  BY <1>2, <1>3, Zenon

-----------------------------------------------------------------------------

LEMMA Initially == Init => IInv
<1> SUFFICES ASSUME Init PROVE IInv
  BY Zenon
<1>1. /\ store = Formatted /\ data = [c \in Clusters |-> Blank] /\ flag = 1
      /\ vol = [mounted |-> 1, dirty |-> 0] /\ fp = Closed /\ op = Idle /\ hurt = {} /\ dirs = {Root}
  BY Zenon DEF Init
<1>2. StoreOK(store)
  <2>1. store.disk \in [Sectors -> [Offsets -> Values]] /\ store.cache \in [Offsets -> Values]
    BY <1>1, Zenon DEF Formatted, Values
  <2>2. store.sector = NoSector /\ store.dirty = 0
    BY <1>1, Zenon DEF Formatted
  <2>3. store \in Stores
    BY <1>1, <2>1, Zenon DEF Formatted, Stores
  <2>4. QED
    BY <2>2, <2>3 DEF StoreOK, Consistent
<1>3. ASSUME NEW c \in Cells PROVE Entry(store, c) = IF c <= 2 THEN EOC ELSE Free
  <2>1. c \in Nat /\ EntriesPerSector \in Nat \ {0} /\ EntriesPerSector > 2
    BY FatAssumption DEF Cells
  <2>2. Sector(c) \in Nat /\ Offset(c) \in Nat /\ c = (EntriesPerSector * Sector(c)) + Offset(c)
    <3>1. Sector(c) \in Nat /\ Offset(c) \in Offsets /\ c = (EntriesPerSector * Sector(c)) + Offset(c)
      BY <2>1, DivMod, Zenon DEF Sector, Offset, Offsets
    <3>2. QED
      BY <2>1, <3>1 DEF Offsets
  <2>3. c <= 2 <=> Sector(c) = 0 /\ Offset(c) \in 0 .. 2
    <3>1. CASE Sector(c) = 0
      BY <2>1, <2>2, <3>1
    <3>2. CASE Sector(c) > 0
      <4>1. EntriesPerSector * Sector(c) >= EntriesPerSector
        BY <2>1, <2>2, <3>2
      <4>2. QED
        BY <2>1, <2>2, <3>2, <4>1
    <3>3. QED
      BY <2>2, <3>1, <3>2
  <2>4. Sector(c) \in Sectors /\ Offset(c) \in Offsets /\ Sector(c) # NoSector
    BY Places, Zenon
  <2>5. QED
    BY <1>1, <2>3, <2>4, Zenon DEF Entry, Formatted
<1>4. CallTypes
  BY <1>1 DEF CallTypes, Closed, Idle, NotFound, HandleType, OpType, InfoType, MaybeName, Cursor, Searching
<1>5. data \in [Clusters -> [Units -> UnitType]]
  BY <1>1 DEF Blank, End, Unit, UnitType, MaybeName, Cursor
<1>6. Types
  BY <1>1, <1>2, <1>4, <1>5, ClusterFacts, Zenon DEF Types
<1>7. TreeOf(store, dirs)
  BY <1>1, <1>3, ClusterFacts, Zenon DEF TreeOf, Root
<1>8. EntriesOf(store, data, dirs, Doomed)
  <2>1. ASSUME NEW d \in dirs, NEW u \in Slots PROVE ~FileIn(data, dirs, d, u)
    BY <1>1, VolumeAssumption, ClusterFacts DEF FileIn, Blank, End, Unit, Slots, Units
  <2>2. QED
    BY <2>1, Zenon DEF EntriesOf
<1>9. Locals
  BY <1>1 DEF Locals, Idle, Closed
<1>10. QED
  BY <1>1, <1>6, <1>7, <1>8, <1>9, Zenon DEF IInv, Reported

(* Data changes and the directory's entries keep their clusters. *)
Rewritten ==
  data' \in [Clusters -> [Units -> UnitType]] /\ ("torn" \notin hurt => Alike(data, data', dirs))

LEMMA Quiet ==
  ASSUME IInv, StoreOK(store'), \A c \in Cells : Entry(store', c) = Entry(store, c),
         UNCHANGED <<flag, vol, dirs>>, data' = data \/ Rewritten,
         "torn" \in hurt' <=> "torn" \in hurt, "hidden" \in hurt' <=> "hidden" \in hurt,
         Doomed' = Doomed \/ Doomed = 0, CallTypes', "torn" \notin hurt => Locals'
  PROVE  IInv'
<1>1. Types' /\ Reported'
  BY Zenon DEF IInv, Types, Reported, Rewritten
<1>2. ASSUME "torn" \notin hurt' PROVE TreeOf(store', dirs') /\ EntriesOf(store', data', dirs', Doomed')
  <2>1. TreeOf(store, dirs) /\ EntriesOf(store, data, dirs, Doomed)
    BY <1>2, Zenon DEF IInv
  <2>2. EntriesOf(store, data, dirs, Doomed')
    BY <2>1, ClusterFacts DEF EntriesOf
  <2>3. Alike(data, data', dirs)
    BY <1>2, Zenon DEF Rewritten, Alike
  <2>4. EntriesOf(store, data', dirs, Doomed')
    BY <2>2, <2>3, SameFiles, Zenon
  <2>5. QED
    BY <2>1, <2>4, SameShape, Zenon
<1>3. QED
  BY <1>1, <1>2, Zenon DEF IInv

-----------------------------------------------------------------------------
(* Steps that leave the shape of the volume alone. *)
LEMMA UnchangedTable ==
  ASSUME IInv, UNCHANGED store
  PROVE  StoreOK(store') /\ \A c \in Cells : Entry(store', c) = Entry(store, c)
  BY Zenon DEF IInv, Types

LEMMA NothingTyped ==
  /\ NotFound \in InfoType /\ Closed \in HandleType /\ Closed.open = 0
  /\ Idle \in OpType /\ Idle.pc = "idle"
<1>1. 0 \in Cursor /\ NoName \in MaybeName
  BY Zenon DEF Cursor, MaybeName
<1>2. NotFound \in InfoType
  BY <1>1 DEF NotFound, InfoType
<1>3. Closed \in HandleType /\ Closed.open = 0
  BY <1>1 DEF Closed, HandleType
<1>4. Idle \in OpType /\ Idle.pc = "idle"
  BY <1>1, <1>2 DEF Idle, OpType
<1>5. QED
  BY <1>2, <1>3, <1>4, Zenon

LEMMA StartStep ==
  ASSUME IInv, NEW n \in Names, NEW call \in {"create", "delete", "r", "rw", "w", "a"},
         NEW goal \in {"read", "delete", "append", "create"}, Start(call, goal, n)
  PROVE  IInv'
<1>1. /\ op.pc = "idle" /\ fp.open = 0 /\ UNCHANGED <<store, data, flag, vol, fp, hurt, dirs>>
      /\ op' = [Idle EXCEPT !.pc = "find", !.call = call, !.goal = goal, !.name = n, !.cl = Root]
  BY Zenon DEF Start, disk
<1>2. CallTypes'
  <2>1. op' \in OpType /\ op'.name = n /\ op'.cl = Root
    BY <1>1, NothingTyped, ClusterFacts, Zenon DEF OpType, MaybeName, Cursor
  <2>2. QED
    BY <1>1, <2>1, ClusterFacts, Zenon DEF IInv, Types, CallTypes, Searching
<1>3. ASSUME "torn" \notin hurt PROVE Locals'
  BY <1>1, <1>3 DEF IInv, Locals, TreeOf, Idle
<1>4. Doomed' = Doomed
  BY <1>1 DEF Doomed, Idle
<1>5. QED
  BY <1>1, <1>2, <1>3, <1>4, UnchangedTable, Quiet, Zenon

LEMMA FindStep ==
  ASSUME IInv, Find
  PROVE  IInv'
<1>1. /\ op.pc = "find" /\ UNCHANGED <<data, flag, vol, fp, hurt, dirs>>
      /\ op \in OpType /\ fp \in HandleType /\ op.name \in Names /\ fp.open = 0 /\ op.cl \in Cursor
      /\ op.cl \in Clusters
      /\ StoreOK(store) /\ data \in [Clusters -> [Units -> UnitType]]
  BY Zenon DEF Find, disk, history, IInv, Types, CallTypes, Searching, OpType
<1>2. CASE \E u \in Slots :
          /\ FirstStop(op.cl, u, op.name)
          /\ op' = [op EXCEPT !.pc = "found", !.info =
               IF data[op.cl][u].kind = "end" THEN NotFound
               ELSE [first |-> data[op.cl][u].first, size |-> data[op.cl][u].size,
                     dcl |-> op.cl, dof |-> u]]
          /\ UNCHANGED store
  <2>1. PICK u \in Slots :
          /\ FirstStop(op.cl, u, op.name)
          /\ op' = [op EXCEPT !.pc = "found", !.info =
               IF data[op.cl][u].kind = "end" THEN NotFound
               ELSE [first |-> data[op.cl][u].first, size |-> data[op.cl][u].size,
                     dcl |-> op.cl, dof |-> u]]
          /\ UNCHANGED store
    BY <1>2, Zenon
  <2> DEFINE i == IF data[op.cl][u].kind = "end" THEN NotFound
                  ELSE [first |-> data[op.cl][u].first, size |-> data[op.cl][u].size,
                        dcl |-> op.cl, dof |-> u]
  <2>2. u \in Units /\ data[op.cl][u] \in UnitType
    BY <1>1, VolumeAssumption DEF Slots, Units
  <2>3. i \in InfoType
    BY <1>1, <2>2 DEF InfoType, UnitType, NotFound, Cursor
  <2>4. op' = [op EXCEPT !.pc = "found", !.info = i]
    BY <2>1, Zenon
  <2>5. op'.info = i /\ op'.pc = "found" /\ op' \in OpType /\ op'.name = op.name
    BY <1>1, <2>3, <2>4, Zenon DEF OpType
  <2>6. CallTypes'
    BY <1>1, <2>5, Zenon DEF CallTypes, Searching
  <2>7. ASSUME "torn" \notin hurt PROVE Locals'
    <3>1. ASSUME op'.info # NotFound
          PROVE  /\ FileIn(data', dirs', op'.info.dcl, op'.info.dof)
                 /\ data'[op'.info.dcl][op'.info.dof].first = op'.info.first
      <4>1. data[op.cl][u].kind # "end" /\ i.dcl = op.cl /\ i.dof = u
            /\ i.first = data[op.cl][u].first
        BY <2>5, <3>1, Zenon
      <4>2. op.cl \in dirs
        BY <1>1, <2>7, Zenon DEF IInv, Locals
      <4>3. data[op.cl][u].kind = "file"
        BY <2>1, <4>1, Zenon DEF FirstStop, Stops
      <4> HIDE DEF i
      <4>4. QED
        BY <1>1, <2>5, <4>1, <4>2, <4>3, Zenon DEF FileIn
    <3>2. op'.pc = "found" /\ fp'.open = 0
      BY <1>1, <2>5, Zenon
    <3> HIDE DEF i
    <3>3. QED
      BY <3>1, <3>2 DEF Locals
  <2>8. Doomed' = Doomed
    BY <1>1, <2>5, Zenon DEF Doomed
  <2>9. QED
    BY <1>1, <2>1, <2>6, <2>7, <2>8, UnchangedTable, Quiet, Zenon
<1>3. CASE /\ store' = fat_read_entry(store, op.cl)
           /\ LET c == fat32_next_cluster(store, op.cl) IN
                op' = IF c = 0 THEN [op EXCEPT !.pc = "found", !.info = NotFound]
                      ELSE [op EXCEPT !.cl = c]
  <2> DEFINE c == fat32_next_cluster(store, op.cl)
  <2>1. StoreOK(store') /\ \A d \in Cells : Entry(store', d) = Entry(store, d)
    BY <1>1, <1>3, ClusterFacts, ReadOK
  <2>2. /\ c \in Cursor /\ (c # 0 => c \in Clusters)
        /\ TreeOf(store, dirs) /\ op.cl \in dirs /\ c # 0 => c \in dirs
    BY <1>1, NextOK, Zenon
  <2>3. CallTypes'
    <3>1. op' \in OpType /\ op'.name = op.name /\ (op'.pc = "find" => op'.cl \in Clusters) /\ op'.pc # "slot"
      BY <1>1, <1>3, <2>2, NothingTyped, Zenon DEF OpType
    <3>2. QED
      BY <1>1, <3>1, Zenon DEF CallTypes, Searching
  <2>4. ASSUME "torn" \notin hurt PROVE Locals'
    BY <1>1, <1>3, <2>2, <2>4 DEF IInv, Locals, OpType
  <2>5. Doomed' = Doomed
    BY <1>1, <1>3, Zenon DEF Doomed, OpType
  <2>6. QED
    BY <1>1, <2>1, <2>3, <2>4, <2>5, Quiet, Zenon
<1>4. QED
  BY <1>2, <1>3, Zenon DEF Find
(* What is known of an entry that was found. *)
LEMMA FoundFacts ==
  ASSUME IInv, op.pc = "found"
  PROVE  /\ op \in OpType /\ fp \in HandleType /\ op.info \in InfoType /\ op.info.first \in Cursor
         /\ op.name \in Names /\ fp.open = 0 /\ StoreOK(store) /\ Doomed = 0
         /\ "torn" \notin hurt /\ op.info # NotFound =>
              /\ op.info.first \in Clusters \ dirs
              /\ \A c \in Clusters : Entry(store, c) # op.info.first
              /\ Entry(store, op.info.first) # Free
              /\ FileIn(data, dirs, op.info.dcl, op.info.dof)
              /\ data[op.info.dcl][op.info.dof].first = op.info.first
<1>1. op \in OpType /\ fp \in HandleType /\ op.name \in Names /\ fp.open = 0 /\ StoreOK(store)
  BY Zenon DEF IInv, Types, CallTypes, Searching
<1>2. op.info \in InfoType /\ op.info.first \in Cursor
  BY <1>1, Zenon DEF OpType, InfoType
<1>3. Doomed = 0
  BY Zenon DEF Doomed
<1>4. ASSUME "torn" \notin hurt, op.info # NotFound
      PROVE  /\ op.info.first \in Clusters \ dirs
             /\ \A c \in Clusters : Entry(store, c) # op.info.first
             /\ Entry(store, op.info.first) # Free
             /\ FileIn(data, dirs, op.info.dcl, op.info.dof)
             /\ data[op.info.dcl][op.info.dof].first = op.info.first
  <2>1. FileIn(data, dirs, op.info.dcl, op.info.dof) /\ data[op.info.dcl][op.info.dof].first = op.info.first
    BY <1>4, Zenon DEF IInv, Locals
  <2>2. op.info.dcl \in dirs /\ op.info.dof \in Slots
    BY <2>1, Zenon DEF FileIn
  <2>3. EntriesOf(store, data, dirs, 0)
    BY <1>3, <1>4, Zenon DEF IInv
  <2>4. QED
    BY <2>1, <2>2, <2>3, ClusterFacts DEF EntriesOf
<1>5. QED
  BY <1>1, <1>2, <1>3, <1>4, Zenon

LEMMA HandleTyped ==
  ASSUME op \in OpType, NEW i \in InfoType, NEW pos \in Int, NEW w \in {0, 1}
  PROVE  /\ Handle(i, pos, w) \in HandleType /\ Handle(i, pos, w).open = 1
         /\ Handle(i, pos, w).first = i.first /\ Handle(i, pos, w).cur = i.first
  BY Zenon DEF Handle, HandleType, InfoType, OpType

LEMMA AgainTyped ==
  ASSUME op \in OpType, op.name \in Names
  PROVE  /\ Again \in OpType /\ Again.pc = "find" /\ Again.cl = Root /\ Again.name \in Names
  BY ClusterFacts, Zenon DEF Again, OpType, Cursor

LEMMA FoundForReadingStep ==
  ASSUME IInv, FoundForReading
  PROVE  IInv'
<1>1. /\ op.pc = "found" /\ op' = Idle /\ UNCHANGED <<store, data, flag, vol, hurt, dirs>>
      /\ fp' = IF op.info = NotFound THEN Closed ELSE Handle(op.info, 0, IF op.call = "rw" THEN 1 ELSE 0)
  BY Zenon DEF FoundForReading, disk, history
<1>2. /\ fp' \in HandleType
      /\ fp'.open = 1 => op.info # NotFound /\ fp'.first = op.info.first /\ fp'.cur = op.info.first
  BY <1>1, FoundFacts, HandleTyped, NothingTyped
<1>3. CallTypes'
  BY <1>1, <1>2, NothingTyped, Zenon DEF CallTypes, Searching
<1>4. ASSUME "torn" \notin hurt PROVE Locals'
  BY <1>1, <1>2, <1>4, FoundFacts, NothingTyped, Zenon DEF Locals
<1>5. QED
  BY <1>1, <1>3, <1>4, FoundFacts, UnchangedTable, Quiet, Zenon

LEMMA FoundForAppendingStep ==
  ASSUME IInv, FoundForAppending
  PROVE  IInv'
<1>1. op.pc = "found" /\ UNCHANGED <<store, data, flag, vol, hurt, dirs>>
  BY Zenon DEF FoundForAppending, disk, history
<1>2. CASE op' = Again /\ UNCHANGED fp
  <2>1. CallTypes'
    BY <1>1, <1>2, FoundFacts, AgainTyped, ClusterFacts, Zenon DEF CallTypes, Searching
  <2>2. ASSUME "torn" \notin hurt PROVE Locals'
    BY <1>1, <1>2, <2>2, FoundFacts, AgainTyped, Zenon DEF IInv, TreeOf, Locals
  <2>3. QED
    BY <1>1, <2>1, <2>2, FoundFacts, UnchangedTable, Quiet, Zenon
<1>3. CASE /\ op.info # NotFound /\ fp' = Handle(op.info, op.info.size, 1)
           /\ op' = [op EXCEPT !.pc = "tail"]
  <2>1. op.info.size \in Int
    BY <1>1, FoundFacts, Zenon DEF InfoType
  <2>2. fp' \in HandleType /\ fp'.open = 1 /\ fp'.first = op.info.first /\ fp'.cur = op.info.first
    BY <1>1, <1>3, <2>1, FoundFacts, HandleTyped, Zenon
  <2>3. op' \in OpType /\ op'.pc = "tail"
    BY <1>1, <1>3, FoundFacts, Zenon DEF OpType
  <2>4. CallTypes'
    BY <2>2, <2>3, Zenon DEF CallTypes, Searching
  <2>5. ASSUME "torn" \notin hurt PROVE Locals'
    BY <1>1, <1>3, <2>2, <2>3, <2>5, FoundFacts, Zenon DEF Locals
  <2>6. QED
    BY <1>1, <2>4, <2>5, FoundFacts, UnchangedTable, Quiet, Zenon
<1>4. QED
  BY <1>2, <1>3, Zenon DEF FoundForAppending

LEMMA FoundForDeletingStep ==
  ASSUME IInv, FoundForDeleting
  PROVE  IInv'
<1>1. op.pc = "found" /\ UNCHANGED <<store, data, flag, vol, fp, hurt, dirs>>
  BY Zenon DEF FoundForDeleting, disk, history
<1>2. CASE /\ op.info # NotFound
           /\ op' = [op EXCEPT !.pc = IF op.info.first >= 2 THEN "free" ELSE "mark", !.cl = op.info.first]
  <2>1. /\ op' \in OpType /\ op'.pc \in {"free", "mark"} /\ op'.cl = op.info.first
        /\ op'.info = op.info /\ op'.name = op.name
    BY <1>1, <1>2, FoundFacts, Zenon DEF OpType
  <2>2. CallTypes'
    BY <1>1, <2>1, FoundFacts, Zenon DEF CallTypes, Searching
  <2>3. ASSUME "torn" \notin hurt PROVE Locals'
    BY <1>1, <1>2, <2>1, <2>3, FoundFacts DEF Locals, Alone
  <2>4. QED
    BY <1>1, <2>2, <2>3, FoundFacts, UnchangedTable, Quiet, Zenon
<1>3. CASE op' = Again
  <2>1. CallTypes'
    BY <1>1, <1>3, FoundFacts, AgainTyped, ClusterFacts, Zenon DEF CallTypes, Searching
  <2>2. ASSUME "torn" \notin hurt PROVE Locals'
    BY <1>1, <1>3, <2>2, FoundFacts, AgainTyped, Zenon DEF IInv, TreeOf, Locals
  <2>3. QED
    BY <1>1, <2>1, <2>2, FoundFacts, UnchangedTable, Quiet, Zenon
<1>4. CASE op' = Idle
  <2>1. CallTypes' /\ Locals'
    BY <1>1, <1>4, FoundFacts, NothingTyped DEF CallTypes, Searching, Locals
  <2>2. QED
    BY <1>1, <2>1, FoundFacts, UnchangedTable, Quiet, Zenon
<1>5. QED
  BY <1>2, <1>3, <1>4, Zenon DEF FoundForDeleting

LEMMA LastClusterStep ==
  ASSUME IInv, LastCluster
  PROVE  IInv'
<1> DEFINE c == fat32_next_cluster(store, fp.cur)
<1>1. /\ op.pc = "tail" /\ UNCHANGED <<data, flag, vol, hurt, dirs>>
      /\ store' = fat_read_entry(store, fp.cur)
      /\ op \in OpType /\ fp \in HandleType /\ fp.cur \in Cursor /\ StoreOK(store)
  BY Zenon DEF LastCluster, disk, history, IInv, Types, CallTypes, HandleType
<1>2. StoreOK(store') /\ \A d \in Cells : Entry(store', d) = Entry(store, d)
  BY <1>1, ClusterFacts, ReadOK, Zenon
<1>3. c \in Cursor /\ (TreeOf(store, dirs) /\ fp.cur \notin dirs => c \notin dirs)
  BY <1>1, NextOK, Zenon
<1>4. CASE op' = Idle /\ UNCHANGED fp
  <2>1. CallTypes'
    BY <1>1, <1>4, NothingTyped, Zenon DEF CallTypes, Searching
  <2>2. ASSUME "torn" \notin hurt PROVE Locals'
    BY <1>1, <1>4, <2>2, NothingTyped, Zenon DEF IInv, Locals
  <2>3. Doomed = 0
    BY <1>1, Zenon DEF Doomed
  <2>4. QED
    BY <1>1, <1>2, <2>1, <2>2, <2>3, Quiet, Zenon
<1>5. CASE fp' = [fp EXCEPT !.cur = c] /\ UNCHANGED op
  <2>1. fp' \in HandleType /\ fp'.cur = c /\ fp'.first = fp.first /\ fp'.open = fp.open
    BY <1>1, <1>3, <1>5, Zenon DEF HandleType
  <2>2. CallTypes'
    BY <1>1, <1>5, <2>1, Zenon DEF CallTypes, Searching
  <2>3. ASSUME "torn" \notin hurt PROVE Locals'
    BY <1>1, <1>3, <1>5, <2>1, <2>3 DEF IInv, Locals
  <2>4. Doomed = 0
    BY <1>1, Zenon DEF Doomed
  <2>5. QED
    BY <1>1, <1>2, <2>2, <2>3, <2>4, Quiet, Zenon
<1>6. QED
  BY <1>4, <1>5, Zenon DEF LastCluster

-----------------------------------------------------------------------------
(* Steps that change the shape. *)
LEMMA FreeChainStep ==
  ASSUME IInv, FreeChain
  PROVE  IInv'
<1> DEFINE c == Entry(store, op.cl)
<1>1. /\ op.pc = "free" /\ UNCHANGED <<data, flag, vol, fp, hurt, dirs>>
      /\ store' = fat_write_entry(store, op.cl, Free)
      /\ op' = IF c < 2 \/ c >= EOC THEN [op EXCEPT !.pc = "mark"] ELSE [op EXCEPT !.cl = c]
      /\ op \in OpType /\ op.cl \in Cursor /\ StoreOK(store) /\ op.cl \in Cells
  BY ClusterFacts, Zenon DEF FreeChain, disk, history, IInv, Types, CallTypes, OpType
<1>2. /\ StoreOK(store') /\ Entry(store', op.cl) = Free
      /\ \A d \in Cells : d # op.cl => Entry(store', d) = Entry(store, d)
  BY <1>1, WriteOK DEF Values
<1>3. c \in Values /\ (~(c < 2 \/ c >= EOC) => c \in Clusters)
  BY <1>1, EntryOK, FatAssumption DEF Values, Free, EOC, Clusters
<1>4. op' \in OpType /\ op'.pc \in {"free", "mark"} /\ op'.info = op.info /\ op'.name = op.name
      /\ (op'.pc = "free" => op'.cl = c /\ c \in Clusters)
  BY <1>1, <1>3 DEF OpType, Cursor
<1>5. Types'
  BY <1>1, <1>2, <1>4, Zenon DEF IInv, Types, CallTypes, Searching
<1>6. ASSUME "torn" \notin hurt
      PROVE  TreeOf(store', dirs') /\ EntriesOf(store', data', dirs', Doomed') /\ Locals'
  <2>1. Doomed = op.info.first /\ Doomed' = op.info.first
    BY <1>1, <1>4, Zenon DEF Doomed
  <2>2. /\ TreeOf(store, dirs) /\ EntriesOf(store, data, dirs, op.info.first)
        /\ Alone(store, dirs, op.cl) /\ (op.cl = op.info.first \/ Unnamed(data, dirs, op.cl))
    BY <1>1, <1>6, <2>1, Zenon DEF IInv, Locals
  <2>3. /\ TreeOf(store', dirs) /\ EntriesOf(store', data, dirs, op.info.first)
        /\ c \in Clusters => Alone(store', dirs, c) /\ Unnamed(data, dirs, c)
    BY <1>2, <2>2, FreeShape, Zenon
  <2>4. Locals'
    BY <1>1, <1>4, <1>6, <2>3, Zenon DEF IInv, Locals
  <2>5. QED
    BY <1>1, <2>1, <2>3, <2>4, Zenon
<1>7. QED
  BY <1>1, <1>5, <1>6, Zenon DEF IInv, Reported

LEMMA MarkStep ==
  ASSUME IInv, Mark
  PROVE  IInv'
<1>1. /\ op.pc = "mark" /\ UNCHANGED <<store, flag, vol, fp, hurt, dirs>>
      /\ data' = [data EXCEPT ![op.info.dcl][op.info.dof] = Gone]
      /\ op' = Again \/ op' = Idle
      /\ op \in OpType /\ op.name \in Names /\ fp.open = 0 /\ fp \in HandleType
      /\ data \in [Clusters -> [Units -> UnitType]]
  BY Zenon DEF Mark, IInv, Types, CallTypes, Searching
<1>2. data' \in [Clusters -> [Units -> UnitType]]
  <2>1. Gone \in UnitType
    BY DEF Gone, Unit, UnitType, MaybeName, Cursor
  <2>2. QED
    BY <1>1, <2>1, Zenon
<1>3. op' \in OpType /\ op'.pc \in {"find", "idle"} /\ (op'.pc = "find" => op'.name \in Names /\ op'.cl = Root)
  BY <1>1, AgainTyped, NothingTyped, Zenon
<1>4. Types'
  BY <1>1, <1>2, <1>3, ClusterFacts, Zenon DEF IInv, Types, CallTypes, Searching
<1>5. ASSUME "torn" \notin hurt
      PROVE  TreeOf(store', dirs') /\ EntriesOf(store', data', dirs', Doomed') /\ Locals'
  <2>1. Doomed = op.info.first /\ Doomed' = 0
    BY <1>1, <1>3, Zenon DEF Doomed
  <2>2. /\ TreeOf(store, dirs) /\ EntriesOf(store, data, dirs, op.info.first)
        /\ FileIn(data, dirs, op.info.dcl, op.info.dof)
        /\ data[op.info.dcl][op.info.dof].first = op.info.first
    BY <1>1, <1>5, <2>1, Zenon DEF IInv, Locals
  <2>3. /\ op.info.dcl \in dirs /\ op.info.dof \in Slots /\ op.info.dcl \in Clusters /\ op.info.dof \in Units
        /\ dirs \subseteq Clusters /\ Slots \subseteq Units
    BY <2>2, VolumeAssumption DEF FileIn, TreeOf, Slots, Units
  <2>4. Removed(data, data', dirs, op.info.dcl, op.info.dof)
    BY <1>1, <2>2, <2>3, Zenon DEF Removed, Gone, Unit
  <2>5. EntriesOf(store, data', dirs, 0)
    BY <2>2, <2>4, MarkShape
  <2>6. Locals'
    <3>1. fp'.open = 0 /\ Root \in dirs'
      BY <1>1, <2>2, Zenon DEF TreeOf
    <3>2. QED
      BY ONLY <1>3, <3>1 DEF Locals
  <2>7. QED
    BY <1>1, <2>1, <2>2, <2>5, <2>6, Zenon
<1>6. QED
  BY <1>1, <1>4, <1>5, Zenon DEF IInv, Reported

LEMMA CreatedTyped ==
  ASSUME op \in OpType, fp \in HandleType, fp.open = 0, NEW i \in InfoType, Created(i)
  PROVE  /\ op' = Idle /\ fp' \in HandleType
         /\ fp'.open = 1 => fp'.first = i.first /\ fp'.cur = i.first
<1>1. CASE fp' = fp
  BY <1>1 DEF Created
<1>2. CASE fp' = Handle([i EXCEPT !.size = 0], 0, 1)
  <2> DEFINE j == [i EXCEPT !.size = 0]
  <2>1. j \in InfoType /\ j.first = i.first
    BY DEF InfoType
  <2> HIDE DEF j
  <2>2. /\ Handle(j, 0, 1) \in HandleType /\ Handle(j, 0, 1).first = j.first
        /\ Handle(j, 0, 1).cur = j.first
    BY <2>1, HandleTyped
  <2>3. QED
    BY <1>2, <2>1, <2>2, Zenon DEF Created, j
<1>3. QED
  BY <1>1, <1>2, Zenon DEF Created

LEMMA FoundForCreatingStep ==
  ASSUME IInv, FoundForCreating
  PROVE  IInv'
<1>1. op.pc = "found" /\ UNCHANGED <<data, flag, vol, hurt, dirs>>
  BY Zenon DEF FoundForCreating, disk, history
<1>2. CASE op.info # NotFound /\ Created(op.info) /\ UNCHANGED store
  <2>1. /\ op' = Idle /\ fp' \in HandleType
        /\ fp'.open = 1 => fp'.first = op.info.first /\ fp'.cur = op.info.first
    BY <1>1, <1>2, FoundFacts, CreatedTyped, Zenon
  <2>2. CallTypes'
    BY <2>1, NothingTyped, Zenon DEF CallTypes, Searching
  <2>3. ASSUME "torn" \notin hurt PROVE Locals'
    <3>1. op'.pc = "idle"
      BY <2>1, NothingTyped, Zenon
    <3>2. fp'.open = 1 => fp'.first \notin dirs' /\ fp'.cur \notin dirs'
      BY <1>1, <1>2, <2>1, <2>3, FoundFacts, Zenon
    <3>3. QED
      BY ONLY <3>1, <3>2, Zenon DEF Locals
  <2>4. QED
    BY <1>1, <1>2, <2>2, <2>3, FoundFacts, UnchangedTable, Quiet, Zenon
<1>3. CASE store' = ScannedAll(store) /\ op' = Idle /\ UNCHANGED fp
  <2>1. StoreOK(store') /\ \A d \in Cells : Entry(store', d) = Entry(store, d)
    BY <1>1, <1>3, FoundFacts, ScanOK, ClusterFacts, Zenon
  <2>2. /\ op' = Idle /\ op'.pc = "idle" /\ op' \in OpType
        /\ fp' \in HandleType /\ fp'.open = 0
    BY <1>1, <1>3, FoundFacts, NothingTyped, Zenon
  <2>3. CallTypes'
    BY <2>2, Zenon DEF CallTypes, Searching
  <2>4. Locals'
    BY ONLY <2>2 DEF Locals
  <2>5. QED
    BY <1>1, <2>1, <2>3, <2>4, FoundFacts, Quiet, Zenon
<1>4. CASE \E c \in Clusters :
          /\ op.info = NotFound /\ FirstFree(store, c)
          /\ store' = Allocated(store, c)
          /\ op' = [op EXCEPT !.pc = "slot", !.cl = Root, !.new = c]
          /\ UNCHANGED fp
  <2>1. PICK c \in Clusters :
          /\ FirstFree(store, c) /\ store' = Allocated(store, c)
          /\ op' = [op EXCEPT !.pc = "slot", !.cl = Root, !.new = c] /\ UNCHANGED fp
    BY <1>4, Zenon
  <2>2. /\ StoreOK(store') /\ Entry(store', c) = EOC
        /\ \A d \in Cells : d # c => Entry(store', d) = Entry(store, d)
    BY <1>1, <2>1, FoundFacts, AllocatedOK, ClusterFacts
  <2>3. op' \in OpType /\ op'.pc = "slot" /\ op'.cl = Root /\ op'.new = c /\ op'.name = op.name
    BY <1>1, <2>1, FoundFacts, ClusterFacts, Zenon DEF OpType, Cursor
  <2>4. Types'
    BY <1>1, <2>1, <2>2, <2>3, FoundFacts, ClusterFacts, Zenon DEF IInv, Types, CallTypes, Searching
  <2>5. ASSUME "torn" \notin hurt
        PROVE  TreeOf(store', dirs') /\ EntriesOf(store', data', dirs', Doomed') /\ Locals'
    <3>1. Doomed' = 0
      BY <2>3, Zenon DEF Doomed
    <3>2. TreeOf(store, dirs) /\ EntriesOf(store, data, dirs, 0) /\ Entry(store, c) = Free
      BY <1>1, <2>1, <2>5, FoundFacts, Zenon DEF IInv, FirstFree
    <3>3. /\ TreeOf(store', dirs) /\ EntriesOf(store', data, dirs, 0)
          /\ Alone(store', dirs, c) /\ Unnamed(data, dirs, c)
      BY <2>2, <3>2, AllocShape, Zenon
    <3>4. Locals'
      BY <1>1, <2>1, <2>3, <3>3, FoundFacts DEF Locals, TreeOf
    <3>5. QED
      BY <1>1, <3>1, <3>3, <3>4, Zenon
  <2>6. QED
    BY <1>1, <2>4, <2>5, Zenon DEF IInv, Reported
<1>5. QED
  BY <1>2, <1>3, <1>4, Zenon DEF FoundForCreating

(* What is known while create looks for a slot. *)
LEMMA SlotFacts ==
  ASSUME IInv, op.pc = "slot"
  PROVE  /\ op \in OpType /\ fp \in HandleType /\ op.name \in Names /\ fp.open = 0 /\ StoreOK(store)
         /\ op.cl \in Clusters /\ op.cl \in Cursor /\ op.new \in Cursor /\ Doomed = 0
         /\ data \in [Clusters -> [Units -> UnitType]] /\ Slots \subseteq Units
         /\ "torn" \notin hurt =>
              /\ TreeOf(store, dirs) /\ EntriesOf(store, data, dirs, 0) /\ op.cl \in dirs
              /\ Alone(store, dirs, op.new) /\ Unnamed(data, dirs, op.new)
<1>1. /\ op \in OpType /\ fp \in HandleType /\ op.name \in Names /\ fp.open = 0 /\ StoreOK(store)
      /\ op.cl \in Clusters /\ data \in [Clusters -> [Units -> UnitType]]
  BY Zenon DEF IInv, Types, CallTypes, Searching
<1>2. op.cl \in Cursor /\ op.new \in Cursor
  BY <1>1, Zenon DEF OpType
<1>3. Doomed = 0
  BY Zenon DEF Doomed
<1>4. Slots \subseteq Units
  BY VolumeAssumption DEF Slots, Units
<1>5. QED
  BY <1>1, <1>2, <1>3, <1>4, Zenon DEF IInv, Locals

LEMMA SlotStep ==
  ASSUME IInv, Slot
  PROVE  IInv'
<1>1. op.pc = "slot" /\ UNCHANGED <<store, flag, vol, hurt, dirs>>
  BY Zenon DEF Slot
<1>2. PICK u \in Slots :
       /\ RunAt(op.cl, u)
       /\ LET e == u + LfnEntries[op.name] IN
          /\ data' = [data EXCEPT ![op.cl] = [w \in Units |->
               IF w \in u .. (e - 1) THEN Unit("lfn", op.name, 0, 0)
               ELSE IF w = e THEN Unit("file", op.name, op.new, 0) ELSE @[w]]]
          /\ Created([first |-> op.new, size |-> 0, dcl |-> op.cl, dof |-> e])
  BY Zenon DEF Slot
<1> DEFINE e == u + LfnEntries[op.name]
           i == [first |-> op.new, size |-> 0, dcl |-> op.cl, dof |-> e]
           new == [w \in Units |-> IF w \in u .. (e - 1) THEN Unit("lfn", op.name, 0, 0)
                                   ELSE IF w = e THEN Unit("file", op.name, op.new, 0) ELSE data[op.cl][w]]
<1>3. e \in Slots /\ e \in Units
  <2>1. LfnEntries[op.name] \in Nat
    BY <1>1, SlotFacts, VolumeAssumption, Zenon
  <2>2. QED
    BY <1>2, <2>1, VolumeAssumption DEF RunAt, Slots, Units
<1>4. i \in InfoType /\ i.first = op.new
  BY <1>1, <1>3, SlotFacts DEF InfoType
<1>5. /\ op' = Idle /\ fp' \in HandleType
      /\ fp'.open = 1 => fp'.first = op.new /\ fp'.cur = op.new
  <2>1. Created(i)
    BY <1>2, Zenon
  <2> HIDE DEF i
  <2>2. QED
    BY <1>1, <1>4, <2>1, SlotFacts, CreatedTyped, Zenon
<1>6. data' = [data EXCEPT ![op.cl] = new]
  BY <1>2, Zenon
<1>7. new \in [Units -> UnitType]
  <2>1. ASSUME NEW w \in Units PROVE data[op.cl][w] \in UnitType
    BY <1>1, SlotFacts, Zenon
  <2>2. Unit("lfn", op.name, 0, 0) \in UnitType /\ Unit("file", op.name, op.new, 0) \in UnitType
    BY <1>1, SlotFacts DEF Unit, UnitType, MaybeName, Cursor
  <2>3. QED
    BY <2>1, <2>2, Zenon
<1>8. \A w \in Units : /\ w = e => new[w].first = op.new
                       /\ w # e /\ new[w].kind = "file" => new[w] = data[op.cl][w]
  <2>1. e \notin u .. (e - 1)
    BY <1>3 DEF Slots
  <2>2. QED
    BY <2>1, Zenon DEF Unit
<1> HIDE DEF new, e, i
<1>9. data' \in [Clusters -> [Units -> UnitType]]
  BY <1>1, <1>6, <1>7, SlotFacts, Zenon
<1>10. Types'
  BY <1>1, <1>5, <1>9, NothingTyped, Zenon DEF IInv, Types, CallTypes, Searching
<1>11. ASSUME "torn" \notin hurt
       PROVE  TreeOf(store', dirs') /\ EntriesOf(store', data', dirs', Doomed') /\ Locals'
  <2>1. Added(data, data', dirs, op.cl, e, op.new)
    <3>1. data'[op.cl] = new /\ \A d \in dirs : d # op.cl => data'[d] = data[d]
      BY <1>1, <1>6, <1>11, SlotFacts, Zenon DEF TreeOf
    <3>2. QED
      BY <1>1, <1>3, <1>8, <1>11, <3>1, SlotFacts, Zenon DEF Added, FileIn
  <2>2. EntriesOf(store, data', dirs, 0)
    BY <1>1, <1>11, <2>1, SlotFacts, SlotShape, Zenon
  <2>3. Doomed' = 0
    BY <1>5, NothingTyped, Zenon DEF Doomed
  <2>4. Locals'
    BY <1>1, <1>5, <1>11, SlotFacts, NothingTyped, Zenon DEF Locals, Alone
  <2>5. QED
    BY <1>1, <1>11, <2>2, <2>3, <2>4, SlotFacts, Zenon
<1>12. QED
  BY <1>1, <1>10, <1>11, Zenon DEF IInv, Reported

LEMMA NextSlotsStep ==
  ASSUME IInv, NextSlots
  PROVE  IInv'
<1> DEFINE c == fat32_next_cluster(store, op.cl)
           f == fat_read_entry(store, op.cl)
<1>1. op.pc = "slot" /\ UNCHANGED <<flag, vol, fp>>
  BY Zenon DEF NextSlots
<1>2. StoreOK(f) /\ \A d \in Cells : Entry(f, d) = Entry(store, d)
  BY <1>1, SlotFacts, ClusterFacts, ReadOK, Zenon
<1>3. /\ c \in Cursor /\ (c # 0 => c \in Clusters)
      /\ TreeOf(store, dirs) /\ op.cl \in dirs /\ c # 0 => c \in dirs
  BY <1>1, SlotFacts, NextOK
<1>4. CASE c # 0 /\ store' = f /\ op' = [op EXCEPT !.cl = c] /\ UNCHANGED <<data, hurt, dirs>>
  <2>1. op' \in OpType /\ op'.pc = "slot" /\ op'.cl = c /\ op'.new = op.new /\ op'.name = op.name
    BY <1>1, <1>3, <1>4, SlotFacts, Zenon DEF OpType
  <2>2. CallTypes'
    BY <1>1, <1>3, <1>4, <2>1, SlotFacts, Zenon DEF CallTypes, Searching
  <2>3. ASSUME "torn" \notin hurt PROVE Locals'
    <3>1. Alone(store', dirs, op.new)
      BY <1>1, <1>2, <1>4, <2>3, SlotFacts, SameShape, Zenon
    <3>2. QED
      BY <1>1, <1>3, <1>4, <2>1, <2>3, <3>1, SlotFacts DEF Locals
  <2>4. QED
    BY <1>1, <1>2, <1>4, <2>2, <2>3, SlotFacts, Quiet, Zenon
<1>5. CASE store' = ScannedAll(f) /\ op' = Idle /\ hurt' = hurt \cup {"full"} /\ UNCHANGED <<data, dirs>>
  <2>1. StoreOK(store') /\ \A d \in Cells : Entry(store', d) = Entry(store, d)
    <3> HIDE DEF f
    <3>1. QED
      BY <1>2, <1>5, ScanOK, ClusterFacts, Zenon
  <2>2. op' \in OpType /\ op'.pc = "idle" /\ fp' \in HandleType /\ fp'.open = 0
    BY <1>1, <1>5, SlotFacts, NothingTyped, Zenon
  <2>3. CallTypes' /\ Locals'
    BY ONLY <2>2 DEF CallTypes, Searching, Locals
  <2>4. QED
    BY <1>1, <1>5, <2>1, <2>3, SlotFacts, Quiet, Zenon
<1>6. CASE \E d \in Clusters :
          /\ c = 0 /\ FirstFree(f, d)
          /\ store' = fat_write_entry(fat_write_entry(Allocated(f, d), op.cl, d), d, EOC)
          /\ data' = [data EXCEPT ![d] = Blank]
          /\ op' = [op EXCEPT !.cl = d] /\ dirs' = dirs \cup {d}
          /\ UNCHANGED hurt
  <2>1. PICK d \in Clusters :
          /\ Entry(f, d) = Free
          /\ store' = fat_write_entry(fat_write_entry(Allocated(f, d), op.cl, d), d, EOC)
          /\ data' = [data EXCEPT ![d] = Blank]
          /\ op' = [op EXCEPT !.cl = d] /\ dirs' = dirs \cup {d}
          /\ UNCHANGED hurt
    BY <1>6, Zenon DEF FirstFree
  <2> HIDE DEF f
  <2>2. /\ StoreOK(store') /\ Entry(store', d) = EOC /\ (op.cl # d => Entry(store', op.cl) = d)
        /\ \A b \in Cells : b # op.cl /\ b # d => Entry(store', b) = Entry(f, b)
    <3> DEFINE g == fat_write_entry(fat_write_entry(Allocated(f, d), op.cl, d), d, EOC)
    <3>1. op.cl \in Cells
      BY <1>1, SlotFacts, ClusterFacts, Zenon
    <3>2. /\ StoreOK(g) /\ Entry(g, d) = EOC /\ (op.cl # d => Entry(g, op.cl) = d)
          /\ \A b \in Cells : b # op.cl /\ b # d => Entry(g, b) = Entry(f, b)
      BY <1>2, <3>1, LinkedOK
    <3>3. store' = g
      BY <2>1, Zenon
    <3> HIDE DEF g
    <3>4. QED
      BY <3>2, <3>3, Zenon
  <2>3. op' \in OpType /\ op'.pc = "slot" /\ op'.cl = d /\ op'.new = op.new /\ op'.name = op.name
    BY <1>1, <2>1, SlotFacts, Zenon DEF OpType, Cursor
  <2>4. data' \in [Clusters -> [Units -> UnitType]]
    <3>1. Blank \in [Units -> UnitType]
      BY DEF Blank, End, Unit, UnitType, MaybeName, Cursor
    <3>2. QED
      BY <1>1, <2>1, <3>1, SlotFacts, Zenon
  <2>5. Types'
    BY <1>1, <2>1, <2>2, <2>3, <2>4, SlotFacts DEF IInv, Types, CallTypes, Searching
  <2>6. ASSUME "torn" \notin hurt
        PROVE  TreeOf(store', dirs') /\ EntriesOf(store', data', dirs', Doomed') /\ Locals'
    <3>1. /\ TreeOf(f, dirs) /\ EntriesOf(f, data, dirs, 0) /\ op.cl \in dirs
          /\ Alone(f, dirs, op.new) /\ Unnamed(data, dirs, op.new)
      BY <1>1, <1>2, <2>6, SlotFacts, SameShape, Zenon
    <3>2. op.cl # d
      BY <2>1, <3>1, Zenon DEF TreeOf
    <3>3. Grown(data, data', dirs, d)
      BY <1>1, <2>1, <3>1, SlotFacts, Zenon DEF Grown, TreeOf, Blank, End, Unit
    <3>4. /\ TreeOf(store', dirs \cup {d}) /\ EntriesOf(store', data', dirs \cup {d}, 0)
          /\ Alone(store', dirs \cup {d}, op.new) /\ Unnamed(data', dirs \cup {d}, op.new)
      BY <2>1, <2>2, <3>1, <3>2, <3>3, GrowShape
    <3>5. Locals'
      BY <1>1, <2>1, <2>3, <3>4, SlotFacts DEF Locals
    <3>6. Doomed' = 0
      BY <2>3, Zenon DEF Doomed
    <3>7. QED
      BY <2>1, <3>4, <3>5, <3>6, Zenon
  <2>7. QED
    BY <1>1, <2>1, <2>5, <2>6, Zenon DEF IInv, Reported
<1>7. QED
  BY <1>4, <1>5, <1>6, Zenon DEF NextSlots

(* What is known of an open handle and of the loops that use it. *)
Using == op.pc \in {"before", "write", "read", "seek"}

LEMMA HandleFacts ==
  ASSUME IInv, Using \/ (op.pc = "idle" /\ fp.open = 1)
  PROVE  /\ op \in OpType /\ fp \in HandleType /\ StoreOK(store) /\ Doomed = 0
         /\ op.cl \in Cursor /\ op.prev \in Cursor /\ op.left \in Int
         /\ fp.first \in Cursor /\ fp.cur \in Cursor /\ fp.pos \in Int /\ fp.size \in Int
         /\ data \in [Clusters -> [Units -> UnitType]] /\ 0 \notin dirs
         /\ "torn" \notin hurt =>
              /\ TreeOf(store, dirs) /\ EntriesOf(store, data, dirs, 0) /\ fp.open = 1
              /\ fp.first \notin dirs /\ fp.cur \notin dirs
              /\ Using => op.cl \notin dirs /\ op.prev \notin dirs
<1>1. /\ op \in OpType /\ fp \in HandleType /\ StoreOK(store) /\ dirs \subseteq Clusters
      /\ data \in [Clusters -> [Units -> UnitType]]
  BY Zenon DEF IInv, Types, CallTypes
<1>2. /\ op.cl \in Cursor /\ op.prev \in Cursor /\ op.left \in Int
      /\ fp.first \in Cursor /\ fp.cur \in Cursor /\ fp.pos \in Int /\ fp.size \in Int
  BY <1>1, Zenon DEF OpType, HandleType
<1>3. Doomed = 0
  BY Zenon DEF Doomed, Using
<1>4. QED
  BY <1>1, <1>2, <1>3, ClusterFacts, Zenon DEF IInv, Locals, Using

LEMMA BusyTyped ==
  ASSUME NEW pc \in {"before", "write", "read", "seek"}, NEW c \in Cursor, NEW n \in Int
  PROVE  /\ Busy(pc, c, n) \in OpType /\ Busy(pc, c, n).pc = pc /\ Busy(pc, c, n).cl = c
         /\ Busy(pc, c, n).prev = 0
<1>1. Idle.prev = 0
  BY Zenon DEF Idle
<1>2. QED
  BY <1>1, NothingTyped, Zenon DEF Busy, OpType

(* A step that keeps the volume, in or into a loop over a handle. *)
LEMMA HandleStep ==
  ASSUME IInv, Using \/ (op.pc = "idle" /\ fp.open = 1),
         StoreOK(store'), \A c \in Cells : Entry(store', c) = Entry(store, c),
         UNCHANGED <<flag, vol, dirs>>, data' = data \/ Rewritten,
         "torn" \in hurt' <=> "torn" \in hurt, "hidden" \in hurt' <=> "hidden" \in hurt,
         op' \in OpType, op'.pc \in {"idle", "before", "write", "read", "seek"},
         fp' \in HandleType, fp'.open = fp.open, fp'.first = fp.first,
         "torn" \notin hurt => fp'.cur \notin dirs /\ (op'.pc # "idle" => op'.cl \notin dirs /\ op'.prev \notin dirs)
  PROVE  IInv'
<1>1. CallTypes'
  BY Zenon DEF CallTypes, Searching
<1>2. ASSUME "torn" \notin hurt PROVE Locals'
  BY <1>2, HandleFacts, Zenon DEF Locals
<1>3. QED
  BY <1>1, <1>2, HandleFacts, Quiet, Zenon

LEMMA WriteCallStep ==
  ASSUME IInv, NEW n \in WriteSizes, fat32_write(n)
  PROVE  IInv'
<1>1. /\ op.pc = "idle" /\ fp.open = 1 /\ UNCHANGED <<store, data, flag, vol, fp, dirs>> /\ n \in Int
      /\ hurt' = hurt \/ hurt' = hurt \cup {"end"}
  BY VolumeAssumption DEF fat32_write, Ready, disk
<1>2. CASE op' = [Busy("before", fp.first, n) EXCEPT !.prev = fp.first]
  <2>1. op' \in OpType /\ op'.pc = "before" /\ op'.cl = fp.first /\ op'.prev = fp.first
    BY <1>1, <1>2, BusyTyped, HandleFacts DEF OpType
  <2>2. QED
    BY <1>1, <2>1, UnchangedTable, HandleFacts, HandleStep, Zenon
<1>3. CASE op' = [Busy("write", fp.cur, n) EXCEPT !.prev = IF fp.cur >= 2 THEN fp.first ELSE 0]
  <2>1. /\ op' \in OpType /\ op'.pc = "write" /\ op'.cl = fp.cur
        /\ op'.prev = fp.first \/ op'.prev = 0
    <3>1. fp.first \in Cursor /\ fp.cur \in Cursor /\ 0 \in Cursor
      BY <1>1, HandleFacts, Zenon DEF Cursor
    <3>2. /\ Busy("write", fp.cur, n) \in OpType /\ Busy("write", fp.cur, n).pc = "write"
          /\ Busy("write", fp.cur, n).cl = fp.cur
      BY <1>1, <3>1, BusyTyped
    <3>3. QED
      BY <1>3, <3>1, <3>2, Zenon DEF OpType
  <2>2. QED
    BY <1>1, <2>1, UnchangedTable, HandleFacts, HandleStep, Zenon
<1>4. QED
  BY <1>2, <1>3, Zenon DEF fat32_write

LEMMA BeforeStep ==
  ASSUME IInv, Before
  PROVE  IInv'
<1> DEFINE c == fat32_next_cluster(store, op.cl)
<1>1. op.pc = "before" /\ Using /\ UNCHANGED <<data, flag, vol, fp, hurt, dirs>> /\ store' = fat_read_entry(store, op.cl)
  BY Zenon DEF Before, disk, history, Using
<1>2. StoreOK(store') /\ \A d \in Cells : Entry(store', d) = Entry(store, d)
  BY <1>1, HandleFacts, ClusterFacts, ReadOK, Zenon
<1>3. c \in Cursor /\ (TreeOf(store, dirs) /\ op.cl \notin dirs => c \notin dirs)
  BY <1>1, HandleFacts, NextOK, Zenon
<1>4. CASE op' = [op EXCEPT !.pc = "write", !.cl = fp.cur]
  <2>1. op' \in OpType /\ op'.pc = "write" /\ op'.cl = fp.cur /\ op'.prev = op.prev
    BY <1>1, <1>4, HandleFacts, Zenon DEF OpType
  <2>2. QED
    BY <1>1, <1>2, <2>1, HandleFacts, HandleStep, Zenon
<1>5. CASE op' = [op EXCEPT !.prev = op.cl, !.cl = c]
  <2>1. op' \in OpType /\ op'.pc = "before" /\ op'.cl = c /\ op'.prev = op.cl
    BY <1>1, <1>3, <1>5, HandleFacts, Zenon DEF OpType
  <2>2. QED
    BY <1>1, <1>2, <1>3, <2>1, HandleFacts, HandleStep, Zenon
<1>6. QED
  BY <1>4, <1>5, Zenon DEF Before

LEMMA ExtendStep ==
  ASSUME IInv, Extend
  PROVE  IInv'
<1>1. op.pc = "write" /\ Using /\ UNCHANGED <<data, flag, vol, hurt, dirs>>
  BY Zenon DEF Extend, disk, history, Using
<1>2. CASE store' = ScannedAll(store) /\ op' = Idle /\ UNCHANGED fp
  <2>1. StoreOK(store') /\ \A d \in Cells : Entry(store', d) = Entry(store, d)
    BY <1>1, <1>2, HandleFacts, ScanOK, ClusterFacts, Zenon
  <2>2. QED
    BY <1>1, <1>2, <2>1, NothingTyped, HandleFacts, HandleStep, Zenon
<1>3. CASE \E c \in Clusters :
          /\ FirstFree(store, c)
          /\ LET f == Allocated(store, c)
                 g == IF op.prev >= 2 THEN fat_write_entry(f, op.prev, c) ELSE f IN
               store' = fat_write_entry(g, c, EOC)
          /\ op' = [op EXCEPT !.cl = c] /\ fp' = [fp EXCEPT !.cur = c]
  <2>1. PICK c \in Clusters :
          /\ Entry(store, c) = Free
          /\ LET f == Allocated(store, c)
                 g == IF op.prev >= 2 THEN fat_write_entry(f, op.prev, c) ELSE f IN
               store' = fat_write_entry(g, c, EOC)
          /\ op' = [op EXCEPT !.cl = c] /\ fp' = [fp EXCEPT !.cur = c]
    BY <1>3, Zenon DEF FirstFree
  <2>2. /\ StoreOK(store') /\ Entry(store', c) = EOC
        /\ \/ \A d \in Cells : d # c => Entry(store', d) = Entry(store, d)
           \/ /\ op.prev \in Clusters /\ op.prev # c /\ Entry(store', op.prev) = c
              /\ \A d \in Cells : d # op.prev /\ d # c => Entry(store', d) = Entry(store, d)
    <3>1. CASE op.prev >= 2
      <4> DEFINE h == fat_write_entry(fat_write_entry(Allocated(store, c), op.prev, c), c, EOC)
      <4>1. op.prev \in Clusters /\ op.prev \in Cells
        BY <1>1, <3>1, HandleFacts, ClusterFacts, Zenon
      <4>2. /\ StoreOK(h) /\ Entry(h, c) = EOC /\ (op.prev # c => Entry(h, op.prev) = c)
            /\ \A d \in Cells : d # op.prev /\ d # c => Entry(h, d) = Entry(store, d)
        BY <1>1, <4>1, HandleFacts, LinkedOK
      <4>3. store' = h
        BY <2>1, <3>1, Zenon
      <4> HIDE DEF h
      <4>4. QED
        BY <4>1, <4>2, <4>3, Zenon
    <3>2. CASE ~(op.prev >= 2)
      <4> DEFINE f == Allocated(store, c)
      <4>1. c \in Cells /\ EOC \in Values
        BY ClusterFacts, Zenon DEF Values
      <4>2. StoreOK(f) /\ \A d \in Cells : d # c => Entry(f, d) = Entry(store, d)
        BY <1>1, <4>1, HandleFacts, AllocatedOK, Zenon
      <4>3. store' = fat_write_entry(f, c, EOC)
        BY <2>1, <3>2, Zenon
      <4> HIDE DEF f
      <4>4. QED
        BY <4>1, <4>2, <4>3, WriteOK
    <3>3. QED
      BY <3>1, <3>2, Zenon
  <2>3. op' \in OpType /\ op'.pc = "write" /\ op'.cl = c /\ op'.prev = op.prev
    BY <1>1, <2>1, HandleFacts, Zenon DEF OpType, Cursor
  <2>4. fp' \in HandleType /\ fp'.cur = c /\ fp'.open = fp.open /\ fp'.first = fp.first
    BY <1>1, <2>1, HandleFacts, Zenon DEF HandleType, Cursor
  <2>5. Types'
    BY <1>1, <2>2, <2>3, <2>4, Zenon DEF IInv, Types, CallTypes, Searching
  <2>6. ASSUME "torn" \notin hurt
        PROVE  TreeOf(store', dirs') /\ EntriesOf(store', data', dirs', Doomed') /\ Locals'
    <3>1. /\ TreeOf(store, dirs) /\ EntriesOf(store, data, dirs, 0) /\ op.prev \notin dirs /\ fp.open = 1
          /\ fp.first \notin dirs
      BY <1>1, <2>6, HandleFacts, Zenon
    <3>2. c \notin dirs /\ TreeOf(store', dirs) /\ EntriesOf(store', data, dirs, 0)
      <4>1. CASE \A d \in Cells : d # c => Entry(store', d) = Entry(store, d)
        BY <2>1, <2>2, <3>1, <4>1, AllocShape DEF Alone
      <4>2. CASE /\ op.prev \in Clusters /\ op.prev # c /\ Entry(store', op.prev) = c
                 /\ \A d \in Cells : d # op.prev /\ d # c => Entry(store', d) = Entry(store, d)
        BY <2>1, <2>2, <3>1, <4>2, LinkShape
      <4>3. QED
        BY <2>2, <4>1, <4>2
    <3>3. Locals'
      BY <1>1, <2>3, <2>4, <3>1, <3>2, Zenon DEF Locals
    <3>4. Doomed' = 0
      BY <2>3, Zenon DEF Doomed
    <3>5. QED
      BY <1>1, <3>2, <3>3, <3>4, Zenon
  <2>7. QED
    BY <1>1, <2>5, <2>6, Zenon DEF IInv, Reported
<1>4. QED
  BY <1>2, <1>3, Zenon DEF Extend

LEMMA PieceInt ==
  ASSUME fp.pos \in Int, op.left \in Int
  PROVE  Piece \in Int
  BY VolumeAssumption DEF Piece

(* The end of a turn of the loops of read and write. *)
LEMMA TurnStep ==
  ASSUME IInv, op.pc \in {"read", "write"}, NEW h \in HandleType, h.open = fp.open, h.first = fp.first,
         h.cur = fp.cur, Step(h), UNCHANGED <<flag, vol, hurt, dirs>>, data' = data \/ Rewritten
  PROVE  IInv'
<1> DEFINE c == fat32_next_cluster(store, op.cl)
<1>1. Using
  BY Zenon DEF Using
<1>2. op.left - Piece \in Int
  BY <1>1, HandleFacts, PieceInt
<1>3. c \in Cursor /\ (TreeOf(store, dirs) /\ op.cl \notin dirs => c \notin dirs)
  BY <1>1, HandleFacts, NextOK, Zenon
<1>4. CASE AtEdge
  <2>1. StoreOK(store') /\ \A d \in Cells : Entry(store', d) = Entry(store, d)
    BY <1>1, <1>4, HandleFacts, ClusterFacts, ReadOK DEF Step
  <2>2. op' \in OpType /\ op'.pc = op.pc /\ op'.prev = op.cl /\ op'.cl = c
    <3>1. op' = [op EXCEPT !.left = @ - Piece, !.prev = op.cl, !.cl = c]
      BY <1>4, Zenon DEF Step
    <3>2. op \in OpType /\ op.cl \in Cursor
      BY <1>1, HandleFacts, Zenon
    <3> HIDE DEF c
    <3>3. QED
      BY ONLY <1>2, <1>3, <3>1, <3>2, Zenon DEF OpType
  <2>3. fp' \in HandleType /\ fp'.cur = c /\ fp'.open = fp.open /\ fp'.first = fp.first
    BY <1>3, <1>4 DEF Step, HandleType
  <2>4. QED
    BY <1>1, <1>3, <2>1, <2>2, <2>3, HandleFacts, HandleStep, Zenon
<1>5. CASE ~AtEdge
  <2>1. op' \in OpType /\ op'.pc = op.pc /\ op'.prev = op.prev /\ op'.cl = op.cl
    BY <1>1, <1>2, <1>5, HandleFacts DEF Step, OpType
  <2>2. fp' = h /\ UNCHANGED store
    BY <1>5, Zenon DEF Step
  <2>3. QED
    BY <1>1, <2>1, <2>2, HandleFacts, UnchangedTable, HandleStep, Zenon
<1>6. QED
  BY <1>4, <1>5, Zenon

LEMMA WriteStep ==
  ASSUME IInv, Write
  PROVE  IInv'
<1> DEFINE o == fp.pos % ClusterSize
           to == fp.pos + Piece
           new == [u \in Units |-> IF u \in (o + 1) .. (o + Piece)
                                   THEN Byte(fp.name, fp.pos + (u - 1 - o)) ELSE data[op.cl][u]]
           h == [Advanced EXCEPT !.size = IF to > @ THEN to ELSE @]
<1>1. op.pc = "write" /\ Using /\ op.cl >= 2 /\ UNCHANGED <<flag, vol, hurt, dirs>>
      /\ data' = [data EXCEPT ![op.cl] = new] /\ Step(h)
  BY Zenon DEF Write, Using
<1>2. op.cl \in Clusters /\ fp.pos \in Int /\ Piece \in Int /\ fp \in HandleType
  BY <1>1, HandleFacts, PieceInt, ClusterFacts, Zenon
<1>3. o \in Int
  BY <1>2, VolumeAssumption
<1>4. Rewritten
  <2>1. new \in [Units -> UnitType]
    <3>1. ASSUME NEW u \in Units PROVE data[op.cl][u] \in UnitType
      BY <1>1, <1>2, HandleFacts, Zenon
    <3>2. ASSUME NEW u \in Units PROVE Byte(fp.name, fp.pos + (u - 1 - o)) \in UnitType
      <4>1. fp.pos + (u - 1 - o) \in Int /\ fp.name \in MaybeName
        BY <1>2, <1>3, VolumeAssumption DEF Units, HandleType
      <4> HIDE DEF o
      <4>2. QED
        BY <4>1, Zenon DEF Byte, Unit, UnitType, Cursor
    <3> HIDE DEF o
    <3>3. QED
      BY <3>1, <3>2, Zenon
  <2> HIDE DEF new
  <2>2. data' \in [Clusters -> [Units -> UnitType]]
    BY <1>1, <1>2, <2>1, HandleFacts, Zenon
  <2>3. ASSUME "torn" \notin hurt PROVE Alike(data, data', dirs)
    <3>1. op.cl \notin dirs /\ dirs \subseteq Clusters
      BY <1>1, <2>3, HandleFacts, Zenon DEF TreeOf
    <3>2. \A d \in dirs : data'[d] = data[d]
      BY <1>1, <1>2, <3>1, HandleFacts, Zenon
    <3>3. QED
      BY <3>2, Zenon DEF Alike
  <2>4. QED
    BY <2>2, <2>3, Zenon DEF Rewritten
<1>5. h \in HandleType /\ h.open = fp.open /\ h.first = fp.first /\ h.cur = fp.cur
  <2>1. to \in Int
    BY <1>2
  <2>2. QED
    BY <1>2, <2>1, Zenon DEF Advanced, HandleType
<1> HIDE DEF h, new
<1>6. QED
  BY <1>1, <1>4, <1>5, TurnStep, Zenon

LEMMA ReadCallStep ==
  ASSUME IInv, NEW n \in WriteSizes, fat32_read(n)
  PROVE  IInv'
<1> DEFINE most == fp.size - fp.pos
           m == IF n > most THEN most ELSE n
<1>1. /\ op.pc = "idle" /\ fp.open = 1 /\ UNCHANGED <<store, data, flag, vol, fp, hurt, dirs>>
      /\ op' = Busy("read", fp.cur, m)
  BY Zenon DEF fat32_read, Ready, disk, history
<1>2. m \in Int
  BY <1>1, HandleFacts, VolumeAssumption
<1> HIDE DEF m
<1>3. op' \in OpType /\ op'.pc = "read" /\ op'.cl = fp.cur /\ op'.prev = 0
  BY <1>1, <1>2, BusyTyped, HandleFacts
<1>4. QED
  BY <1>1, <1>3, UnchangedTable, HandleFacts, HandleStep, Zenon

LEMMA ReadStep ==
  ASSUME IInv, Read
  PROVE  IInv'
<1>1. op.pc = "read" /\ Using /\ UNCHANGED <<data, flag, vol, hurt, dirs>> /\ Step(Advanced)
  BY Zenon DEF Read, disk, history, Using
<1>2. Advanced \in HandleType /\ Advanced.open = fp.open /\ Advanced.first = fp.first /\ Advanced.cur = fp.cur
  BY <1>1, HandleFacts, PieceInt DEF Advanced, HandleType
<1>3. QED
  BY <1>1, <1>2, TurnStep, Zenon

LEMMA ReturnStep ==
  ASSUME IInv, Return
  PROVE  IInv'
<1>1. Using /\ op' = Idle /\ UNCHANGED <<store, data, flag, vol, fp, hurt, dirs>>
  BY Zenon DEF Return, disk, history, Using
<1>2. QED
  BY <1>1, UnchangedTable, NothingTyped, HandleFacts, HandleStep, Zenon

LEMMA SeekCallStep ==
  ASSUME IInv, NEW p \in 0 .. MaxSize, fat32_seek(p)
  PROVE  IInv'
<1>1. /\ op.pc = "idle" /\ fp.open = 1 /\ UNCHANGED <<store, data, flag, vol, hurt, dirs>>
      /\ fp' = [fp EXCEPT !.pos = p] /\ op' = Busy("seek", fp.first, p \div ClusterSize)
  BY Zenon DEF fat32_seek, Ready, disk, history
<1>2. p \in Int /\ p \div ClusterSize \in Int
  BY VolumeAssumption, DivMod
<1>3. op' \in OpType /\ op'.pc = "seek" /\ op'.cl = fp.first /\ op'.prev = 0
  BY <1>1, <1>2, BusyTyped, HandleFacts
<1>4. fp' \in HandleType /\ fp'.cur = fp.cur /\ fp'.open = fp.open /\ fp'.first = fp.first
  BY <1>1, <1>2, HandleFacts, Zenon DEF HandleType
<1>5. QED
  BY <1>1, <1>3, <1>4, UnchangedTable, HandleFacts, HandleStep, Zenon

LEMMA SeekStep ==
  ASSUME IInv, Seek
  PROVE  IInv'
<1> DEFINE c == fat32_next_cluster(store, op.cl)
<1>1. op.pc = "seek" /\ Using /\ UNCHANGED <<data, flag, vol, hurt, dirs>>
  BY Zenon DEF Seek, disk, history, Using
<1>2. StoreOK(store') /\ \A d \in Cells : Entry(store', d) = Entry(store, d)
  <2>1. store' = store \/ store' = fat_read_entry(store, op.cl)
    BY Zenon DEF Seek
  <2>2. QED
    BY <1>1, <2>1, HandleFacts, ClusterFacts, ReadOK
<1>3. c \in Cursor /\ (TreeOf(store, dirs) /\ op.cl \notin dirs => c \notin dirs)
  BY <1>1, HandleFacts, NextOK, Zenon
<1>4. CASE fp' = [fp EXCEPT !.cur = op.cl] /\ op' = Idle
  <2>1. fp' \in HandleType /\ fp'.cur = op.cl /\ fp'.open = fp.open /\ fp'.first = fp.first
    BY <1>1, <1>4, HandleFacts, Zenon DEF HandleType
  <2>2. QED
    BY <1>1, <1>2, <1>4, <2>1, NothingTyped, HandleFacts, HandleStep, Zenon
<1>5. CASE op' = [op EXCEPT !.cl = c, !.left = @ - 1] /\ UNCHANGED fp
  <2> HIDE DEF c
  <2>1. op \in OpType /\ op.left - 1 \in Int
    BY <1>1, HandleFacts
  <2>2. op' \in OpType /\ op'.pc = "seek" /\ op'.cl = c /\ op'.prev = op.prev
    BY <1>1, <1>3, <1>5, <2>1, Zenon DEF OpType
  <2>3. QED
    BY <1>1, <1>2, <1>3, <1>5, <2>2, HandleFacts, HandleStep, Zenon
<1>6. QED
  BY <1>4, <1>5, Zenon DEF Seek

LEMMA CloseStep ==
  ASSUME IInv, fat32_close
  PROVE  IInv'
<1>1. /\ op.pc = "idle" /\ fp.open = 1 /\ UNCHANGED <<store, flag, vol, op, hurt, dirs>> /\ fp' = Closed
      /\ data' = IF fp.write = 1 THEN [data EXCEPT ![fp.dcl][fp.dof].size = fp.size] ELSE data
  BY Zenon DEF fat32_close, Ready, history
<1>2. Rewritten
  <2>1. data \in [Clusters -> [Units -> UnitType]] /\ fp.size \in Int /\ dirs \subseteq Clusters /\ fp.dcl \in Cursor
    BY <1>1, HandleFacts, Zenon DEF IInv, Types, HandleType
  <2>2. Slots \subseteq Units
    BY VolumeAssumption DEF Slots, Units
  <2>3. ASSUME NEW c \in Clusters, NEW u \in Units
        PROVE  /\ data'[c][u] \in UnitType
               /\ data'[c][u].kind = data[c][u].kind /\ data'[c][u].first = data[c][u].first
    <3>1. data[c][u] \in UnitType
      BY <2>1, Zenon
    <3>2. data'[c][u] = data[c][u] \/ data'[c][u] = [data[c][u] EXCEPT !.size = fp.size]
      BY <1>1, <2>1, Zenon
    <3>3. QED
      BY <2>1, <3>1, <3>2, Zenon DEF UnitType
  <2>4. data' \in [Clusters -> [Units -> UnitType]]
    <3>1. \A c \in Clusters : data'[c] \in [Units -> UnitType]
      <4>1. ASSUME NEW c \in Clusters
            PROVE  data'[c] = [u \in Units |-> data'[c][u]]
        BY <1>1, <2>1, Zenon
      <4>2. QED
        BY <2>3, <4>1, Zenon
    <3>2. data' = [c \in Clusters |-> data'[c]]
      BY <1>1, <2>1, Zenon
    <3>3. QED
      BY <3>1, <3>2, Zenon
  <2>5. QED
    BY <2>1, <2>2, <2>3, <2>4, Zenon DEF Rewritten, Alike
<1>3. Doomed' = Doomed
  BY <1>1, Zenon DEF Doomed
<1>4. CallTypes' /\ Locals'
  BY <1>1, NothingTyped DEF IInv, Types, CallTypes, Searching, Locals
<1>5. QED
  BY <1>1, <1>2, <1>3, <1>4, UnchangedTable, Quiet, Zenon

LEMMA FlushStep ==
  ASSUME IInv, Flush
  PROVE  IInv'
<1>1. op.pc = "idle" /\ store' = fat32_flush(store) /\ UNCHANGED <<data, flag, vol, fp, op, hurt, dirs>>
  BY Zenon DEF Flush, disk, history
<1>2. StoreOK(store') /\ \A c \in Cells : Entry(store', c) = Entry(store, c)
  BY <1>1, FlushOK, Zenon DEF IInv, Types
<1>3. Doomed' = Doomed
  BY <1>1, Zenon DEF Doomed
<1>4. CallTypes' /\ ("torn" \notin hurt => Locals')
  BY <1>1, Zenon DEF IInv, Types, CallTypes, Searching, Locals
<1>5. QED
  BY <1>1, <1>2, <1>3, <1>4, Quiet, Zenon

(* Between calls, the shape of the volume and what the handle knows remain. *)
LEMMA RestStep ==
  ASSUME IInv, StoreOK(store'), UNCHANGED <<data, dirs>>, op' \in OpType, op'.pc = "idle", fp' = fp \/ fp' = Closed,
         flag' \in {0, 1}, vol' \in [mounted : {0, 1}, dirty : {0, 1}], Reported',
         "torn" \notin hurt' => /\ "torn" \notin hurt /\ op.pc = "idle"
                               /\ \A c \in Cells : Entry(store', c) = Entry(store, c)
  PROVE  IInv'
<1>1. CallTypes'
  BY NothingTyped, Zenon DEF IInv, Types, CallTypes, Searching
<1>2. Types'
  BY <1>1, Zenon DEF IInv, Types
<1>3. ASSUME "torn" \notin hurt' PROVE TreeOf(store', dirs') /\ EntriesOf(store', data', dirs', Doomed') /\ Locals'
  <2>1. Doomed' = Doomed
    BY <1>3, NothingTyped, Zenon DEF Doomed
  <2>2. TreeOf(store, dirs) /\ EntriesOf(store, data, dirs, Doomed') /\ Locals
    BY <1>3, <2>1, Zenon DEF IInv
  <2>3. fp'.open = 1 => fp'.first \notin dirs' /\ fp'.cur \notin dirs'
    <3>1. fp.open = 1 => fp.first \notin dirs /\ fp.cur \notin dirs
      BY <2>2, Zenon DEF Locals
    <3>2. QED
      BY <3>1, NothingTyped
  <2>4. Locals'
    <3>1. op'.pc = "idle"
      BY Zenon
    <3>2. QED
      BY ONLY <2>3, <3>1, Zenon DEF Locals
  <2>5. QED
    BY <1>3, <2>2, <2>4, SameShape, Zenon
<1>4. QED
  BY <1>2, <1>3, Zenon DEF IInv

LEMMA UnmountStep ==
  ASSUME IInv, fat32_unmount
  PROVE  IInv'
<1> DEFINE g == fat32_flush(store)
<1>1. /\ store' = fat_cache_invalidate(g) /\ flag' = 0 /\ vol' = [mounted |-> 0, dirty |-> 0]
      /\ hurt' = hurt \cup (IF vol.dirty = 1 /\ "torn" \in hurt THEN {"hidden"} ELSE {})
      /\ vol.mounted = 1 /\ UNCHANGED <<data, fp, op, dirs>> /\ op.pc = "idle" /\ op \in OpType
  BY Zenon DEF fat32_unmount, IInv, Types, CallTypes
<1>2. StoreOK(g) /\ g.dirty = 0 /\ \A c \in Cells : Entry(g, c) = Entry(store, c)
  BY FlushOK, Zenon DEF IInv, Types
<1> HIDE DEF g
<1>3. StoreOK(store') /\ \A c \in Cells : Entry(store', c) = Entry(store, c)
  BY <1>1, <1>2, InvalidateOK, Zenon
<1>4. Reported'
  BY <1>1, Zenon DEF IInv, Reported
<1>5. "torn" \in hurt' <=> "torn" \in hurt
  BY <1>1, Zenon
<1>6. QED
  BY <1>1, <1>3, <1>4, <1>5, NothingTyped, RestStep, Zenon

LEMMA MountStep ==
  ASSUME IInv, fat32_mount
  PROVE  IInv'
<1>1. /\ vol' = [mounted |-> 1, dirty |-> flag] /\ flag' = 1 /\ UNCHANGED <<store, data, fp, op, hurt, dirs>>
      /\ flag \in {0, 1}
  BY Zenon DEF fat32_mount, history, IInv, Types
<1>2. Reported'
  BY <1>1, Zenon DEF IInv, Reported
<1>3. Types' /\ Doomed' = Doomed
  BY <1>1, Zenon DEF IInv, Types, CallTypes, Searching, Doomed
<1>4. "torn" \notin hurt' => TreeOf(store', dirs') /\ EntriesOf(store', data', dirs', Doomed') /\ Locals'
  BY <1>1, <1>3, Zenon DEF IInv, Locals
<1>5. QED
  BY <1>2, <1>3, <1>4, Zenon DEF IInv

LEMMA CrashStep ==
  ASSUME IInv, Crash
  PROVE  IInv'
<1>1. /\ vol' = [mounted |-> 0, dirty |-> 0] /\ fp' = Closed /\ op' = Idle
      /\ store' = fat_cache_invalidate(store) /\ vol.mounted = 1 /\ UNCHANGED <<data, flag, dirs>>
      /\ hurt' = hurt \cup (IF store.dirty = 1 \/ op.pc # "idle" \/ fp.write = 1 THEN {"torn"} ELSE {})
      /\ flag \in {0, 1} /\ StoreOK(store)
  BY Zenon DEF Crash, disk, IInv, Types
<1>2. Reported'
  BY <1>1, Zenon DEF IInv, Reported
<1>3. store.dirty \in {0, 1}
  BY <1>1, Zenon DEF StoreOK, Stores
<1>4. "torn" \notin hurt' => "torn" \notin hurt /\ op.pc = "idle" /\ store.dirty = 0
  BY <1>1, <1>3, Zenon
<1>5. StoreOK(store') /\ (store.dirty = 0 => \A c \in Cells : Entry(store', c) = Entry(store, c))
  BY <1>1, InvalidateOK
<1>6. QED
  BY <1>1, <1>2, <1>4, <1>5, NothingTyped, RestStep, Zenon

LEMMA Stuttering ==
  ASSUME IInv, UNCHANGED vars
  PROVE  IInv'
  BY Zenon DEF IInv, Types, CallTypes, Searching, Reported, Locals, Doomed, vars, disk, history

LEMMA CallsStep ==
  ASSUME IInv, Calls
  PROVE  IInv'
<1>1. ASSUME NEW n \in Names, fat32_create(n) \/ fat32_delete(n) PROVE IInv'
  BY <1>1, StartStep, Zenon DEF fat32_create, fat32_delete
<1>2. ASSUME NEW n \in Names, NEW m \in Modes, fat32_open(n, m) PROVE IInv'
  <2>1. m \in {"r", "rw", "w", "a"} /\ Goal[m] \in {"read", "delete", "append", "create"}
    BY VolumeAssumption DEF Goal
  <2>2. QED
    BY <1>2, <2>1, StartStep, Zenon DEF fat32_open
<1>3. ASSUME NEW k \in WriteSizes, fat32_write(k) \/ fat32_read(k) PROVE IInv'
  BY <1>3, WriteCallStep, ReadCallStep, Zenon
<1>4. ASSUME NEW p \in 0 .. MaxSize, fat32_seek(p) PROVE IInv'
  BY <1>4, SeekCallStep, Zenon
<1>5. CASE fat32_close \/ Flush \/ fat32_unmount \/ fat32_mount
  BY <1>5, CloseStep, FlushStep, UnmountStep, MountStep, Zenon
<1>6. QED
  BY <1>1, <1>2, <1>3, <1>4, <1>5, Zenon DEF Calls

LEMMA LoopsStep ==
  ASSUME IInv, Loops
  PROVE  IInv'
<1>1. CASE Find \/ FoundForReading \/ FoundForAppending \/ FoundForDeleting \/ FoundForCreating
  BY <1>1, FindStep, FoundForReadingStep, FoundForAppendingStep, FoundForDeletingStep, FoundForCreatingStep, Zenon
<1>2. CASE LastCluster \/ FreeChain \/ Mark \/ Slot \/ NextSlots
  BY <1>2, LastClusterStep, FreeChainStep, MarkStep, SlotStep, NextSlotsStep, Zenon
<1>3. CASE Before \/ Extend \/ Write \/ Read \/ Return \/ Seek
  BY <1>3, BeforeStep, ExtendStep, WriteStep, ReadStep, ReturnStep, SeekStep, Zenon
<1>4. QED
  BY <1>1, <1>2, <1>3, Zenon DEF Loops

LEMMA Inductive == IInv /\ [Next]_vars => IInv'
  BY CallsStep, LoopsStep, CrashStep, Stuttering, Zenon DEF Next

LEMMA Always == Spec => []IInv
  BY Initially, Inductive, PTL DEF Spec

(* What the shape says of the clusters. *)
LEMMA ShapeIsSound ==
  ASSUME IInv, "torn" \notin hurt
  PROVE  SoundNow
<1>1. TreeOf(store, dirs) /\ EntriesOf(store, data, dirs, Doomed)
  BY Zenon DEF IInv
<1>2. Entry(store, Root) # Free
  BY <1>1, Zenon DEF TreeOf
<1>3. ASSUME NEW c \in Clusters
      PROVE  /\ \A d, e \in Links(c) : d = e
             /\ \A d, e \in Named(c, Files) : d = e
             /\ Links(c) = {} \/ Named(c, Files) = {}
             /\ Entry(store, c) = Free => Links(c) = {} /\ (Named(c, Files) = {} \/ Deleting(c))
  <2>1. \A d, e \in Links(c) : d = e
    BY <1>1, Zenon DEF TreeOf, Links
  <2>2. ASSUME NEW e \in Named(c, Files)
        PROVE  /\ e = <<e[1], e[2]>> /\ e[1] \in dirs /\ e[2] \in Slots
               /\ FileIn(data, dirs, e[1], e[2]) /\ data[e[1]][e[2]].first = c
    BY DEF Named, Files, FileIn
  <2>3. ASSUME NEW d \in Named(c, Files), NEW e \in Named(c, Files) PROVE d = e
    <3>1. d[1] = e[1] /\ d[2] = e[2]
      BY <1>1, <2>2 DEF EntriesOf
    <3>2. QED
      BY <2>2, <3>1, Zenon
  <2>4. Links(c) = {} \/ Named(c, Files) = {}
    BY <1>1, <2>2 DEF EntriesOf, Links
  <2>5. ASSUME Entry(store, c) = Free PROVE Links(c) = {}
    BY <1>1, <2>5, Zenon DEF TreeOf, Links
  <2>6. ASSUME Entry(store, c) = Free, NEW e \in Named(c, Files) PROVE Deleting(c)
    BY <1>1, <2>2, <2>6, ClusterFacts DEF EntriesOf, Doomed, Deleting
  <2>7. QED
    BY <2>1, <2>3, <2>4, <2>5, <2>6, Zenon
<1>4. QED
  BY <1>2, <1>3, Zenon DEF SoundNow

(* Whatever the sizes of the volume and its sectors, and whatever calls are *)
(* made of the functions of fat32*.c, no cluster has two references and    *)
(* none that is referred to is free, until a crash tears the volume: the   *)
(* cache of one sector of the table never hides a change from a reader.    *)
THEOREM VolumeSound == Spec => []Sound
<1>1. IInv => Sound
  BY ShapeIsSound, Zenon DEF Sound
<1>2. QED
  BY <1>1, Always, PTL

(* A mount that reports a clean volume finds a sound one: fat32_mount's    *)
(* flag is set as long as a torn volume has not been unmounted.            *)
THEOREM CleanVolume == Spec => []CleanMeansSound
<1>1. IInv => CleanMeansSound
  BY ShapeIsSound DEF CleanMeansSound, IInv, Reported
<1>2. QED
  BY <1>1, Always, PTL

(* With nothing left to flush, a crash loses nothing of the table.         *)
THEOREM CleanCrash == Spec => CleanCrashKeeps
<1>1. IInv /\ [Next]_vars => [Crash /\ store.dirty = 0 => \A c \in Clusters : Entry(store', c) = Entry(store, c)]_vars
  <2> SUFFICES ASSUME IInv, Crash, store.dirty = 0
               PROVE  \A c \in Clusters : Entry(store', c) = Entry(store, c)
    BY Zenon
  <2>1. StoreOK(store) /\ store' = fat_cache_invalidate(store)
    BY Zenon DEF IInv, Types, Crash
  <2>2. QED
    BY <2>1, InvalidateOK, ClusterFacts, Zenon
<1>2. QED
  BY <1>1, Always, PTL DEF Spec, CleanCrashKeeps
=============================================================================
