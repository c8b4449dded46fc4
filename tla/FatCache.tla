------------------------------ MODULE FatCache ------------------------------
(***************************************************************************)
(* kernel/fat32_fat.c: the file allocation table behind a cache of one     *)
(* sector.  Entries are read and written in the cached sector only; going  *)
(* to another sector writes a changed one back first.  The second copy of  *)
(* the table is written with the first and never read, and left out.       *)
(*                                                                         *)
(* The operators take and give the table's state: a record of the table on *)
(* disk, the cached sector's number and contents, and whether it changed.  *)
(***************************************************************************)
EXTENDS Integers

CONSTANTS TotalClusters, EntriesPerSector

(* fat32_format puts its three first entries in one sector. *)
ASSUME FatAssumption ==
  EntriesPerSector \in Nat /\ EntriesPerSector > 2 /\ TotalClusters \in Nat /\ TotalClusters > 3

Clusters == 2 .. (TotalClusters - 1)
Free == 0
EOC == TotalClusters           \* the end of a chain: no cluster's number

Values == {Free, EOC} \cup Clusters
Offsets == 0 .. (EntriesPerSector - 1)
Sector(c) == c \div EntriesPerSector
Offset(c) == c % EntriesPerSector
Sectors == 0 .. Sector(TotalClusters - 1)
NoSector == -1                 \* cached_fat_sector of 0xFFFFFFFF

Stores == [disk : [Sectors -> [Offsets -> Values]], sector : Sectors \cup {NoSector},
           cache : [Offsets -> Values], dirty : {0, 1}]

(* A changed sector is one of the table; an unchanged one is as on disk. *)
Consistent(f) ==
  /\ f.dirty = 1 => f.sector # NoSector
  /\ f.dirty = 0 /\ f.sector # NoSector => f.cache = f.disk[f.sector]

(* What the program sees of entry c. *)
Entry(f, c) ==
  IF Sector(c) = f.sector THEN f.cache[Offset(c)] ELSE f.disk[Sector(c)][Offset(c)]

Flushed(f) == IF f.dirty = 1 THEN [f.disk EXCEPT ![f.sector] = f.cache] ELSE f.disk

fat32_flush(f) == [f EXCEPT !.disk = Flushed(f), !.dirty = 0]

(* Mutant: the changed sector is dropped for the next one. *)
TouchDropping(f, s) ==
  IF s = f.sector THEN f
  ELSE [disk |-> f.disk, sector |-> s, cache |-> f.disk[s], dirty |-> 0]

(* Sector s becomes the cached one: fat_read_entry, but for its result. *)
Touch(f, s) ==
  IF s = f.sector THEN f
  ELSE [disk |-> Flushed(f), sector |-> s, cache |-> Flushed(f)[s], dirty |-> 0]

fat_read_entry(f, c) == Touch(f, Sector(c))

fat_write_entry(f, c, v) ==
  LET g == Touch(f, Sector(c)) IN [g EXCEPT !.cache = [@ EXCEPT ![Offset(c)] = v], !.dirty = 1]

(* fat32_mount starts without a cached sector; what was in it is gone. *)
fat_cache_invalidate(f) == [f EXCEPT !.sector = NoSector, !.dirty = 0,
                                     !.cache = [o \in Offsets |-> Free]]

-----------------------------------------------------------------------------
(* fat32_cluster.c: 0 at the end of a chain *)
fat32_next_cluster(f, c) == IF c < 2 \/ Entry(f, c) >= EOC THEN 0 ELSE Entry(f, c)

(* fat32_alloc_clusters for one cluster and without a hint.  It reads the  *)
(* entries from 2 on, up to the first free one; when there is none, around *)
(* and up to 3.  A sector once left for another is clean, so the sectors   *)
(* in between make no difference.                                          *)
FirstFree(f, c) == Entry(f, c) = Free /\ \A d \in Clusters : d < c => Entry(f, d) # Free
Full(f) == \A c \in Clusters : Entry(f, c) # Free

Scanned(f, c) == Touch(Touch(f, Sector(2)), Sector(c))
ScannedAll(f) == Touch(Scanned(f, TotalClusters - 1), Sector(3))

Allocated(f, c) == fat_write_entry(Scanned(f, c), c, EOC)
=============================================================================
