------------------------------- MODULE Fat32 --------------------------------
(***************************************************************************)
(* kernel/fat32_*.c: the boot volume.  Files are chains of clusters in the *)
(* table of FatCache; the root directory is a chain of slots; directory    *)
(* and file clusters go to the disk at once, the table does not.           *)
(*                                                                         *)
(* A cluster holds ClusterSize units, each a directory slot or a byte of a *)
(* file.  A byte is what it was written for: a file and a place in it.     *)
(* Every loop takes one step per turn, so that the machine can stop        *)
(* between any two writes to the disk.  One handle is open at a time and   *)
(* nobody seeks past the end, as in the callers in kernel/.  Block reads   *)
(* and writes succeed.                                                     *)
(***************************************************************************)
EXTENDS FatCache

CONSTANTS
  Names, NoName, \* file names; none
  LfnEntries,   \* the slots a name's VFAT chain takes before its 8.3 entry
  ClusterSize, SlotsPerCluster, \* of bytes and of directory entries
  WriteSizes, MaxSize,   \* bounds: what one write writes, how far a file grows
  MaxCalls,     \* bound: creates, deletes and opens
  Modes         \* of open

ASSUME VolumeAssumption ==
  /\ NoName \notin Names /\ ClusterSize \in Nat \ {0} /\ SlotsPerCluster \in 1 .. ClusterSize
  /\ MaxSize \in Nat /\ MaxCalls \in Nat /\ WriteSizes \subseteq Nat \ {0}
  /\ LfnEntries \in [Names -> Nat] /\ Modes \subseteq {"r", "rw", "w", "a"}

VARIABLES
  store,                \* the table, see FatCache
  data,                 \* the clusters
  flag,                 \* bit 7 of the boot sector's fat_flags
  vol,                  \* of fat32_volume: mounted, and dirty as read at mount
  fp,                   \* the fat32_file
  op,                   \* the call under way and its locals
  len, hurt, calls, dirs  \* history: the length each file should have; what has
                        \* happened that it cannot keep; calls so far; the
                        \* clusters given to the directory
disk == <<data, flag>>
history == <<len, hurt, calls, dirs>>
vars == <<store, disk, vol, fp, op, history>>

Root == 2
Absent == -1
Units == 1 .. ClusterSize
Slots == 1 .. SlotsPerCluster
Unit(k, n, c, s) == [kind |-> k, name |-> n, first |-> c, size |-> s]
End == Unit("end", NoName, 0, 0)       \* a zero byte, the end of a directory
Gone == Unit("gone", NoName, 0, 0)     \* 0xE5
Byte(n, p) == Unit("byte", n, 0, p)
Blank == [u \in Units |-> End]

Closed == [open |-> 0, name |-> NoName, first |-> 0, cur |-> 0, pos |-> 0, size |-> 0,
           write |-> 0, dcl |-> 0, dof |-> 0]
NotFound == [first |-> 0, size |-> 0, dcl |-> 0, dof |-> 0]
Idle == [pc |-> "idle", call |-> "none", goal |-> "none", name |-> NoName, cl |-> 0, new |-> 0, prev |-> 0,
         left |-> 0, info |-> NotFound]

(* fat32_format, then fat32_mount *)
Formatted ==
  [disk |-> [s \in Sectors |-> [o \in Offsets |->
      IF s = 0 /\ o \in 0 .. 2 THEN EOC ELSE Free]],
   sector |-> NoSector, cache |-> [o \in Offsets |-> Free], dirty |-> 0]

Init ==
  /\ store = Formatted /\ data = [c \in Clusters |-> Blank] /\ flag = 1
  /\ vol = [mounted |-> 1, dirty |-> 0]
  /\ fp = Closed /\ op = Idle
  /\ len = [n \in Names |-> Absent] /\ hurt = {} /\ calls = 0
  /\ dirs = {Root}

-----------------------------------------------------------------------------
(* fat32_find: the name of the entry in slot u, where a VFAT slot before   *)
(* it overrides its own; the first slot that ends the search or has it.    *)
NameAt(c, u) ==
  IF u > 1 /\ data[c][u - 1].kind = "lfn" THEN data[c][u - 1].name ELSE data[c][u].name
Stops(c, u, n) ==
  data[c][u].kind = "end" \/ (data[c][u].kind = "file" /\ NameAt(c, u) = n)
FirstStop(c, u, n) == Stops(c, u, n) /\ \A w \in Slots : w < u => ~Stops(c, w, n)

Find ==
  /\ op.pc = "find"
  /\ \/ \E u \in Slots :
          /\ FirstStop(op.cl, u, op.name)
          /\ op' = [op EXCEPT !.pc = "found", !.info =
               IF data[op.cl][u].kind = "end" THEN NotFound
               ELSE [first |-> data[op.cl][u].first, size |-> data[op.cl][u].size,
                     dcl |-> op.cl, dof |-> u]]
          /\ UNCHANGED store
     \/ /\ \A u \in Slots : ~Stops(op.cl, u, op.name)
        /\ store' = fat_read_entry(store, op.cl)
        /\ LET c == fat32_next_cluster(store, op.cl) IN
             op' = IF c = 0 THEN [op EXCEPT !.pc = "found", !.info = NotFound]
                   ELSE [op EXCEPT !.cl = c]
  /\ UNCHANGED <<disk, vol, fp, history>>

(* Bound: a volume is not used further once a crash tore it or a write     *)
(* went astray.                                                            *)
Start(call, goal, n) ==
  /\ op.pc = "idle" /\ vol.mounted = 1 /\ fp.open = 0 /\ hurt \subseteq {"full"}
  /\ calls < MaxCalls /\ calls' = calls + 1
  /\ op' = [Idle EXCEPT !.pc = "find", !.call = call, !.goal = goal, !.name = n,
                     !.cl = Root]
  /\ UNCHANGED <<store, disk, vol, fp, len, hurt, dirs>>

(* Goal of the first search in each mode; in "w" what is found is deleted. *)
Goal == [r |-> "read", rw |-> "read", w |-> "delete", a |-> "append"]

fat32_open(n, mode) == mode \in Modes /\ Start(mode, Goal[mode], n)
fat32_create(n) == Start("create", "create", n)
fat32_delete(n) == Start("delete", "delete", n)

(* The handle of an open that found the file. *)
Handle(i, pos, w) ==
  [open |-> 1, name |-> op.name, first |-> i.first, cur |-> i.first, pos |-> pos,
   size |-> i.size, write |-> w, dcl |-> i.dcl, dof |-> i.dof]

(* A second search, by the fat32_create inside an open. *)
Again == [op EXCEPT !.pc = "find", !.goal = "create", !.cl = Root]

FoundForReading ==
  /\ op.pc = "found" /\ op.goal = "read"
  /\ fp' = IF op.info = NotFound THEN Closed ELSE Handle(op.info, 0, IF op.call = "rw" THEN 1 ELSE 0)
  /\ op' = Idle
  /\ UNCHANGED <<store, disk, vol, history>>

(* Mutant: the walk begins again at every step. *)
WalkFromFirst ==
  /\ op.pc = "tail"
  /\ store' = fat_read_entry(store, fp.first)
  /\ LET c == fat32_next_cluster(store, fp.first) IN
       IF c = 0 THEN op' = Idle /\ UNCHANGED fp
       ELSE fp' = [fp EXCEPT !.cur = c] /\ UNCHANGED op
  /\ UNCHANGED <<disk, vol, history>>

FoundForAppending ==
  /\ op.pc = "found" /\ op.goal = "append"
  /\ IF op.info = NotFound THEN op' = Again /\ UNCHANGED fp
     ELSE /\ fp' = Handle(op.info, op.info.size, 1)
          /\ op' = [op EXCEPT !.pc = "tail"]
  /\ UNCHANGED <<store, disk, vol, history>>

(* Walk to the last cluster. *)
LastCluster ==
  /\ op.pc = "tail"
  /\ store' = fat_read_entry(store, fp.cur)
  /\ LET c == fat32_next_cluster(store, fp.cur) IN
       IF c = 0 THEN op' = Idle /\ UNCHANGED fp
       ELSE fp' = [fp EXCEPT !.cur = c] /\ UNCHANGED op
  /\ UNCHANGED <<disk, vol, history>>

FoundForDeleting ==
  /\ op.pc = "found" /\ op.goal = "delete"
  /\ op' = IF op.info # NotFound
           THEN [op EXCEPT !.pc = IF op.info.first >= 2 THEN "free" ELSE "mark",
                           !.cl = op.info.first]
           ELSE IF op.call = "w" THEN Again ELSE Idle
  /\ UNCHANGED <<store, disk, vol, fp, history>>

(* Mutant: only the first cluster is freed. *)
FreeFirst ==
  /\ op.pc = "free"
  /\ store' = fat_write_entry(store, op.cl, Free)
  /\ op' = [op EXCEPT !.pc = "mark"]
  /\ UNCHANGED <<disk, vol, fp, history>>

(* fat32_free_chain *)
FreeChain ==
  /\ op.pc = "free"
  /\ store' = fat_write_entry(store, op.cl, Free)
  /\ LET c == Entry(store, op.cl) IN
       op' = IF c < 2 \/ c >= EOC THEN [op EXCEPT !.pc = "mark"] ELSE [op EXCEPT !.cl = c]
  /\ UNCHANGED <<disk, vol, fp, history>>

Mark ==
  /\ op.pc = "mark"
  /\ data' = [data EXCEPT ![op.info.dcl][op.info.dof] = Gone]
  /\ op' = IF op.call = "w" THEN Again ELSE Idle
  /\ len' = [len EXCEPT ![op.name] = Absent]
  /\ UNCHANGED <<store, flag, vol, fp, hurt, calls, dirs>>

-----------------------------------------------------------------------------
(* The end of a create, for itself or inside an open. *)
Created(i) ==
  /\ fp' = IF op.call = "create" THEN fp ELSE Handle([i EXCEPT !.size = 0], 0, 1)
  /\ op' = Idle

FoundForCreating ==
  /\ op.pc = "found" /\ op.goal = "create"
  /\ \/ /\ op.info # NotFound /\ Created(op.info) /\ UNCHANGED store
     \/ \E c \in Clusters :
          /\ op.info = NotFound /\ FirstFree(store, c)
          /\ store' = Allocated(store, c)
          /\ op' = [op EXCEPT !.pc = "slot", !.cl = Root, !.new = c]
          /\ UNCHANGED fp
     \/ /\ op.info = NotFound /\ Full(store)
        /\ store' = ScannedAll(store) /\ op' = Idle /\ UNCHANGED fp
  /\ UNCHANGED <<disk, vol, history>>

(* A run of free slots for the entry and its VFAT chain, within a cluster. *)
Unused(c, u) == data[c][u].kind \in {"end", "gone"}
RunAt(c, u) == /\ u + LfnEntries[op.name] <= SlotsPerCluster
               /\ \A w \in u .. (u + LfnEntries[op.name]) : Unused(c, w)

Slot ==
  /\ op.pc = "slot"
  /\ \E u \in Slots :
       /\ RunAt(op.cl, u) /\ \A w \in Slots : w < u => ~RunAt(op.cl, w)
       /\ LET e == u + LfnEntries[op.name] IN
          /\ data' = [data EXCEPT ![op.cl] = [w \in Units |->
               IF w \in u .. (e - 1) THEN Unit("lfn", op.name, 0, 0)
               ELSE IF w = e THEN Unit("file", op.name, op.new, 0) ELSE @[w]]]
          /\ Created([first |-> op.new, size |-> 0, dcl |-> op.cl, dof |-> e])
  /\ len' = [len EXCEPT ![op.name] = 0]
  /\ UNCHANGED <<store, flag, vol, hurt, calls, dirs>>

(* No room in this cluster of the directory: the next, or a new one. *)
NextSlots ==
  /\ op.pc = "slot" /\ \A u \in Slots : ~RunAt(op.cl, u)
  /\ LET c == fat32_next_cluster(store, op.cl)
         f == fat_read_entry(store, op.cl) IN
     \/ /\ c # 0 /\ store' = f /\ op' = [op EXCEPT !.cl = c]
        /\ UNCHANGED <<data, hurt, dirs>>
     \/ \E d \in Clusters :
          /\ c = 0 /\ FirstFree(f, d)
          /\ store' = fat_write_entry(fat_write_entry(Allocated(f, d), op.cl, d), d, EOC)
          /\ data' = [data EXCEPT ![d] = Blank]
          /\ op' = [op EXCEPT !.cl = d] /\ dirs' = dirs \cup {d}
          /\ UNCHANGED hurt
     \/ /\ c = 0 /\ Full(f)
        /\ store' = ScannedAll(f) /\ op' = Idle
        /\ hurt' = hurt \cup {"full"} /\ UNCHANGED <<data, dirs>>
  /\ UNCHANGED <<flag, vol, fp, len, calls>>

-----------------------------------------------------------------------------
Busy(call, c, n) == [Idle EXCEPT !.pc = call, !.cl = c, !.left = n]
Ready == op.pc = "idle" /\ fp.open = 1

(* The chain of a cluster, and how many clusters it has; 0 past its end.   *)
Nth(c) == LET n[k \in 0 .. TotalClusters] ==
                IF k = 0 THEN c ELSE IF n[k - 1] < 2 THEN 0 ELSE fat32_next_cluster(store, n[k - 1])
          IN n
Past(p) == Nth(fp.first)[p \div ClusterSize] < 2

(* fat32_write, up to its loop: the search for the cluster before the      *)
(* current one, whose result is never used, reads the table.               *)
fat32_write(n) ==
  /\ Ready /\ fp.write = 1 /\ fp.pos + n <= MaxSize
  /\ op' = IF fp.cur >= 2 /\ fp.cur # fp.first
           THEN [Busy("before", fp.first, n) EXCEPT !.prev = fp.first]
           ELSE [Busy("write", fp.cur, n) EXCEPT !.prev = IF fp.cur >= 2 THEN fp.first ELSE 0]
  /\ hurt' = hurt \cup (IF Past(fp.pos) THEN {"end"} ELSE {})
  /\ UNCHANGED <<store, disk, vol, fp, len, calls, dirs>>

Before ==
  /\ op.pc = "before"
  /\ store' = fat_read_entry(store, op.cl)
  /\ LET c == fat32_next_cluster(store, op.cl) IN
       op' = IF c = fp.cur \/ c = 0 THEN [op EXCEPT !.pc = "write", !.cl = fp.cur]
             ELSE [op EXCEPT !.prev = op.cl, !.cl = c]
  /\ UNCHANGED <<disk, vol, fp, history>>

Extend ==
  /\ op.pc = "write" /\ op.left > 0 /\ op.cl < 2
  /\ \/ \E c \in Clusters :
          /\ FirstFree(store, c)
          /\ LET f == Allocated(store, c)
                 g == IF op.prev >= 2 THEN fat_write_entry(f, op.prev, c) ELSE f IN
               store' = fat_write_entry(g, c, EOC)
          /\ op' = [op EXCEPT !.cl = c] /\ fp' = [fp EXCEPT !.cur = c]
     \/ Full(store) /\ store' = ScannedAll(store) /\ op' = Idle /\ UNCHANGED fp
  /\ UNCHANGED <<disk, vol, history>>

(* The part of the transfer that is in one cluster. *)
Piece == LET room == ClusterSize - (fp.pos % ClusterSize) IN IF op.left < room THEN op.left ELSE room
Advanced == [fp EXCEPT !.pos = @ + Piece]
AtEdge == (fp.pos % ClusterSize) + Piece >= ClusterSize

Step(h) ==
  IF AtEdge
  THEN LET c == fat32_next_cluster(store, op.cl) IN
       /\ store' = fat_read_entry(store, op.cl)
       /\ op' = [op EXCEPT !.left = @ - Piece, !.prev = op.cl, !.cl = c]
       /\ fp' = [h EXCEPT !.cur = c]
  ELSE op' = [op EXCEPT !.left = @ - Piece] /\ fp' = h /\ UNCHANGED store

Write ==
  /\ op.pc = "write" /\ op.left > 0 /\ op.cl >= 2
  /\ LET o == fp.pos % ClusterSize
         to == fp.pos + Piece IN
     /\ data' = [data EXCEPT ![op.cl] = [u \in Units |->
          IF u \in (o + 1) .. (o + Piece) THEN Byte(fp.name, fp.pos + (u - 1 - o)) ELSE @[u]]]
     /\ Step([Advanced EXCEPT !.size = IF to > @ THEN to ELSE @])
     /\ len' = [len EXCEPT ![fp.name] = IF to > @ THEN to ELSE @]
  /\ UNCHANGED <<flag, vol, hurt, calls, dirs>>

fat32_read(n) ==
  /\ Ready
  /\ LET most == fp.size - fp.pos IN op' = Busy("read", fp.cur, IF n > most THEN most ELSE n)
  /\ UNCHANGED <<store, disk, vol, fp, history>>

Read ==
  /\ op.pc = "read" /\ op.left > 0 /\ op.cl >= 2
  /\ Step(Advanced)
  /\ UNCHANGED <<disk, vol, history>>

Return ==
  /\ \/ op.pc \in {"read", "write"} /\ op.left = 0
     \/ op.pc = "read" /\ op.left > 0 /\ op.cl < 2
  /\ op' = Idle
  /\ UNCHANGED <<store, disk, vol, fp, history>>

fat32_seek(p) ==
  /\ Ready /\ p <= fp.size
  /\ fp' = [fp EXCEPT !.pos = p]
  /\ op' = Busy("seek", fp.first, p \div ClusterSize)
  /\ UNCHANGED <<store, disk, vol, history>>

Seek ==
  /\ op.pc = "seek"
  /\ LET c == fat32_next_cluster(store, op.cl) IN
     IF op.left = 0 THEN /\ fp' = [fp EXCEPT !.cur = op.cl] /\ op' = Idle /\ UNCHANGED store
     ELSE /\ store' = fat_read_entry(store, op.cl)
          /\ IF c = 0 THEN fp' = [fp EXCEPT !.cur = op.cl] /\ op' = Idle
             ELSE op' = [op EXCEPT !.cl = c, !.left = @ - 1] /\ UNCHANGED fp
  /\ UNCHANGED <<disk, vol, history>>

(* Mutant: the size stays in the handle. *)
CloseForgetting ==
  /\ Ready
  /\ fp' = Closed
  /\ UNCHANGED <<store, disk, vol, op, history>>

fat32_close ==
  /\ Ready
  /\ data' = IF fp.write = 1 THEN [data EXCEPT ![fp.dcl][fp.dof].size = fp.size] ELSE data
  /\ fp' = Closed
  /\ UNCHANGED <<store, flag, vol, op, history>>

-----------------------------------------------------------------------------
Flush ==
  /\ op.pc = "idle" /\ vol.mounted = 1
  /\ store' = fat32_flush(store)
  /\ UNCHANGED <<disk, vol, fp, op, history>>

fat32_unmount ==
  /\ op.pc = "idle" /\ vol.mounted = 1 /\ fp.open = 0
  /\ store' = fat_cache_invalidate(fat32_flush(store))
  /\ flag' = 0 /\ vol' = [mounted |-> 0, dirty |-> 0]
  /\ hurt' = hurt \cup (IF vol.dirty = 1 /\ "torn" \in hurt THEN {"hidden"} ELSE {})
  /\ UNCHANGED <<data, fp, op, len, calls, dirs>>

(* Mutant: the volume is not marked as in use. *)
MountUnmarked ==
  /\ vol.mounted = 0
  /\ vol' = [mounted |-> 1, dirty |-> flag]
  /\ UNCHANGED <<store, disk, fp, op, history>>

fat32_mount ==
  /\ vol.mounted = 0
  /\ vol' = [mounted |-> 1, dirty |-> flag] /\ flag' = 1
  /\ UNCHANGED <<store, data, fp, op, history>>

(* The machine stops; what was only in memory is lost. *)
Crash ==
  /\ vol.mounted = 1
  /\ vol' = [mounted |-> 0, dirty |-> 0] /\ fp' = Closed /\ op' = Idle
  /\ store' = fat_cache_invalidate(store)
  /\ hurt' = hurt \cup (IF store.dirty = 1 \/ op.pc # "idle" \/ fp.write = 1 THEN {"torn"} ELSE {})
  /\ UNCHANGED <<disk, len, calls, dirs>>

Calls ==
  \/ \E n \in Names : fat32_create(n) \/ fat32_delete(n) \/ \E m \in Modes : fat32_open(n, m)
  \/ \E k \in WriteSizes : fat32_write(k) \/ fat32_read(k)
  \/ \E p \in 0 .. MaxSize : fat32_seek(p)
  \/ fat32_close \/ Flush \/ fat32_unmount \/ fat32_mount

Loops ==
  \/ Find \/ FoundForReading \/ FoundForAppending \/ FoundForDeleting \/ FoundForCreating
  \/ LastCluster \/ FreeChain \/ Mark \/ Slot \/ NextSlots
  \/ Before \/ Extend \/ Write \/ Read \/ Return \/ Seek

Next == Calls \/ Loops \/ Crash

Spec == Init /\ [][Next]_vars

(* A call that has begun goes on; nothing in the kernel waits in one. *)
FairSpec == Spec /\ WF_vars(Loops)

-----------------------------------------------------------------------------
Cursor == {0} \cup Clusters
TypeOK ==
  /\ store \in Stores /\ Consistent(store)
  /\ data \in [Clusters -> [Units -> [kind : {"end", "gone", "lfn", "file", "byte"},
       name : Names \cup {NoName}, first : Cursor, size : 0 .. MaxSize]]]
  /\ flag \in {0, 1} /\ vol \in [mounted : {0, 1}, dirty : {0, 1}]
  /\ fp \in [open : {0, 1}, name : Names \cup {NoName}, first : Cursor, cur : Cursor,
             pos : 0 .. MaxSize, size : 0 .. MaxSize, write : {0, 1}, dcl : Cursor,
             dof : {0} \cup Units]
  /\ op.cl \in Cursor /\ op.new \in Cursor /\ op.prev \in Cursor /\ op.left \in 0 .. MaxSize
  /\ len \in [Names -> Absent .. MaxSize] /\ hurt \subseteq {"end", "full", "torn", "hidden"}
  /\ calls \in 0 .. MaxCalls /\ dirs \subseteq Clusters

Chain(c) == {Nth(c)[k] : k \in 0 .. TotalClusters} \ {0}

(* The references to cluster c: links of the table and directory entries.  *)
Files == {e \in dirs \X Slots : data[e[1]][e[2]].kind = "file"}
Links(c) == {d \in Clusters : Entry(store, d) = c}
Named(c, files) == {e \in files : data[e[1]][e[2]].first = c}
Deleting(c) == op.pc \in {"free", "mark"} /\ c = op.info.first

(* No two files share a cluster and none of a file's clusters can be given *)
(* away: a cluster has one reference at most, and if it has one it is not  *)
(* free, but for the entry that fat32_delete is about to remove.           *)
SoundNow ==
  LET files == Files IN
  /\ Entry(store, Root) # Free
  /\ \A c \in Clusters :
       /\ \A d, e \in Links(c) : d = e
       /\ \A d, e \in Named(c, files) : d = e
       /\ Links(c) = {} \/ Named(c, files) = {}
       /\ Entry(store, c) = Free => Links(c) = {} /\ (Named(c, files) = {} \/ Deleting(c))
Sound == "torn" \in hurt \/ SoundNow

(* A cluster in use is reached from a file or the directory, until a write *)
(* starts at the end of a full cluster or a create finds no room for its   *)
(* entry.                                                                  *)
NoneLeaked ==
  hurt = {} => LET files == Files IN \A c \in Clusters :
    \/ c = Root \/ Entry(store, c) = Free \/ Links(c) # {}
    \/ Named(c, files) # {}
    \/ op.pc = "slot" /\ c = op.new
    \/ op.pc = "free" /\ c = op.cl

(* What fat32_find gives for n, and the byte of the file at p. *)
Lookup(n, files) == {e \in files : NameAt(e[1], e[2]) = n}
Holds(n, e) ==
  LET i == data[e[1]][e[2]]
      nth == Nth(i.first) IN
  /\ i.size = len[n]
  /\ \A p \in 0 .. (len[n] - 1) :
       LET c == nth[p \div ClusterSize] IN
       c \in Clusters /\ data[c][1 + (p % ClusterSize)] = Byte(n, p)

(* Between calls every file that was made and not deleted is found, with   *)
(* its size and the bytes written to it, at whatever cache sector, after   *)
(* whatever deletes and reuses, and after a crash that came when all was   *)
(* flushed; and no other.                                                  *)
Contents ==
  (op.pc = "idle" /\ fp.open = 0 /\ hurt \subseteq {"full"}) =>
    dirs = Chain(Root) /\ LET files == Files IN \A n \in Names :
      IF len[n] = Absent THEN Lookup(n, files) = {}
      ELSE \E e \in files : Lookup(n, files) = {e} /\ Holds(n, e)

(* A volume that says it is clean is: the flag of fat32_mount reports      *)
(* every crash that could have torn it, until somebody who was told so     *)
(* unmounts the volume as it is.                                           *)
CleanMeansSound ==
  (vol.mounted = 1 /\ vol.dirty = 0 /\ op.pc = "idle" /\ "hidden" \notin hurt) => SoundNow

(* A crash with nothing left to flush leaves the table as it was seen. *)
CleanCrashKeeps ==
  [][Crash /\ store.dirty = 0 => \A c \in Clusters : Entry(store', c) = Entry(store, c)]_vars

(* Every call returns: no chain it follows has a cycle. *)
CallsEnd == [](op.pc # "idle" => <>(op.pc = "idle"))

Kept(n) ==
  \E e \in Files : /\ NameAt(e[1], e[2]) = n /\ Holds(n, e)
                   /\ Entry(store, data[e[1]][e[2]].first) # Free

(* fat32.h of fat32_write: "Write `n` bytes to file at current position."  *)
(* Whatever was written is in the file afterwards.                         *)
WritesLand ==
  (op.pc = "idle" /\ fp.open = 0 /\ "torn" \notin hurt) =>
    \A n \in Names : len[n] # Absent => Kept(n)

(* fat32.h of fat32_close: "Close file. Flushes writes."  A file that was  *)
(* written and closed survives a crash that comes between calls.           *)
ClosedSurvives ==
  [][Crash /\ op.pc = "idle" /\ fp.open = 0 /\ hurt = {} =>
       \A n \in Names : len[n] > 0 => Kept(n)']_vars
=============================================================================
