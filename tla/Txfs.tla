-------------------------------- MODULE Txfs --------------------------------
(***************************************************************************)
(* The transactional filesystem journal, src/src/kernel/txfs.c: one active *)
(* transaction, a fixed journal of equal-sized entries, and a header whose *)
(* counters say how much of the journal is written, committed and applied. *)
(*                                                                         *)
(* txfs_commit is split at its phases, and a crash may fall between any    *)
(* two of them.  What survives a crash is what the code puts in            *)
(* tx->journal: the entries and the copy of the header that                *)
(* journal_update_checksum stores at its start.                            *)
(***************************************************************************)
EXTENDS Naturals

CONSTANTS
  MaxOps,    \* TXFS_MAX_TXN_OPS, the operations one transaction can hold
  Capacity,  \* the entries that fit in TXFS_JOURNAL_SIZE after the header
  MaxTxn,    \* bound: transactions begun
  MaxCrash,  \* bound: crashes
  MaxRot     \* bound: journal entries whose data is damaged while down

ASSUME TxfsAssumption ==
  /\ MaxOps \in Nat \ {0}
  /\ Capacity \in Nat \ {0}
  /\ MaxTxn \in Nat
  /\ MaxCrash \in Nat
  /\ MaxRot \in Nat

VARIABLES
  header,   \* tx->header: next (txn_id_counter), entries, committed, applied
  disk,     \* the header copy at the start of tx->journal
  journal,  \* the entry slots of tx->journal: the operation each one holds
  size,     \* the entries tx->journal_size leaves room for
  txn,      \* tx->active_txn: id, ops (op_count), and tx->txn_active
  pc,       \* where txfs_commit or txfs_recover is
  i,        \* the loop index of that function
  fs,       \* the slots whose operation the filesystem has performed
  intent,   \* the op_count each transaction id was committed with
  crashes,  \* the crashes so far
  corrupt,  \* the slots whose data no longer matches its data_crc
  rots      \* the entries damaged so far

(* What the passage of time outside the code can do to the machine. *)
faults == <<crashes, rots>>

vars == <<header, disk, journal, size, txn, pc, i, fs, intent, crashes,
          corrupt, rots>>

Ids == 1..MaxTxn
Slots == 1..Capacity
NoEntry == [txn |-> 0, op |-> 0]
FreshHeader == [next |-> 1, entries |-> 0, committed |-> 0, applied |-> 0]
NoTxn == [id |-> 0, ops |-> 0, active |-> 0]

(* txfs_init: a zeroed journal and header, no active transaction. *)
Init ==
  /\ header = FreshHeader
  /\ disk = FreshHeader
  /\ journal = [s \in Slots |-> NoEntry]
  /\ size = Capacity
  /\ txn = NoTxn
  /\ pc = "idle"
  /\ i = 0
  /\ fs = {}
  /\ intent = [t \in Ids |-> 0]
  /\ crashes = 0
  /\ corrupt = {}
  /\ rots = 0

-----------------------------------------------------------------------------
(* Building a transaction.                                                 *)

txfs_begin ==
  /\ pc = "idle" /\ txn.active = 0
  /\ header.next <= MaxTxn
  /\ txn' = [id |-> header.next, ops |-> 0, active |-> 1]
  /\ header' = [header EXCEPT !.next = @ + 1]
  /\ UNCHANGED <<disk, journal, size, pc, i, fs, intent, corrupt, faults>>

(* txfs_write, _truncate, _create, _delete, _mkdir and _rename differ only *)
(* in what add_op stores in the operation.                                 *)
add_op ==
  /\ pc = "idle" /\ txn.active = 1
  /\ txn.ops < MaxOps
  /\ txn' = [txn EXCEPT !.ops = @ + 1]
  /\ UNCHANGED <<header, disk, journal, size, pc, i, fs, intent, corrupt, faults>>

txfs_abort ==
  /\ pc = "idle" /\ txn.active = 1
  /\ txn' = [txn EXCEPT !.active = 0]
  /\ UNCHANGED <<header, disk, journal, size, pc, i, fs, intent, corrupt, faults>>

-----------------------------------------------------------------------------
(* txfs_commit, phase by phase.                                            *)

CommitEmpty ==
  /\ pc = "idle" /\ txn.active = 1 /\ txn.ops = 0
  /\ txn' = [txn EXCEPT !.active = 0]
  /\ UNCHANGED <<header, disk, journal, size, pc, i, fs, intent, corrupt, faults>>

CommitStart ==
  /\ pc = "idle" /\ txn.active = 1 /\ txn.ops > 0
  /\ pc' = "journal"
  /\ i' = 0
  /\ intent' = [intent EXCEPT ![txn.id] = txn.ops]
  /\ UNCHANGED <<header, disk, journal, size, txn, fs, corrupt, faults>>

(* Phase 1, one operation: journal_write_entry finds room. *)
WriteEntry ==
  /\ pc = "journal" /\ i < txn.ops
  /\ header.entries < size
  /\ LET slot == header.entries + 1
     IN /\ journal' = [journal EXCEPT ![slot] = [txn |-> txn.id, op |-> i]]
        /\ fs' = fs \ {slot}
        /\ corrupt' = corrupt \ {slot}
  /\ header' = [header EXCEPT !.entries = @ + 1]
  /\ i' = i + 1
  /\ UNCHANGED <<disk, size, txn, pc, intent, faults>>

(* Mutant of JournalFull: the loop is left with break, not with return. *)
JournalFullCommits ==
  /\ pc = "journal" /\ i < txn.ops
  /\ header.entries >= size
  /\ header' = [header EXCEPT !.committed = header.entries]
  /\ disk' = header'
  /\ txn' = [txn EXCEPT !.active = 0]
  /\ pc' = "idle"
  /\ i' = 0
  /\ UNCHANGED <<journal, size, fs, intent, corrupt, faults>>

(* Phase 1, one operation: the journal is full and the commit aborts.  The *)
(* entries already written stay counted in header.entries.                 *)
JournalFull ==
  /\ pc = "journal" /\ i < txn.ops
  /\ header.entries >= size
  /\ txn' = [txn EXCEPT !.active = 0]
  /\ pc' = "idle"
  /\ i' = 0
  /\ UNCHANGED <<header, disk, journal, size, fs, intent, corrupt, faults>>

(* Phase 2: committed_count = entry_count, then journal_update_checksum. *)
MarkCommitted ==
  /\ pc = "journal" /\ i = txn.ops
  /\ header' = [header EXCEPT !.committed = header.entries]
  /\ disk' = header'
  /\ pc' = "apply"
  /\ i' = 0
  /\ UNCHANGED <<journal, size, txn, fs, intent, corrupt, faults>>

(* Phase 3, one operation of the transaction itself. *)
ApplyOp ==
  /\ pc = "apply" /\ i < txn.ops
  /\ fs' = fs \cup {header.entries - txn.ops + i + 1}
  /\ i' = i + 1
  /\ UNCHANGED <<header, disk, journal, size, txn, pc, intent, corrupt, faults>>

(* Mutant of Checkpoint: applied_count is stored before the ops are applied. *)
CheckpointFirst ==
  /\ pc = "apply" /\ header.applied # header.committed
  /\ header' = [header EXCEPT !.applied = header.committed]
  /\ disk' = header'
  /\ UNCHANGED <<journal, size, txn, pc, i, fs, intent, corrupt, faults>>

(* Phase 4: applied_count = committed_count, then journal_update_checksum. *)
Checkpoint ==
  /\ pc = "apply" /\ i = txn.ops
  /\ header' = [header EXCEPT !.applied = header.committed]
  /\ disk' = header'
  /\ txn' = [txn EXCEPT !.active = 0]
  /\ pc' = "idle"
  /\ i' = 0
  /\ UNCHANGED <<journal, size, fs, intent, corrupt, faults>>

-----------------------------------------------------------------------------
(* Crash, mount and recovery.                                              *)

(* Power is lost: everything but the journal and its header copy is gone. *)
Crash ==
  /\ pc # "down" /\ size # 0
  /\ crashes < MaxCrash
  /\ crashes' = crashes + 1
  /\ pc' = "down"
  /\ txn' = NoTxn
  /\ i' = 0
  /\ UNCHANGED <<header, disk, journal, size, fs, intent, corrupt, rots>>

(* The data of an entry is damaged while the machine is down. *)
Rot(slot) ==
  /\ pc = "down" /\ rots < MaxRot
  /\ journal[slot] # NoEntry
  /\ corrupt' = corrupt \cup {slot}
  /\ rots' = rots + 1
  /\ UNCHANGED <<header, disk, journal, size, txn, pc, i, fs, intent, crashes>>

(* Mutant of Mount: the journal is kept but its header is started afresh. *)
MountFresh ==
  /\ pc = "down"
  /\ header' = FreshHeader
  /\ pc' = "idle"
  /\ UNCHANGED <<disk, journal, size, txn, i, fs, intent, corrupt, faults>>

(* Mutant of Mount: the header is read back and txfs_recover not called. *)
MountNoRecover ==
  /\ pc = "down"
  /\ header' = disk
  /\ pc' = "idle"
  /\ UNCHANGED <<disk, journal, size, txn, i, fs, intent, corrupt, faults>>

(* The machine comes up: the header is read back from the journal, and     *)
(* txfs_recover called, which returns at once when nothing is unapplied.   *)
Mount ==
  /\ pc = "down"
  /\ header' = disk
  /\ pc' = IF disk.committed # disk.applied THEN "recover" ELSE "idle"
  /\ i' = disk.applied
  /\ UNCHANGED <<disk, journal, size, txn, fs, intent, corrupt, faults>>

(* txfs_recover, one iteration: the entry's CRC is right and it is applied. *)
Replay ==
  /\ pc = "recover" /\ i < header.committed
  /\ i + 1 \notin corrupt
  /\ fs' = fs \cup {i + 1}
  /\ i' = i + 1
  /\ UNCHANGED <<header, disk, journal, size, txn, pc, intent, corrupt, faults>>

(* txfs_recover, after the loop, which a damaged entry ends early. *)
RecoverDone ==
  /\ pc = "recover"
  /\ i = header.committed \/ i + 1 \in corrupt
  /\ header' = [header EXCEPT !.applied = i]
  /\ disk' = header'
  /\ pc' = "idle"
  /\ i' = 0
  /\ UNCHANGED <<journal, size, txn, fs, intent, corrupt, faults>>

(* txfs_shutdown: abort the active transaction and free the journal. *)
txfs_shutdown ==
  /\ pc = "idle" /\ size # 0
  /\ txn' = [txn EXCEPT !.active = 0]
  /\ size' = 0
  /\ UNCHANGED <<header, disk, journal, pc, i, fs, intent, corrupt, faults>>

Next ==
  \/ txfs_begin \/ add_op \/ txfs_abort
  \/ CommitEmpty \/ CommitStart \/ WriteEntry \/ JournalFull
  \/ MarkCommitted \/ ApplyOp \/ Checkpoint
  \/ Crash \/ (\E slot \in Slots : Rot(slot)) \/ Mount \/ Replay \/ RecoverDone
  \/ txfs_shutdown

Spec == Init /\ [][Next]_vars

(* A started commit, and a mount with its recovery, run to their end: they *)
(* are straight-line code with no wait in them.                            *)
Fairness ==
  WF_vars(WriteEntry \/ JournalFull \/ MarkCommitted \/ ApplyOp \/ Checkpoint
            \/ Mount \/ Replay \/ RecoverDone)

FairSpec == Spec /\ Fairness

-----------------------------------------------------------------------------
(* Every counter, slot and index is in its range. *)
TypeOK ==
  LET Header == [next : 1..(MaxTxn + 1), entries : 0..Capacity,
                 committed : 0..Capacity, applied : 0..Capacity]
  IN /\ header \in Header
     /\ disk \in Header
     /\ journal \in [Slots -> [txn : 0..MaxTxn, op : 0..MaxOps]]
     /\ size \in {0, Capacity}
     /\ txn \in [id : 0..MaxTxn, ops : 0..MaxOps, active : {0, 1}]
     /\ pc \in {"idle", "journal", "apply", "recover", "down"}
     /\ i \in Nat
     /\ fs \subseteq Slots
     /\ intent \in [Ids -> 0..MaxOps]
     /\ corrupt \subseteq Slots
     /\ crashes \in 0..MaxCrash /\ rots \in 0..MaxRot

(* The slots where the transaction of the entry in slot k must lie. *)
Extent(k) ==
  LET first == k - journal[k].op
  IN first..(first + intent[journal[k].txn] - 1)

(* txfs.h's atomicity: the part of the journal a recovery would replay     *)
(* consists of whole transactions, each in one piece and in the order its  *)
(* operations were added, whatever commits failed on a full journal and    *)
(* wherever the machine crashed inside txfs_commit.                        *)
Atomicity ==
  \A k \in 1..disk.committed :
    /\ journal[k].txn \in Ids
    /\ \A m \in Extent(k) :
         /\ m \in 1..disk.committed
         /\ journal[m] = [txn |-> journal[k].txn,
                          op |-> journal[k].op + m - k]

(* The reason atomicity survives a commit that txfs_commit gives up half   *)
(* way: the entries it leaves behind fill the journal, so no later commit  *)
(* can sweep them into committed_count.                                    *)
LeftoversFillJournal ==
  pc = "idle" /\ header.entries > header.committed => header.entries = Capacity

(* txfs.h on applied_count: "Entries that have been applied".  The         *)
(* operation of each entry it counts was performed, by txfs_commit or by   *)
(* txfs_recover, both for the counter in memory and for the copy a mount   *)
(* would read.                                                             *)
AppliedPerformed ==
  /\ 1..disk.applied \subseteq fs
  /\ pc # "down" => 1..header.applied \subseteq fs

(* It does as long as no entry was damaged: neither a crash nor a commit   *)
(* that fails makes applied_count run ahead of the filesystem.             *)
AppliedUndamaged == rots = 0 => AppliedPerformed

(* Committed entries are final: no step lowers the committed count that    *)
(* survives a crash, nor rewrites a journal slot below it.                 *)
CommittedFinal ==
  [][/\ disk.committed <= disk'.committed
     /\ \A k \in 1..disk.committed : journal'[k] = journal[k]]_vars

(* Once a transaction's entries are marked committed, each one is in the   *)
(* end performed on the filesystem, through however many crashes, unless   *)
(* an entry is damaged.                                                    *)
CommittedGetsApplied ==
  \A k \in Slots : (k <= disk.committed) ~> (k \in fs \/ rots > 0)

(* txfs.h, design step 4, "Checkpoint: after apply, journal is truncated": *)
(* with every entry applied and no transaction open, the journal is empty. *)
CheckpointTruncates ==
  pc = "idle" /\ txn.active = 0 /\ header.applied = header.entries
    => header.entries = 0
=============================================================================
