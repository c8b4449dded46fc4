---------------------------- MODULE HedgedReader ----------------------------
(***************************************************************************)
(* wubu_dram_hedge.c: replicated memory and its pool of reader threads.    *)
(*                                                                         *)
(* Every slot is stored once per replica.  wdh_reader_read publishes an    *)
(* index under a new ticket, waits until every worker thread has copied    *)
(* its own replica of the slot, and returns worker 0's copy.  The shared   *)
(* words are accessed one per step, so the threads interleave as the       *)
(* machine lets them; the barriers in the code keep those accesses in      *)
(* program order.  One user thread puts, reads and destroys.               *)
(***************************************************************************)
EXTENDS Integers, FiniteSets

CONSTANTS
  NumReplicas,  \* num_replicas
  PerChunk,     \* elements in a chunk of WDH_CHANNEL_OFFSET bytes
  RepStep,      \* distance of the replicas' bases in chunks: 1 by the
                \* 256-byte heuristic, 2^(channel_bit - 8) when it is detected
  SlotCount,    \* slots
  Values,       \* what a slot can hold
  Zero,         \* what fresh memory holds
  Failures,     \* the failures of wdh_reader_create that may occur:
                \* "spawn" (pthread_create) and "alloc" (malloc)
  MaxTickets    \* bound on the tickets published

ASSUME ReaderAssumption ==
  /\ NumReplicas \in Nat \ {0} /\ PerChunk \in Nat \ {0}
  /\ RepStep \in Nat \ {0} /\ SlotCount \in Nat \ {0}
  /\ Zero \in Values /\ MaxTickets \in Nat
  /\ Failures \subseteq {"spawn", "alloc"}

Replicas == 0 .. (NumReplicas - 1)
ReadSlots == 0 .. (SlotCount - 1)

VARIABLES
  mem,        \* the region, by chunk and element
  spawned,    \* the threads that were created
  n_workers, ticket, cur_idx, done, winner_val, stop,
  wpc, last, idx,   \* each worker's program counter and locals
  upc,        \* the user thread's program counter
  out,        \* what the latest read returned, and for which slot
  stored      \* history: the value last put into each slot

shared == <<spawned, n_workers, ticket, cur_idx, done, winner_val, stop>>
locals == <<wpc, last, idx>>
readerVars == <<mem, shared, locals, upc, out, stored>>

(* Broken: chunks one base apart instead of one stride. *)
CellOverlapping(i, r) == <<(i \div PerChunk) * RepStep + r * RepStep, i % PerChunk>>

(* wdh_addr *)
Cell(i, r) == <<(i \div PerChunk) * NumReplicas + r * RepStep, i % PerChunk>>

Cells == {Cell(i, r) : i \in ReadSlots, r \in Replicas}

Workers == 0 .. (spawned - 1)

(* wdh_init, and wdh_reader_create: all threads come up, or one of them    *)
(* fails and the pool is at once destroyed again.  A failed spawn lowers   *)
(* n_workers to the threads there are, a failed malloc does not.           *)
ReaderInit ==
  /\ mem = [c \in Cells |-> Zero] /\ stored = [i \in ReadSlots |-> Zero]
  /\ n_workers \in 0 .. NumReplicas /\ spawned \in 0 .. n_workers
  /\ \/ upc = "idle" /\ n_workers > 0 /\ spawned = n_workers
     \/ upc = "stop" /\ "spawn" \in Failures /\ n_workers < NumReplicas
        /\ spawned = n_workers
     \/ upc = "stop" /\ "alloc" \in Failures /\ spawned < n_workers
  /\ ticket = 0 /\ cur_idx = 0 /\ done = 0 /\ stop = 0
  /\ winner_val = [k \in Replicas |-> Zero]
  /\ wpc = [k \in Replicas |-> "top"]
  /\ last = [k \in Replicas |-> 0] /\ idx = [k \in Replicas |-> 0]
  /\ out = [slot |-> 0, val |-> Zero]

-----------------------------------------------------------------------------
(* The user thread. *)

wdh_put(i, v) ==
  /\ upc = "idle"
  /\ mem' = [c \in Cells |-> IF \E r \in Replicas : c = Cell(i, r) THEN v ELSE mem[c]]
  /\ stored' = [stored EXCEPT ![i] = v]
  /\ UNCHANGED <<shared, locals, upc, out>>

wdh_get(i) ==
  /\ upc = "idle"
  /\ out' = [slot |-> i, val |-> mem[Cell(i, 0)]]
  /\ UNCHANGED <<mem, shared, locals, upc, stored>>

wdh_reader_read(i) ==
  /\ upc = "idle" /\ ticket < MaxTickets
  /\ cur_idx' = i /\ upc' = "reset"
  /\ UNCHANGED <<mem, spawned, n_workers, ticket, done, winner_val, stop, locals, out, stored>>

ResetDone ==
  /\ upc = "reset"
  /\ done' = 0 /\ upc' = "publish"
  /\ UNCHANGED <<mem, spawned, n_workers, ticket, cur_idx, winner_val, stop, locals, out, stored>>

PublishTicket ==
  /\ upc = "publish"
  /\ ticket' = ticket + 1 /\ upc' = "wait"
  /\ UNCHANGED <<mem, spawned, n_workers, cur_idx, done, winner_val, stop, locals, out, stored>>

(* Broken: content with the first worker. *)
FirstLoaded ==
  /\ upc = "wait" /\ done >= 1
  /\ upc' = "fetch"
  /\ UNCHANGED <<mem, shared, locals, out, stored>>

AllLoaded ==
  /\ upc = "wait" /\ done >= n_workers
  /\ upc' = "fetch"
  /\ UNCHANGED <<mem, shared, locals, out, stored>>

Fetch ==
  /\ upc = "fetch"
  /\ out' = [slot |-> cur_idx, val |-> winner_val[0]]
  /\ upc' = "idle"
  /\ UNCHANGED <<mem, shared, locals, stored>>

wdh_reader_destroy ==
  /\ upc \in {"idle", "stop"}
  /\ stop' = 1 /\ upc' = "wake"
  /\ UNCHANGED <<mem, spawned, n_workers, ticket, cur_idx, done, winner_val, locals, out, stored>>

(* Broken: sets stop and publishes no ticket. *)
WakeSilently ==
  /\ upc = "wake"
  /\ upc' = "join"
  /\ UNCHANGED <<mem, shared, locals, out, stored>>

Wake ==
  /\ upc = "wake"
  /\ ticket' = ticket + 1 /\ upc' = "join"
  /\ UNCHANGED <<mem, spawned, n_workers, cur_idx, done, winner_val, stop, locals, out, stored>>

Join ==
  /\ upc = "join"
  /\ \A k \in 0 .. (n_workers - 1) : wpc[k] = "exit"
  /\ upc' = "gone"
  /\ UNCHANGED <<mem, shared, locals, out, stored>>

UserSteps == ResetDone \/ PublishTicket \/ AllLoaded \/ Fetch \/ Wake \/ Join
             \/ (upc = "stop" /\ wdh_reader_destroy)

-----------------------------------------------------------------------------
(* wdh_worker: a worker k that stands at `here' goes on at `there'. *)
Go(k, here, there) ==
  wpc[k] = here /\ wpc' = [wpc EXCEPT ![k] = there]

Top(k) ==
  /\ Go(k, "top", IF stop = 1 THEN "exit" ELSE "test")
  /\ UNCHANGED <<last, idx, shared>>

(* stop is a plain int: while only the ticket is looked at, the compiled   *)
(* loop may or may not load it again.  This step is the loop that does; a  *)
(* worker that never takes it spins on the ticket alone.                   *)
Spin(k) ==
  /\ ticket = last[k]
  /\ Go(k, "test", "top")
  /\ UNCHANGED <<last, idx, shared>>

NewTicket(k) ==
  /\ ticket # last[k]
  /\ Go(k, "test", "latch")
  /\ UNCHANGED <<last, idx, shared>>

Latch(k) ==
  /\ Go(k, "latch", "index")
  /\ last' = [last EXCEPT ![k] = ticket]
  /\ UNCHANGED <<idx, shared>>

Index(k) ==
  /\ Go(k, "index", "copy")
  /\ idx' = [idx EXCEPT ![k] = cur_idx]
  /\ UNCHANGED <<last, shared>>

Copy(k) ==
  /\ Go(k, "copy", "signal")
  /\ winner_val' = [winner_val EXCEPT ![k] = mem[Cell(idx[k], k)]]
  /\ UNCHANGED <<last, idx, spawned, n_workers, ticket, cur_idx, done, stop>>

Signal(k) ==
  /\ Go(k, "signal", IF ticket = last[k] THEN "add" ELSE "top")
  /\ UNCHANGED <<last, idx, shared>>

Add(k) ==
  /\ Go(k, "add", "top")
  /\ done' = done + 1
  /\ UNCHANGED <<last, idx, spawned, n_workers, ticket, cur_idx, winner_val, stop>>

(* The steps a worker's thread is sure to take once it has the processor.  *)
Advance(k) ==
  /\ \/ Top(k) \/ NewTicket(k) \/ Latch(k)
     \/ Index(k) \/ Copy(k) \/ Signal(k) \/ Add(k)
  /\ UNCHANGED <<mem, upc, out, stored>>

wdh_worker(k) == Advance(k) \/ (Spin(k) /\ UNCHANGED <<mem, upc, out, stored>>)

ReaderNext ==
  \/ UserSteps \/ wdh_reader_destroy
  \/ \E i \in ReadSlots : wdh_get(i) \/ wdh_reader_read(i)
  \/ \E i \in ReadSlots, v \in Values : wdh_put(i, v)
  \/ \E k \in Workers : wdh_worker(k)

ReaderSpec == ReaderInit /\ [][ReaderNext]_readerVars

(* The user thread goes on with what it has begun, and every worker thread *)
(* is given the processor again and again.  Nothing says that a spinning   *)
(* worker loads stop again.                                                *)
ReaderFairness == WF_readerVars(UserSteps) /\ \A k \in Replicas : WF_readerVars(k \in Workers /\ Advance(k))

FairReaderSpec == ReaderSpec /\ ReaderFairness

-----------------------------------------------------------------------------
ReaderTypeOK ==
  /\ mem \in [Cells -> Values] /\ stored \in [ReadSlots -> Values]
  /\ n_workers \in 0 .. NumReplicas /\ spawned \in 0 .. n_workers /\ ticket \in Nat /\ done \in Nat
  /\ cur_idx \in ReadSlots /\ stop \in {0, 1}
  /\ winner_val \in [Replicas -> Values]
  /\ wpc \in [Replicas -> {"top", "test", "latch", "index", "copy", "signal", "add", "exit"}]
  /\ last \in [Replicas -> Nat] /\ idx \in [Replicas -> ReadSlots]
  /\ upc \in {"idle", "reset", "publish", "wait", "fetch", "stop", "wake", "join", "gone"}
  /\ out \in [slot : ReadSlots, val : Values]

(* Between reads the pool is at rest: while the user thread may put or has *)
(* not yet published the next ticket, every worker has dealt with the      *)
(* latest ticket and looks only at stop and ticket.  wdh_put therefore     *)
(* never overlaps a worker's copy, and no late worker can add to the next  *)
(* read's count.                                                           *)
Resting(k) == wpc[k] \in {"top", "test"} /\ last[k] = ticket

QuietBetweenReads ==
  upc \in {"idle", "reset", "publish", "stop"} => \A k \in Workers : Resting(k)

(* wdh_reader_read and wdh_get return what was last put into the slot they *)
(* were asked for.                                                         *)
ReadReturnsStored ==
  [][Fetch \/ (\E h \in ReadSlots : wdh_get(h)) => out'.val = stored[out'.slot]]_readerVars

(* pthread_join is only called for threads that were created. *)
JoinsSpawned == upc = "join" => spawned = n_workers

(* A read returns and a destroy gets all its threads joined. *)
ReadsEnd == [](upc # "idle" => <>(upc \in {"idle", "gone"}))
=============================================================================
