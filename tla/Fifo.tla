-------------------------------- MODULE Fifo --------------------------------
(***************************************************************************)
(* The single-producer, single-consumer ring of src/src/kernel/wubu_sync.c *)
(* that carries an interrupt handler's bytes to a task.  Producer and      *)
(* consumer are interleaved at every access to a shared field.  The values *)
(* pushed are numbered: the n-th one accepted is n.  A push on a full ring *)
(* and a pop or peek on an empty one change nothing.                       *)
(***************************************************************************)
EXTENDS Integers

CONSTANTS
  Capacity,  \* f->capacity
  MaxSent    \* bound: values pushed

ASSUME FifoAssumption == Capacity \in Nat \ {0} /\ MaxSent \in Nat

VARIABLES
  head, tail, count, data,  \* the fields of wubu_fifo_t
  ppc, cpc,                 \* what the producer and the consumer do next
  got,                      \* the value the consumer has read
  sent, received            \* history: the pushes and pops completed

producer == <<head, ppc, sent>>
consumer == <<tail, cpc, got, received>>
vars == <<producer, consumer, count, data>>

Slots == 0..(Capacity - 1)

Init ==
  /\ head = 0 /\ tail = 0 /\ count = 0
  /\ data = [s \in Slots |-> 0]
  /\ ppc = "idle" /\ cpc = "idle" /\ got = 0
  /\ sent = 0 /\ received = 0

(* wubu_fifo_push: the test of count ...                                   *)
PushTest ==
  /\ ppc = "idle" /\ sent < MaxSent
  /\ count < Capacity
  /\ ppc' = "store"
  /\ UNCHANGED <<head, sent, consumer, count, data>>

(* ... the store into the slot ...                                         *)
PushStore(v) ==
  /\ ppc = "store"
  /\ data' = [data EXCEPT ![head] = v]
  /\ ppc' = "head"
  /\ UNCHANGED <<head, sent, consumer, count>>

(* ... the new head ...                                                    *)
PushHead ==
  /\ ppc = "head"
  /\ head' = (head + 1) % Capacity
  /\ ppc' = "count"
  /\ UNCHANGED <<sent, consumer, count, data>>

(* ... and the atomic increment that publishes the value.                  *)
PushCount ==
  /\ ppc = "count"
  /\ count' = count + 1
  /\ sent' = sent + 1
  /\ ppc' = "idle"
  /\ UNCHANGED <<head, consumer, data>>

(* wubu_fifo_pop and wubu_fifo_peek: the test of count ...                 *)
PopTest(next) ==
  /\ cpc = "idle" /\ count > 0
  /\ cpc' = next
  /\ UNCHANGED <<producer, tail, got, received, count, data>>

(* ... the reading of the slot ...                                         *)
PopRead ==
  /\ cpc = "read"
  /\ got' = data[tail]
  /\ cpc' = "tail"
  /\ UNCHANGED <<producer, tail, received, count, data>>

(* ... the new tail ...                                                    *)
PopTail ==
  /\ cpc = "tail"
  /\ tail' = (tail + 1) % Capacity
  /\ cpc' = "count"
  /\ UNCHANGED <<producer, got, received, count, data>>

(* ... and the atomic decrement that frees the slot.                       *)
PopCount ==
  /\ cpc = "count"
  /\ count' = count - 1
  /\ received' = received + 1
  /\ cpc' = "idle"
  /\ UNCHANGED <<producer, tail, got, data>>

(* A peek reads the slot and leaves it. *)
PeekRead ==
  /\ cpc = "peek"
  /\ got' = data[tail]
  /\ cpc' = "peeked"
  /\ UNCHANGED <<producer, tail, received, count, data>>

PeekReturn ==
  /\ cpc = "peeked"
  /\ cpc' = "idle"
  /\ UNCHANGED <<producer, tail, got, received, count, data>>

Next ==
  \/ PushTest \/ PushStore(sent + 1) \/ PushHead \/ PushCount
  \/ PopTest("read") \/ PopRead \/ PopTail \/ PopCount
  \/ PopTest("peek") \/ PeekRead \/ PeekReturn

Spec == Init /\ [][Next]_vars

-----------------------------------------------------------------------------
TypeOK ==
  /\ head \in Slots /\ tail \in Slots /\ count \in 0..Capacity
  /\ data \in [Slots -> Nat]
  /\ ppc \in {"idle", "store", "head", "count"}
  /\ cpc \in {"idle", "read", "tail", "count", "peek", "peeked"}
  /\ got \in Nat /\ sent \in Nat /\ received \in Nat

(* test_sync.c: "SPSC preserves order".  What wubu_fifo_pop and            *)
(* wubu_fifo_peek read is the oldest value not yet popped: none is lost,   *)
(* read twice or out of order, wherever the other side is in its call and  *)
(* however often the indices have wrapped.                                 *)
InOrder == cpc \in {"tail", "count", "peeked"} => got = received + 1

(* data[] is not volatile and its accesses are not atomic: producer and    *)
(* consumer are never at the same slot at once.                            *)
NoSlotRace == ppc = "store" /\ cpc \in {"read", "peek"} => head # tail
=============================================================================
