------------------------------- MODULE Serial -------------------------------
(***************************************************************************)
(* The input side of the serial console: src/src/kernel/wubu_serial.c on   *)
(* the ring of wubu_sync.c.  The UART keeps the bytes that have come in    *)
(* until the interrupt handler, wubu_serial_irq, or the console task's     *)
(* wubu_serial_drain reads them; both push into the ring, from which the   *)
(* task pops.  Everything runs on one processor: the handler can start     *)
(* between any two accesses of the task and runs to its end, with the      *)
(* variables ppc, head, data and count of Fifo as its push.  The bytes are *)
(* numbered in the order of their arrival; 0 is what the data register     *)
(* gives when no byte is waiting.                                          *)
(***************************************************************************)
EXTENDS Fifo, Sequences, Functions

CONSTANTS
  UartDepth  \* bytes the UART holds

VARIABLES
  uart, arrived, irq,  \* bytes waiting, bytes that have come, interrupt pending
  isr, hand,           \* the handler: 1 while it runs, the byte it has read
  tpc, byte, seen,     \* the task: what it does next, the byte and the head it has read
  eaten, dropped,      \* history: bytes popped, bytes that found the ring full
  raced                \* history: 1 once the handler pushed amid the task's push

device == <<uart, arrived, irq>>
handler == <<isr, hand>>
task == <<tpc, byte, seen>>
story == <<eaten, dropped, raced>>
serialVars == <<vars, device, handler, task, story>>

(* wubu_serial_init *)
SerialInit ==
  /\ Init
  /\ uart = <<>> /\ arrived = 0 /\ irq = 0
  /\ isr = 0 /\ hand = 0
  /\ tpc = "exec" /\ byte = 0 /\ seen = 0
  /\ eaten = <<>> /\ dropped = {} /\ raced = 0

(* External: a byte comes in; the UART asks for an interrupt at its        *)
(* trigger level or after a while.                                         *)
Arrive ==
  /\ Len(uart) < UartDepth
  /\ arrived' = arrived + 1 /\ uart' = Append(uart, arrived + 1)
  /\ UNCHANGED <<irq, vars, handler, task, story>>

Raise ==
  /\ uart # <<>> /\ irq = 0 /\ isr = 0
  /\ irq' = 1
  /\ UNCHANGED <<uart, arrived, vars, handler, task, story>>

-----------------------------------------------------------------------------
(* The task is between reading the status and writing the head, or has yet *)
(* to count the value that fills the ring: nobody else may push.           *)
Amid ==
  \/ tpc \in {"rbr", "test", "store", "load", "head"}
  \/ tpc = "count" /\ count + 1 = Capacity

(* wubu_serial_irq *)
IrqEnter ==
  /\ irq = 1 /\ isr = 0
  /\ irq' = 0 /\ isr' = 1
  /\ UNCHANGED <<uart, arrived, vars, hand, task, story>>

(* A turn of the loop: status, data register, and the push that fails ...  *)
IrqDrop ==
  /\ isr = 1 /\ ppc = "idle" /\ uart # <<>> /\ count >= Capacity
  /\ uart' = Tail(uart) /\ dropped' = dropped \cup {Head(uart)}
  /\ raced' = IF tpc = "rbr" THEN 1 ELSE raced
  /\ UNCHANGED <<arrived, irq, vars, handler, task, eaten>>

(* ... or goes on.                                                         *)
IrqTake ==
  /\ isr = 1 /\ uart # <<>> /\ PushTest
  /\ uart' = Tail(uart) /\ hand' = Head(uart)
  /\ raced' = IF Amid THEN 1 ELSE raced
  /\ UNCHANGED <<arrived, irq, isr, task, eaten, dropped>>

IrqPush ==
  /\ isr = 1
  /\ PushStore(hand) \/ PushHead \/ PushCount
  /\ UNCHANGED <<device, handler, task, story>>

IrqLeave ==
  /\ isr = 1 /\ ppc = "idle" /\ uart = <<>>
  /\ isr' = 0
  /\ UNCHANGED <<device, vars, hand, task, story>>

-----------------------------------------------------------------------------
(* Mutant: the task leaves the UART to the handler.                        *)
DrainStatusSkipping ==
  /\ isr = 0 /\ tpc = "lsr"
  /\ tpc' = "poll"
  /\ UNCHANGED <<device, vars, handler, byte, seen, story>>

(* wubu_serial_drain: the status register ...                              *)
DrainStatus ==
  /\ isr = 0 /\ tpc = "lsr"
  /\ tpc' = IF uart = <<>> THEN "poll" ELSE "rbr"
  /\ UNCHANGED <<device, vars, handler, byte, seen, story>>

(* ... the data register ...                                               *)
DrainData ==
  /\ isr = 0 /\ tpc = "rbr"
  /\ byte' = IF uart = <<>> THEN 0 ELSE Head(uart)
  /\ uart' = IF uart = <<>> THEN uart ELSE Tail(uart)
  /\ tpc' = "test"
  /\ UNCHANGED <<arrived, irq, vars, handler, seen, story>>

(* Mutant: the push does not look whether the ring is full.                *)
DrainTestMissing ==
  /\ isr = 0 /\ tpc = "test"
  /\ tpc' = "store"
  /\ UNCHANGED <<device, vars, handler, byte, seen, story>>

(* ... and wubu_fifo_push, which the handler may interrupt.                *)
DrainTest ==
  /\ isr = 0 /\ tpc = "test"
  /\ tpc' = IF count >= Capacity THEN "lsr" ELSE "store"
  /\ dropped' = IF count >= Capacity THEN dropped \cup {byte} ELSE dropped
  /\ UNCHANGED <<device, vars, handler, byte, seen, eaten, raced>>

(* Mutant: the slot after the head.                                        *)
DrainStoreAhead ==
  /\ isr = 0 /\ tpc = "store"
  /\ data' = [data EXCEPT ![(head + 1) % Capacity] = byte]
  /\ tpc' = "load"
  /\ UNCHANGED <<device, producer, consumer, count, handler, byte, seen, story>>

DrainStore ==
  /\ isr = 0 /\ tpc = "store"
  /\ data' = [data EXCEPT ![head] = byte]
  /\ tpc' = "load"
  /\ UNCHANGED <<device, producer, consumer, count, handler, byte, seen, story>>

DrainLoad ==
  /\ isr = 0 /\ tpc = "load"
  /\ seen' = head /\ tpc' = "head"
  /\ UNCHANGED <<device, vars, handler, byte, story>>

DrainHead ==
  /\ isr = 0 /\ tpc = "head"
  /\ head' = (seen + 1) % Capacity
  /\ tpc' = "count"
  /\ UNCHANGED <<device, ppc, sent, consumer, count, data, handler, byte, seen, story>>

DrainCount ==
  /\ isr = 0 /\ tpc = "count"
  /\ count' = count + 1 /\ sent' = sent + 1
  /\ tpc' = "lsr"
  /\ UNCHANGED <<device, head, ppc, consumer, data, handler, byte, seen, story>>

-----------------------------------------------------------------------------
(* wubu_serial_pop in wubu_console_task.  After an ESC the task pops again *)
(* at once, otherwise it acts on the byte.                                 *)
NothingToPop ==
  /\ isr = 0 /\ tpc = "pop" /\ cpc = "idle" /\ count = 0
  /\ tpc' = "lsr"
  /\ UNCHANGED <<device, vars, handler, byte, seen, story>>

Popping ==
  /\ isr = 0 /\ tpc = "pop"
  /\ PopTest("read") \/ PopRead \/ PopTail
  /\ UNCHANGED <<device, handler, task, story>>

Popped ==
  /\ isr = 0 /\ tpc = "pop" /\ PopCount
  /\ eaten' = Append(eaten, got)
  /\ tpc' \in {"exec", "pop"}
  /\ UNCHANGED <<device, handler, byte, seen, dropped, raced>>

Irq == IrqEnter \/ IrqDrop \/ IrqTake \/ IrqPush \/ IrqLeave
Input ==
  \/ DrainStatus \/ DrainData \/ DrainTest \/ DrainStore \/ DrainLoad \/ DrainHead \/ DrainCount
  \/ NothingToPop \/ Popping \/ Popped

-----------------------------------------------------------------------------
SerialTypeOK ==
  /\ TypeOK \/ raced = 1
  /\ Range(uart) \subseteq 1 .. arrived /\ Len(uart) <= UartDepth /\ irq \in {0, 1}
  /\ isr \in {0, 1} /\ hand \in 0 .. arrived /\ byte \in 0 .. arrived /\ seen \in Slots
  /\ tpc \in {"lsr", "rbr", "test", "store", "load", "head", "count", "poll", "pop", "exec"}
  /\ raced \in {0, 1}

(* The console sees the bytes that came in, each once and in order, unless *)
(* the handler has taken a byte between the task's reading of the status   *)
(* register and its new head, or filled the ring that the task has just    *)
(* filled and not counted: an interrupt anywhere else does no harm.        *)
InArrivalOrder ==
  raced = 0 => /\ 0 \notin Range(eaten)
               /\ \A i \in 2 .. Len(eaten) : eaten[i - 1] < eaten[i]
               /\ NoSlotRace

(* Until then none is forgotten either: a byte that is no longer on its    *)
(* way was popped or found the ring full.                                  *)
AtRest == tpc \in {"lsr", "poll", "pop", "exec"} /\ cpc = "idle" /\ isr = 0
NoneForgotten ==
  raced = 0 /\ AtRest /\ uart = <<>> /\ count = 0 => Range(eaten) \cup dropped = 1 .. arrived

(* Input is intact: in order, each byte once and none forgotten. *)
InputIntact == InArrivalOrder /\ NoneForgotten

(* Even then the ring is overfull by one value at most and its indices     *)
(* stay in the array.                                                      *)
OverfullByOne == count <= Capacity + 1 /\ head \in Slots /\ tail \in Slots

(* Whatever the interrupts do, the console gets to the end of its input.   *)
InputEnds == <>[](uart = <<>> /\ count = 0)

(* wubu_console.c, line 176: "Each byte is consumed exactly once (the data *)
(* register is a destructive read, whichever side wins)."                  *)
ConsumedOnce ==
  /\ 0 \notin Range(eaten)
  /\ \A i, j \in DOMAIN eaten : i # j => eaten[i] # eaten[j]
=============================================================================
