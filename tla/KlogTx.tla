------------------------------- MODULE KlogTx -------------------------------
(***************************************************************************)
(* The output side of the serial console: the transmit ring of             *)
(* src/src/kernel/klog.c.  putc_raw puts a character into the ring and     *)
(* sends what the UART takes; the timer interrupt and the console task     *)
(* send without putting.  Tasks print with interrupts on and are preempted *)
(* anywhere, so that several of them may be in these functions; the timer  *)
(* interrupt's handler runs to its end between two accesses of a task.     *)
(* Characters are numbered in the order in which they are printed; 0 is a  *)
(* slot never written.                                                     *)
(***************************************************************************)
EXTENDS Integers, Sequences

CONSTANTS
  Writers,     \* tasks that print
  Poller,      \* the one of them that polls
  TxSize,      \* TX_RING_SZ
  DrainLimit   \* characters one tx_drain sends at most

ASSUME KlogAssumption == TxSize \in Nat \ {0} /\ DrainLimit \in Nat /\ Poller \in Writers

VARIABLES
  g_tx_head, g_tx_tail, g_tx_ring,
  wr,            \* what each task does in putc_raw or klog_tx_poll
  printed, due,  \* history: characters printed, those in the ring and not sent
  wrong,         \*   1 once another one was sent than the one due
  mixed          \*   1 once two contexts were at one end of the ring at once

ring == <<g_tx_head, g_tx_tail, g_tx_ring>>
txVars == <<ring, wr, printed, due, wrong, mixed>>

TxSlots == 0 .. (TxSize - 1)
After(i) == (i + 1) % TxSize
AtRestTx == [pc |-> "idle", h |-> 0, t |-> 0, c |-> 0, n |-> 0]

TxInit ==
  /\ g_tx_head = 0 /\ g_tx_tail = 0 /\ g_tx_ring = [i \in TxSlots |-> 0]
  /\ wr = [w \in Writers |-> AtRestTx]
  /\ printed = 0 /\ due = <<>> /\ wrong = 0 /\ mixed = 0

(* Tasks that have chosen a slot to write, or to send, and not moved on.   *)
Putting == {w \in Writers : wr[w].pc \in {"store", "head"}}
Sending == {w \in Writers : wr[w].pc \in {"out", "load", "tail"}}

(* The characters s are sent when those of d are due. *)
Send(d, s) ==
  /\ wrong' = IF Len(s) <= Len(d) /\ s = SubSeq(d, 1, Len(s)) THEN wrong ELSE 1
  /\ due' = IF wrong' = 0 THEN SubSeq(d, Len(s) + 1, Len(d)) ELSE <<>>

(* tx_push: the two indices and the test; a full ring drops the character. *)
Putc(w) ==
  /\ wr[w].pc = "idle"
  /\ printed' = printed + 1
  /\ LET full == After(g_tx_head) = g_tx_tail IN
     /\ wr' = [wr EXCEPT ![w] = [AtRestTx EXCEPT !.pc = IF full THEN "test" ELSE "store",
                                   !.h = g_tx_head, !.c = printed + 1]]
     /\ due' = IF full THEN due ELSE Append(due, printed + 1)
     /\ mixed' = IF ~full /\ Putting # {} THEN 1 ELSE mixed
  /\ UNCHANGED <<ring, wrong>>

(* Mutant: the slot after the head.                                        *)
PutStoreAhead(w) ==
  /\ wr[w].pc = "store"
  /\ g_tx_ring' = [g_tx_ring EXCEPT ![After(wr[w].h)] = wr[w].c]
  /\ wr' = [wr EXCEPT ![w].pc = "head"]
  /\ UNCHANGED <<g_tx_head, g_tx_tail, printed, due, wrong, mixed>>

PutStore(w) ==
  /\ wr[w].pc = "store"
  /\ g_tx_ring' = [g_tx_ring EXCEPT ![wr[w].h] = wr[w].c]
  /\ wr' = [wr EXCEPT ![w].pc = "head"]
  /\ UNCHANGED <<g_tx_head, g_tx_tail, printed, due, wrong, mixed>>

PutHead(w) ==
  /\ wr[w].pc = "head"
  /\ g_tx_head' = After(wr[w].h)
  /\ wr' = [wr EXCEPT ![w].pc = "test"]
  /\ UNCHANGED <<g_tx_tail, g_tx_ring, printed, due, wrong, mixed>>

(* klog_tx_poll of the console task.                                       *)
Poll(w) ==
  /\ wr[w].pc = "idle"
  /\ wr' = [wr EXCEPT ![w] = [AtRestTx EXCEPT !.pc = "test"]]
  /\ UNCHANGED <<ring, printed, due, wrong, mixed>>

(* tx_drain: the loop's test and the line status, which may say busy ...   *)
DrainEnd(w) ==
  /\ wr[w].pc = "test"
  /\ wr' = [wr EXCEPT ![w] = AtRestTx]
  /\ UNCHANGED <<ring, printed, due, wrong, mixed>>

DrainOn(w) ==
  /\ wr[w].pc = "test" /\ g_tx_head # g_tx_tail /\ wr[w].n < DrainLimit
  /\ wr' = [wr EXCEPT ![w].pc = "out"]
  /\ mixed' = IF Sending # {} THEN 1 ELSE mixed
  /\ UNCHANGED <<ring, printed, due, wrong>>

(* ... the character at the tail is sent ...                               *)
DrainOut(w) ==
  /\ wr[w].pc = "out"
  /\ Send(due, <<g_tx_ring[g_tx_tail]>>)
  /\ wr' = [wr EXCEPT ![w].pc = "load"]
  /\ UNCHANGED <<ring, printed, mixed>>

(* ... and the tail moves on.                                              *)
DrainTailLoad(w) ==
  /\ wr[w].pc = "load"
  /\ wr' = [wr EXCEPT ![w] = [@ EXCEPT !.pc = "tail", !.t = g_tx_tail]]
  /\ UNCHANGED <<ring, printed, due, wrong, mixed>>

DrainTail(w) ==
  /\ wr[w].pc = "tail"
  /\ g_tx_tail' = After(wr[w].t)
  /\ wr' = [wr EXCEPT ![w] = [@ EXCEPT !.pc = "test", !.n = wr[w].n + 1]]
  /\ UNCHANGED <<g_tx_head, g_tx_ring, printed, due, wrong, mixed>>

-----------------------------------------------------------------------------
(* The k oldest characters of a ring. *)
Oldest(r, tail, k) == [i \in 1 .. k |-> r[(tail + i - 1) % TxSize]]
(* Mutant: the last character stays. *)
FilledButOne(head) == IF head = g_tx_tail THEN 0 ELSE ((head - g_tx_tail) % TxSize) - 1
Filled(head) == (head - g_tx_tail) % TxSize

(* The timer interrupt: klog_tx_poll at its end, after it has printed a    *)
(* character (the watchdog's and the supervisor's reports) or nothing.     *)
Tick(prints, k) ==
  LET full == After(g_tx_head) = g_tx_tail
      puts == prints /\ ~full
      head == IF puts THEN After(g_tx_head) ELSE g_tx_head
      r == IF puts THEN [g_tx_ring EXCEPT ![g_tx_head] = printed + 1] ELSE g_tx_ring IN
  /\ k <= Filled(head)
  /\ printed' = IF prints THEN printed + 1 ELSE printed
  /\ g_tx_head' = head /\ g_tx_ring' = r
  /\ g_tx_tail' = (g_tx_tail + k) % TxSize
  /\ Send(IF puts THEN Append(due, printed + 1) ELSE due, Oldest(r, g_tx_tail, k))
  /\ mixed' = IF (puts /\ Putting # {}) \/ (k > 0 /\ Sending # {}) THEN 1 ELSE mixed
  /\ UNCHANGED wr

Timer == \E prints \in BOOLEAN, k \in 0 .. DrainLimit : Tick(prints, k)
Inside(w) ==
  \/ PutStore(w) \/ PutHead(w)
  \/ DrainEnd(w) \/ DrainOn(w) \/ DrainOut(w) \/ DrainTailLoad(w) \/ DrainTail(w)

-----------------------------------------------------------------------------
TxTypeOK ==
  /\ g_tx_head \in TxSlots /\ g_tx_tail \in TxSlots /\ g_tx_ring \in [TxSlots -> 0 .. printed]
  /\ wr \in [Writers -> [pc : {"idle", "store", "head", "test", "out", "load", "tail"},
             h : TxSlots, t : TxSlots, c : 0 .. printed, n : 0 .. DrainLimit]]
  /\ mixed \in {0, 1}

(* The characters that were put into the ring are sent, each once and in   *)
(* order, until two contexts put at once or send at once.  One that puts   *)
(* while another sends does no harm, whether task or interrupt.            *)
SentInOrder == mixed = 0 => wrong = 0

(* What is in the ring gets sent, until the contexts have mixed: then two  *)
(* of them can keep the tail ahead of the head.                            *)
Flushes == <>[](mixed = 1 \/ g_tx_head = g_tx_tail)

(* klog.c, lines 81-82: "ISR-safe: the ring is only touched with           *)
(* interrupts off or from one context at a time."  If it were so, no       *)
(* character would be sent that is not due.                                *)
OneContext == wrong = 0
=============================================================================
