------------------------------- MODULE Console ------------------------------
(***************************************************************************)
(* wubu_console_task of src/src/kernel/wubu_console.c between the two      *)
(* rings of the serial line: it drains the UART into the input ring, polls *)
(* the transmit ring, pops a byte and acts on it, which may print.  The    *)
(* UART's interrupt and the timer's come between any two accesses; other   *)
(* tasks print as well.                                                    *)
(***************************************************************************)
EXTENDS Serial, KlogTx

CONSTANTS
  Loads  \* bounds: bytes that come in and characters printed in one behaviour

VARIABLES
  load

all == <<serialVars, txVars, load>>

ConsoleInit == SerialInit /\ TxInit /\ load \in Loads

(* External: the other end of the line. *)
Line ==
  /\ (Arrive /\ arrived < load.arrive) \/ Raise
  /\ UNCHANGED <<txVars, load>>

Interrupt ==
  \/ Irq /\ UNCHANGED <<txVars, load>>
  \/ isr = 0 /\ Timer /\ printed' <= load.print /\ UNCHANGED <<serialVars, load>>

(* The task's own steps: in the serial driver, in klog.c, and between.     *)
Free == wr[Poller].pc = "idle"

Typing == Free /\ Input /\ UNCHANGED <<txVars, load>>

PollTx ==
  /\ isr = 0 /\ tpc = "poll" /\ Poll(Poller)
  /\ tpc' = "pop"
  /\ UNCHANGED <<vars, device, handler, byte, seen, story, load>>

(* A command runs, or the greeting: characters, then the next turn.        *)
Execute ==
  /\ isr = 0 /\ tpc = "exec" /\ printed < load.print /\ Putc(Poller)
  /\ UNCHANGED <<serialVars, load>>

Executed ==
  /\ isr = 0 /\ tpc = "exec" /\ Free
  /\ tpc' = "lsr"
  /\ UNCHANGED <<vars, device, handler, byte, seen, story, txVars, load>>

ConsoleTask ==
  \/ Typing \/ PollTx \/ Execute \/ Executed
  \/ isr = 0 /\ Inside(Poller) /\ UNCHANGED <<serialVars, load>>

(* Any other task. *)
Prints(w) == isr = 0 /\ printed < load.print /\ Putc(w) /\ UNCHANGED <<serialVars, load>>
GoesOn(w) == isr = 0 /\ Inside(w) /\ UNCHANGED <<serialVars, load>>
Others == Writers \ {Poller}

ConsoleNext ==
  \/ Line \/ Interrupt \/ ConsoleTask
  \/ \E w \in Others : Prints(w) \/ GoesOn(w)

ConsoleSpec == ConsoleInit /\ [][ConsoleNext]_all

(* A handler that is due runs to its end.  No task blocks in any of this,  *)
(* so that the scheduler comes back to each.  Infinitely many of the       *)
(* timer's interrupts find the UART ready to send.                         *)
SendsSome ==
  isr = 0 /\ (\E k \in 1 .. DrainLimit : Tick(FALSE, k)) /\ UNCHANGED <<serialVars, load>>
FairSpec ==
  /\ ConsoleSpec
  /\ WF_all(Irq /\ UNCHANGED <<txVars, load>>) /\ WF_all(SendsSome)
  /\ WF_all(ConsoleTask) /\ \A w \in Others : WF_all(GoesOn(w))

=============================================================================
