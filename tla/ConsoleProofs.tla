---------------------------- MODULE ConsoleProofs ---------------------------
(***************************************************************************)
(* Theorems about the two rings of the console, for any capacities and any *)
(* number of tasks that print: wubu_fifo alone with one producer and one   *)
(* consumer; the input ring with the interrupt handler and the task both   *)
(* producing; the transmit ring with tasks and the timer at both ends.     *)
(***************************************************************************)
EXTENDS Console, SequenceTheorems, TLAPS

-----------------------------------------------------------------------------
(* wubu_fifo between one producer and one consumer.  The invariant counts  *)
(* the slots from tail instead of using %: the k-th slot from tail holds   *)
(* the k-th value not yet taken, and head is as many slots from tail as    *)
(* there are values between the indices.                                   *)

(* The values head and tail have passed, and the values stored. *)
Moved == IF ppc = "count" THEN sent + 1 ELSE sent
Taken == IF cpc = "count" THEN received + 1 ELSE received
Written == IF ppc \in {"head", "count"} THEN sent + 1 ELSE sent

(* A slot counted from slot 0 that may lie in the next turn of the ring. *)
Pos(x) == IF x < Capacity THEN x ELSE x - Capacity

Counts ==
  /\ count = sent - received
  /\ ppc # "idle" => count < Capacity
  /\ cpc # "idle" => count > 0

Layout ==
  /\ head = Pos(tail + (Moved - Taken))
  /\ \A k \in 0..(Capacity - 1) : k < Written - Taken => data[Pos(tail + k)] = Taken + 1 + k

FifoInv == TypeOK /\ Counts /\ Layout /\ InOrder

-----------------------------------------------------------------------------
(* The code's (x + 1) % capacity is the next slot of the ring. *)
LEMMA Wrap ==
  ASSUME NEW x \in Slots
  PROVE  (x + 1) % Capacity = Pos(x + 1) /\ Pos(x + 1) \in Slots
<1>1. CASE x + 1 = Capacity
  <2>1. Capacity % Capacity = 0
    BY FifoAssumption
  <2> QED
    BY <1>1, <2>1, FifoAssumption DEF Slots, Pos
<1>2. CASE x + 1 < Capacity
  <2>1. (x + 1) % Capacity = x + 1
    BY <1>2, FifoAssumption DEF Slots
  <2> QED
    BY <1>2, <2>1, FifoAssumption DEF Slots, Pos
<1> QED
  BY <1>1, <1>2, FifoAssumption DEF Slots

(* Counting on from the next slot, and one slot on from a counted one. *)
LEMMA Shift ==
  ASSUME NEW x \in Slots, NEW d \in 0..(Capacity - 1)
  PROVE  Pos(Pos(x + 1) + d) = Pos(x + (d + 1)) /\ Pos(Pos(x + d) + 1) = Pos(x + (d + 1))
BY FifoAssumption DEF Pos, Slots

(* Slots less than a turn apart are different slots. *)
LEMMA Distinct ==
  ASSUME NEW x \in Slots, NEW d \in 0..(Capacity - 1), NEW e \in 0..(Capacity - 1), d < e
  PROVE  Pos(x + d) \in Slots /\ Pos(x + d) # Pos(x + e)
BY FifoAssumption DEF Pos, Slots

(* The empty ring that wubu_fifo_init makes satisfies the invariant. *)
LEMMA FifoInit == Init => FifoInv
BY FifoAssumption DEF Init, FifoInv, TypeOK, Counts, Layout, InOrder, Moved, Taken, Written, Pos,
                      Slots

(* Every step of a push keeps the invariant. *)
LEMMA PushSteps ==
  ASSUME FifoInv, PushTest \/ PushStore(sent + 1) \/ PushHead \/ PushCount
  PROVE  FifoInv'
<1> USE FifoAssumption
<1>1. CASE PushTest
  BY <1>1 DEF PushTest, FifoInv, TypeOK, Counts, Layout, InOrder, Moved, Taken, Written, Pos,
              Slots, consumer
<1>2. CASE PushStore(sent + 1)
  <2>1. TypeOK' /\ Counts' /\ InOrder'
    BY <1>2 DEF PushStore, FifoInv, TypeOK, Counts, InOrder, Slots, consumer
  <2>2. head' = Pos(tail' + (Moved' - Taken'))
    BY <1>2, Zenon DEF PushStore, FifoInv, TypeOK, Layout, Moved, Taken, Pos, Slots, consumer
  <2>3. ASSUME NEW k \in 0..(Capacity - 1), k < Written' - Taken'
        PROVE  data'[Pos(tail + k)] = Taken + 1 + k
    <3>1. head = Pos(tail + (sent - Taken)) /\ sent - Taken \in 0..(Capacity - 1)
      BY <1>2 DEF PushStore, FifoInv, TypeOK, Counts, Layout, Moved, Taken
    <3>2. CASE k = sent - Taken
      BY <1>2, <3>1, <3>2 DEF PushStore, FifoInv, TypeOK, Taken, Pos, Slots
    <3>3. CASE k < sent - Taken
      <4>1. Pos(tail + k) \in Slots /\ Pos(tail + k) # head
        BY <3>1, <3>3, Distinct, Zenon DEF FifoInv, TypeOK
      <4>2. data[Pos(tail + k)] = Taken + 1 + k
        BY <1>2, <3>3, Zenon DEF PushStore, FifoInv, Layout, Written
      <4> QED
        BY <1>2, <4>1, <4>2, Zenon DEF PushStore, FifoInv, TypeOK
    <3>4. k < sent + 1 - Taken /\ Taken \in Nat
      BY <1>2, <2>3 DEF PushStore, FifoInv, TypeOK, Written, Taken, consumer
    <3> QED
      BY <3>2, <3>3, <3>4 DEF FifoInv, TypeOK
  <2> QED
    BY <1>2, <2>1, <2>2, <2>3, Zenon DEF PushStore, FifoInv, Layout, Taken, consumer
<1>3. CASE PushHead
  <2>1. head' = Pos(head + 1) /\ head' \in Slots
    BY <1>3, Wrap, Zenon DEF PushHead, FifoInv, TypeOK
  <2>2. TypeOK' /\ Counts' /\ InOrder'
    BY <1>3, <2>1, Zenon DEF PushHead, FifoInv, TypeOK, Counts, InOrder, Slots, consumer
  <2>3. sent - Taken \in 0..(Capacity - 1) /\ head = Pos(tail + (sent - Taken))
    BY <1>3 DEF PushHead, FifoInv, TypeOK, Counts, Layout, Moved, Taken
  <2>4. head' = Pos(tail + (sent + 1 - Taken))
    <3>1. Pos(Pos(tail + (sent - Taken)) + 1) = Pos(tail + ((sent - Taken) + 1))
      BY <2>3, Shift, Zenon DEF FifoInv, TypeOK
    <3>2. (sent - Taken) + 1 = sent + 1 - Taken
      BY DEF FifoInv, TypeOK, Taken
    <3> QED
      BY <2>1, <2>3, <3>1, <3>2, Zenon
  <2>5. /\ tail' = tail /\ data' = data /\ Taken' = Taken /\ Written' = Written
        /\ Moved' = sent + 1 /\ Taken \in Nat
    BY <1>3 DEF PushHead, FifoInv, TypeOK, Moved, Taken, Written, consumer
  <2>6. Layout'
    <3>1. head' = Pos(tail' + (Moved' - Taken'))
      BY <2>4, <2>5 DEF FifoInv, TypeOK, Slots
    <3>2. ASSUME NEW k \in 0..(Capacity - 1), k < Written' - Taken'
          PROVE  data'[Pos(tail' + k)] = Taken' + 1 + k
      BY <2>5, <3>2, Zenon DEF FifoInv, Layout
    <3> QED
      BY <3>1, <3>2, Zenon DEF Layout
  <2> QED
    BY <2>2, <2>6, Zenon DEF FifoInv
<1>4. CASE PushCount
  BY <1>4 DEF PushCount, FifoInv, TypeOK, Counts, Layout, InOrder, Moved, Taken, Written, consumer
<1> QED
  BY <1>1, <1>2, <1>3, <1>4, Zenon

(* Every step of a pop or a peek keeps the invariant. *)
LEMMA PopSteps ==
  ASSUME FifoInv,
         \/ PopTest("read") \/ PopRead \/ PopTail \/ PopCount
         \/ PopTest("peek") \/ PeekRead \/ PeekReturn
  PROVE  FifoInv'
<1> USE FifoAssumption
<1>1. CASE PopTest("read") \/ PopTest("peek") \/ PeekReturn
  BY <1>1 DEF PopTest, PeekReturn, FifoInv, TypeOK, Counts, Layout, InOrder, Moved, Taken, Written,
              producer
<1>2. CASE PopRead \/ PeekRead
  <2>1. Written - Taken > 0 /\ Taken = received
    BY <1>2 DEF PopRead, PeekRead, FifoInv, TypeOK, Counts, Written, Taken
  <2>2. data[Pos(tail + 0)] = Taken + 1 + 0
    BY <2>1 DEF FifoInv, Layout
  <2>3. data[tail] = received + 1
    BY <2>1, <2>2 DEF FifoInv, TypeOK, Pos, Slots
  <2> QED
    BY <1>2, <2>3 DEF PopRead, PeekRead, FifoInv, TypeOK, Counts, Layout, InOrder, Moved, Taken,
                      Written, producer
<1>3. CASE PopTail
  <2>1. tail' = Pos(tail + 1) /\ tail' \in Slots
    BY <1>3, Wrap, Zenon DEF PopTail, FifoInv, TypeOK
  <2>2. TypeOK' /\ Counts' /\ InOrder'
    BY <1>3, <2>1, Zenon DEF PopTail, FifoInv, TypeOK, Counts, InOrder, producer
  <2>3. /\ Taken = received /\ Taken' = received + 1 /\ Moved' = Moved /\ Written' = Written
        /\ Moved \in Nat /\ Written \in Nat
        /\ Moved - received \in 1..Capacity /\ Written - received \in 1..Capacity
    BY <1>3 DEF PopTail, FifoInv, TypeOK, Counts, Moved, Taken, Written, producer
  <2>4. head' = Pos(tail' + (Moved' - Taken'))
    <3>1. head' = Pos(tail + (Moved - received))
      BY <1>3, <2>3, Zenon DEF PopTail, FifoInv, Layout, producer
    <3>2. /\ Moved - received - 1 \in 0..(Capacity - 1)
          /\ (Moved - received - 1) + 1 = Moved - received
          /\ Moved - (received + 1) = Moved - received - 1
      BY <2>3 DEF FifoInv, TypeOK
    <3>3. Pos(Pos(tail + 1) + (Moved - received - 1)) = Pos(tail + ((Moved - received - 1) + 1))
      BY <3>2, Shift, Zenon DEF FifoInv, TypeOK
    <3> QED
      BY <2>1, <2>3, <3>1, <3>2, <3>3, Zenon
  <2>5. ASSUME NEW k \in 0..(Capacity - 1), k < Written' - Taken'
        PROVE  data'[Pos(tail' + k)] = Taken' + 1 + k
    <3>1. k + 1 \in 0..(Capacity - 1) /\ k + 1 < Written - Taken
      BY <2>3, <2>5 DEF FifoInv, TypeOK
    <3>2. data[Pos(tail + (k + 1))] = Taken + 1 + (k + 1)
      BY <3>1, Zenon DEF FifoInv, Layout
    <3>3. Pos(tail' + k) = Pos(tail + (k + 1))
      BY <2>1, Shift, Zenon DEF FifoInv, TypeOK
    <3> QED
      BY <1>3, <2>3, <3>2, <3>3 DEF PopTail, FifoInv, TypeOK
  <2> QED
    BY <2>2, <2>4, <2>5, Zenon DEF FifoInv, Layout
<1>4. CASE PopCount
  BY <1>4 DEF PopCount, FifoInv, TypeOK, Counts, Layout, InOrder, Moved, Taken, Written, producer
<1> QED
  BY <1>1, <1>2, <1>3, <1>4, Zenon

(* The invariant holds in every state. *)
THEOREM FifoInvariance == Spec => []FifoInv
<1>1. FifoInv /\ [Next]_vars => FifoInv'
  <2> SUFFICES ASSUME FifoInv, [Next]_vars PROVE FifoInv'
    BY Zenon
  <2>1. CASE PushTest \/ PushStore(sent + 1) \/ PushHead \/ PushCount
    BY <2>1, PushSteps, Zenon
  <2>2. CASE \/ PopTest("read") \/ PopRead \/ PopTail \/ PopCount
             \/ PopTest("peek") \/ PeekRead \/ PeekReturn
    BY <2>2, PopSteps, Zenon
  <2>3. CASE UNCHANGED vars
    BY <2>3, Zenon DEF vars, producer, consumer, FifoInv, TypeOK, Counts, Layout, InOrder, Moved, Taken,
                Written
  <2> QED
    BY <2>1, <2>2, <2>3, Zenon DEF Next
<1> QED
  BY <1>1, FifoInit, PTL DEF Spec

(* The indices stay inside the ring and count between 0 and the capacity,  *)
(* so the unsigned count never wraps.                                      *)
THEOREM TypeCorrect == Spec => []TypeOK
BY FifoInvariance, PTL DEF FifoInv

(* Values come out complete and in the order they went in. *)
THEOREM InOrderHolds == Spec => []InOrder
BY FifoInvariance, PTL DEF FifoInv

(* Producer and consumer never access one slot at the same time. *)
THEOREM NoSlotRaceHolds == Spec => []NoSlotRace
<1>1. FifoInv => NoSlotRace
  BY FifoAssumption DEF FifoInv, TypeOK, Counts, Layout, Moved, Taken, Pos, Slots, NoSlotRace
<1> QED
  BY <1>1, FifoInvariance, PTL

-----------------------------------------------------------------------------
(* The input ring.  The handler pushes only what it has found room for, and *)
(* nothing runs until it is done; the task counts a value for which it had  *)
(* found room, whatever the handler has pushed in between.                  *)
InputInv ==
  /\ head \in Slots /\ tail \in Slots /\ seen \in Slots /\ count \in Int
  /\ count <= Capacity + 1
  /\ tpc \in {"store", "load", "head", "count"} => count <= Capacity
  /\ ppc # "idle" => isr = 1 /\ count < Capacity

(* The console starts with its input ring empty.                           *)
LEMMA InputInit == ConsoleInit => InputInv
BY FifoAssumption DEF ConsoleInit, SerialInit, Init, InputInv, Slots

(* No step of the handler or of the task overfills it by two.              *)
LEMMA InputStep == InputInv /\ [ConsoleNext]_all => InputInv'
<1> SUFFICES ASSUME InputInv, [ConsoleNext]_all PROVE InputInv'
  BY Zenon
<1> USE FifoAssumption DEF InputInv
<1>1. \A x \in Slots : (x + 1) % Capacity \in Slots
  BY DEF Slots
<1>2. CASE Irq
  BY <1>1, <1>2 DEF Irq, IrqEnter, IrqDrop, IrqTake, IrqPush, IrqLeave, PushTest, PushStore,
                    PushHead, PushCount, vars, producer, consumer, device, handler, task, story
<1>3. CASE DrainStatus \/ DrainData \/ DrainTest \/ DrainStore \/ DrainLoad
  BY <1>3 DEF DrainStatus, DrainData, DrainTest, DrainStore, DrainLoad, vars, producer,
              consumer, device, handler, story
<1>4. CASE DrainHead \/ DrainCount
  BY <1>1, <1>4 DEF DrainHead, DrainCount, consumer, device, handler, story
<1>5. CASE NothingToPop \/ Popping \/ Popped
  BY <1>1, <1>5 DEF NothingToPop, Popping, Popped, PopTest, PopRead, PopTail, PopCount, vars,
                    producer, consumer, device, handler, task, story
<1>6. CASE PollTx \/ Executed
  BY <1>6, Zenon DEF PollTx, Executed, vars, producer, consumer, handler, story
<1>7. CASE Arrive \/ Raise
  BY <1>7, Zenon DEF Arrive, Raise, vars, producer, consumer, handler, task, story
<1>8. CASE UNCHANGED serialVars
  BY <1>8, Zenon DEF serialVars, vars, producer, consumer, handler, task, story
<1>9. QED
  BY <1>2, <1>3, <1>4, <1>5, <1>6, <1>7, <1>8, Zenon
     DEF ConsoleNext, Line, Interrupt, ConsoleTask, Typing, Input, Execute, Prints, GoesOn, all

(* Even when the handler and the task have pushed into one slot, the input  *)
(* ring holds at most one value more than fits and its indices stay in the  *)
(* array (wubu_fifo_push in wubu_serial_irq and wubu_serial_drain).         *)
THEOREM InputBounded == ConsoleSpec => []OverfullByOne
<1>1. InputInv => OverfullByOne
  BY Zenon DEF InputInv, OverfullByOne
<1>2. QED
  BY InputInit, InputStep, <1>1, PTL DEF ConsoleSpec

-----------------------------------------------------------------------------
(* What the console task reads.  Until the race that raced names, the ring *)
(* lies between its indices as in FifoInv, whoever pushes (Turns, RxRing), *)
(* and the bytes eaten, leaving, queued and entering follow one another in *)
(* order of arrival and are, with the dropped ones, all that were fetched  *)
(* from the UART (RxOrder).                                                *)

(* The values between tail and head: the counted ones, without the one the  *)
(* task has passed and not yet counted off, with those pushed and not yet   *)
(* counted in.                                                              *)
Held ==
  count + (IF ppc = "count" THEN 1 ELSE 0) + (IF tpc = "count" THEN 1 ELSE 0)
        - (IF cpc = "count" THEN 1 ELSE 0)
At(k) == data[Pos(tail + k)]
Queued == {At(k) : k \in 0..(Held - 1)}

(* The byte on its way out of the ring, and the one on its way in: it is    *)
(* the handler's or the task's.                                             *)
Leaving == IF cpc = "count" THEN {got} ELSE {}
Entering ==
  IF ppc \in {"store", "head"} THEN {hand}
  ELSE IF tpc \in {"test", "store", "load", "head"} THEN {byte} ELSE {}
Fetched == arrived - Len(uart)

RxTypes ==
  /\ head \in Slots /\ tail \in Slots /\ seen \in Slots /\ count \in Int /\ data \in [Slots -> Nat]
  /\ got \in Nat /\ hand \in Nat /\ byte \in Nat
  /\ uart \in Seq(Nat) /\ eaten \in Seq(Nat) /\ arrived \in Nat
  /\ Len(uart) <= arrived /\ \A i \in 1..Len(uart) : uart[i] = arrived - Len(uart) + i
  /\ ppc \in {"idle", "store", "head", "count"}
  /\ cpc \in {"idle", "read", "tail", "count"}
  /\ tpc \in {"lsr", "rbr", "test", "store", "load", "head", "count", "poll", "pop", "exec"}
  /\ raced \in {0, 1}

Turns ==
  /\ 0 <= count /\ count <= Capacity
  /\ ppc # "idle" => /\ isr = 1 /\ count < Capacity
                     /\ tpc \notin {"rbr", "test", "store", "load", "head"}
                     /\ tpc = "count" => count + 1 < Capacity
  /\ tpc \in {"store", "load", "head", "count"} => count < Capacity
  /\ tpc = "rbr" => uart # <<>>
  /\ tpc = "head" => seen = head
  /\ cpc # "idle" => tpc = "pop" /\ count > 0

RxRing ==
  /\ head = Pos(tail + Held)
  /\ \A j, k \in Slots : j < k /\ k < Held => At(j) < At(k)
  /\ ppc = "head" => data[head] = hand
  /\ tpc \in {"load", "head"} => data[head] = byte
  /\ cpc = "tail" => got = At(0)

Below(s, t) == \A x \in s, y \in t : x < y

RxOrder ==
  /\ \A i \in 2..Len(eaten) : eaten[i - 1] < eaten[i]
  /\ Below(Range(eaten), Leaving \cup Queued \cup Entering)
  /\ Below(Leaving, Queued \cup Entering)
  /\ Below(Queued, Entering)
  /\ Range(eaten) \cup dropped \cup Leaving \cup Queued \cup Entering = 1..Fetched

RxInv == RxTypes /\ (raced = 0 => Turns /\ RxRing /\ RxOrder)

(* Nothing has arrived when the console starts.                            *)
LEMMA RxInit == ConsoleInit => RxInv
<1> SUFFICES ASSUME ConsoleInit PROVE RxInv
  BY Zenon
<1> USE FifoAssumption DEF ConsoleInit, SerialInit, Init
<1>1. RxTypes
  <2>1. uart \in Seq(Nat) /\ eaten \in Seq(Nat) /\ Len(uart) = 0 /\ data \in [Slots -> Nat]
    OBVIOUS
  <2> QED
    BY <2>1 DEF RxTypes, Slots
<1>2. Turns
  BY DEF Turns
<1>3. Held = 0 /\ Leaving = {} /\ Entering = {} /\ Fetched = 0
  <2>1. Held = 0 /\ Leaving = {}
    BY DEF Held, Leaving
  <2>2. Entering = {}
    BY Zenon DEF Entering
  <2>3. Fetched = 0
    <3>1. Len(uart) = 0 /\ arrived = 0
      BY Zenon
    <3> QED
      BY ONLY <3>1 DEF Fetched
  <2> QED
    BY <2>1, <2>2, <2>3, Zenon
<1>4. RxRing
  BY <1>3 DEF RxRing, Pos, Slots
<1>5. Queued = {} /\ Range(eaten) = {}
  BY <1>3 DEF Queued, Range
<1>6. RxOrder
  BY <1>3, <1>5 DEF RxOrder, Below
<1> QED
  BY <1>1, <1>2, <1>4, <1>6, Zenon DEF RxInv

(* The types, raced or not. *)
LEMMA RxTypesStep == RxTypes /\ [ConsoleNext]_all => RxTypes'
<1> SUFFICES ASSUME RxTypes, [ConsoleNext]_all PROVE RxTypes'
  BY Zenon
<1> USE FifoAssumption DEF RxTypes
<1>1. \A x \in Slots : (x + 1) % Capacity \in Slots
  BY Wrap, Zenon
<1>2. uart # <<>> => /\ Tail(uart) \in Seq(Nat) /\ Len(Tail(uart)) = Len(uart) - 1
                     /\ Head(uart) = arrived - Len(uart) + 1
                     /\ \A i \in 1..Len(uart) - 1 : Tail(uart)[i] = uart[i + 1]
  OBVIOUS
<1>3. uart # <<>> => /\ Tail(uart) \in Seq(Nat) /\ Len(Tail(uart)) <= arrived
                     /\ \A i \in 1..Len(Tail(uart)) : Tail(uart)[i] = arrived - Len(Tail(uart)) + i
                     /\ Head(uart) \in Nat
  BY <1>2
<1>4. CASE IrqEnter \/ IrqLeave \/ Raise \/ DrainStatus \/ DrainTest \/ DrainLoad \/ NothingToPop
           \/ PollTx \/ Executed \/ UNCHANGED serialVars
  <2>1. /\ UNCHANGED <<head, tail, count, data, got, byte, uart, arrived, eaten, raced, ppc, cpc>>
        /\ hand' = hand /\ seen' \in {seen, head}
        /\ tpc' \in {tpc, "poll", "rbr", "lsr", "store", "head", "pop"}
    <3>1. CASE IrqEnter \/ IrqLeave \/ Raise \/ UNCHANGED serialVars
      BY <3>1, Zenon DEF IrqEnter, IrqLeave, Raise, serialVars, vars, producer, consumer, device, handler,
         task, story
    <3>2. CASE DrainStatus \/ DrainTest \/ DrainLoad \/ NothingToPop
      BY <3>2, Zenon DEF DrainStatus, DrainTest, DrainLoad, NothingToPop, vars, producer, consumer, device,
         handler, story
    <3>3. CASE PollTx \/ Executed
      BY <3>3, Zenon DEF PollTx, Executed, vars, producer, consumer, device, handler, story
    <3> QED
      BY <1>4, <3>1, <3>2, <3>3, Zenon
  <2> QED
    BY <2>1
<1>5. CASE IrqDrop \/ IrqTake
  BY <1>3, <1>5, Zenon DEF IrqDrop, IrqTake, PushTest, vars, producer, consumer, device, handler, task,
     story
<1>6. CASE IrqPush
  BY <1>1, <1>6 DEF IrqPush, PushStore, PushHead, PushCount, consumer, device, handler, task, story
<1>7. CASE DrainData
  BY <1>3, <1>7, Zenon DEF DrainData, vars, producer, consumer, handler, story
<1>8. CASE DrainStore \/ DrainHead \/ DrainCount
  <2>1. CASE DrainStore
    <3>1. data' \in [Slots -> Nat]
      BY <2>1, Zenon DEF DrainStore
    <3> QED
      BY <2>1, <3>1, Zenon DEF DrainStore, producer, consumer, device, handler, story
  <2>2. CASE DrainHead
    BY <1>1, <2>2, Zenon DEF DrainHead, consumer, device, handler, story
  <2>3. CASE DrainCount
    BY <2>3 DEF DrainCount, consumer, device, handler, story
  <2> HIDE DEF RxTypes
  <2> QED
    BY <1>8, <2>1, <2>2, <2>3, Zenon
<1>9. CASE Popping
  BY <1>1, <1>9 DEF Popping, PopTest, PopRead, PopTail, producer, device, handler, task, story
<1>10. CASE Popped
  <2>1. eaten' \in Seq(Nat)
    BY <1>10 DEF Popped
  <2> QED
    BY <1>10, <2>1 DEF Popped, PopCount, producer, device, handler, story
<1>11. CASE Arrive
  <2>1. uart' = Append(uart, arrived + 1) /\ arrived' = arrived + 1
    BY <1>11, Zenon DEF Arrive
  <2>2. /\ uart' \in Seq(Nat) /\ Len(uart') = Len(uart) + 1
        /\ \A i \in 1..Len(uart) : uart'[i] = uart[i]
        /\ uart'[Len(uart) + 1] = arrived + 1
    BY <2>1, AppendProperties
  <2>3. \A i \in 1..Len(uart') : uart'[i] = arrived' - Len(uart') + i
    BY <2>1, <2>2
  <2>4. uart' \in Seq(Nat) /\ Len(uart') <= arrived' /\ arrived' \in Nat
    BY <2>1, <2>2
  <2>5. /\ UNCHANGED <<head, tail, seen, count, data, got, hand, byte, eaten, ppc, cpc, tpc>>
        /\ UNCHANGED raced
    BY <1>11, Zenon DEF Arrive, vars, producer, consumer, handler, task, story
  <2> QED
    BY <2>3, <2>4, <2>5
<1> HIDE DEF RxTypes
<1> QED
  BY <1>4, <1>5, <1>6, <1>7, <1>8, <1>9, <1>10, <1>11
     DEF ConsoleNext, Line, Interrupt, ConsoleTask, Irq, Typing, Input, Execute, Prints, GoesOn, all

(* How full the ring is. *)
LEMMA HeldBounds ==
  ASSUME RxTypes, Turns
  PROVE  /\ Held \in 0..Capacity
         /\ ppc \in {"store", "head"} => Held < Capacity
         /\ tpc \in {"store", "load", "head"} => Held < Capacity /\ ppc = "idle" /\ cpc = "idle"
         /\ cpc \in {"read", "tail"} => Held > 0
BY FifoAssumption DEF RxTypes, Turns, Held

(* Below is monotone and the pieces of RxOrder compose. *)
LEMMA SameOrder ==
  ASSUME RxOrder, UNCHANGED <<eaten, dropped, Leaving, Queued, Entering, Fetched>>
  PROVE  RxOrder'
BY Zenon DEF RxOrder, Below

(* What is queued depends on the ring only.                                *)
LEMMA SameQueue ==
  ASSUME UNCHANGED <<Held, tail, data>>
  PROVE  Queued' = Queued /\ \A k : At(k)' = At(k)
BY Zenon DEF Queued, At

(* Everything queued, entering or leaving was fetched from the UART. *)
LEMMA InFlight ==
  ASSUME RxTypes, Turns, RxRing, RxOrder
  PROVE  /\ Fetched \in Nat
         /\ \A x \in Range(eaten) \cup dropped \cup Leaving \cup Queued \cup Entering :
              x \in Nat /\ 1 <= x /\ x <= Fetched
<1>1. Fetched \in Nat
  BY DEF RxTypes, Fetched
<1> QED
  BY <1>1 DEF RxOrder

(* Steps that leave the ring and what is on its way alone. *)
LEMMA QuietStep ==
  ASSUME RxTypes, Turns, RxRing, RxOrder, raced' = 0,
         \/ IrqEnter \/ IrqLeave \/ Arrive \/ Raise \/ DrainStatus \/ NothingToPop
         \/ PollTx \/ Executed \/ DrainLoad \/ UNCHANGED serialVars
  PROVE  Turns' /\ RxRing' /\ RxOrder'
<1> DEFINE Acts == \/ IrqEnter \/ IrqLeave \/ Arrive \/ Raise \/ DrainStatus \/ NothingToPop
                   \/ PollTx \/ Executed \/ DrainLoad \/ UNCHANGED serialVars
<1>1. /\ UNCHANGED <<head, tail, count, data, ppc, cpc, got, hand, byte, eaten, dropped>>
      /\ tpc' # tpc => /\ tpc \in {"lsr", "pop", "poll", "exec", "load"}
                       /\ tpc = "pop" => cpc = "idle"
                       /\ tpc' \in {"lsr", "rbr", "pop", "poll", "head"}
                       /\ tpc = "load" <=> tpc' = "head"
                       /\ isr = 0
  BY Zenon DEF IrqEnter, IrqLeave, Raise, Arrive, DrainStatus, NothingToPop, PollTx, Executed, DrainLoad,
         serialVars, vars, producer, consumer, device, handler, task, story
<1>2. Fetched' = Fetched
  <2>1. CASE Arrive
    BY <2>1 DEF Arrive, Fetched, RxTypes
  <2>2. CASE UNCHANGED <<uart, arrived>>
    BY <2>2, Zenon DEF Fetched
  <2> QED
    BY <2>1, <2>2, Zenon DEF IrqEnter, IrqLeave, Raise, DrainStatus, NothingToPop, PollTx, Executed,
       DrainLoad, serialVars, device
<1>3. Held' = Held /\ Leaving' = Leaving
  BY <1>1, Zenon DEF Held, Leaving
<1>4. Entering' = Entering
  BY <1>1, Zenon DEF Entering
<1>5. Queued' = Queued /\ \A k : At(k)' = At(k)
  BY <1>1, <1>3, SameQueue, Zenon
<1>6. RxOrder'
  BY <1>1, <1>2, <1>3, <1>4, <1>5, SameOrder
<1>7. RxRing'
  BY <1>1, <1>3, <1>5, Zenon DEF RxRing
<1>8. Turns'
  <2>1. isr' = isr \/ ppc = "idle"
    BY Zenon DEF IrqEnter, IrqLeave, Raise, Arrive, DrainStatus, NothingToPop, PollTx, Executed,
       DrainLoad, serialVars, vars, producer, consumer, device, handler, task, story, Turns
  <2>2. ppc # "idle" => isr = 1
    BY Zenon DEF Turns
  <2>3. tpc' = "rbr" => uart' # <<>>
    <3>1. CASE Arrive
      <4>1. uart' = Append(uart, arrived + 1) /\ uart \in Seq(Nat) /\ arrived + 1 \in Nat
        BY <3>1 DEF Arrive, RxTypes
      <4>2. QED
        BY <4>1, AppendProperties
    <3>2. CASE DrainStatus
      BY <3>2, Zenon DEF DrainStatus, device
    <3>3. CASE UNCHANGED uart /\ (tpc' = tpc \/ tpc' # "rbr")
      BY <3>3, Zenon DEF Turns
    <3> QED
      BY <3>1, <3>2, <3>3, Zenon DEF IrqEnter, IrqLeave, Raise, NothingToPop, PollTx, Executed, DrainLoad,
         serialVars, vars, producer, consumer, device, handler, task, story
  <2>4. tpc' = "head" => seen' = head'
    BY <1>1, Zenon DEF IrqEnter, IrqLeave, Raise, Arrive, DrainStatus, NothingToPop, PollTx, Executed,
       DrainLoad, serialVars, vars, producer, consumer, device, handler, task, story, Turns
  <2>5. ppc' # "idle" => isr' = 1 /\ tpc' = tpc
    BY <1>1, <2>1, <2>2
  <2>6. cpc' # "idle" => tpc' = "pop" /\ count' > 0
    BY <1>1, Zenon DEF Turns
  <2>7. tpc' \in {"store", "load", "head", "count"} => count' < Capacity
    BY <1>1, Zenon DEF Turns
  <2> QED
    BY <1>1, <2>3, <2>4, <2>5, <2>6, <2>7 DEF Turns
<1> QED
  BY <1>6, <1>7, <1>8, Zenon

(* The next byte is read from the UART. *)
LEMMA NextByte ==
  ASSUME RxTypes, uart # <<>>
  PROVE  /\ Head(uart) = Fetched + 1
         /\ uart' = Tail(uart) /\ arrived' = arrived => Fetched' = Fetched + 1
<1>1. Len(Tail(uart)) = Len(uart) - 1 /\ Head(uart) = uart[1] /\ Len(uart) \in Nat /\ Len(uart) >= 1
  BY DEF RxTypes
<1> QED
  BY <1>1 DEF RxTypes, Fetched

(* Steps that fetch a byte: it is later than all the others. *)
LEMMA FetchStep ==
  ASSUME RxTypes, Turns, RxRing, RxOrder, raced = 0, raced' = 0,
         IrqTake \/ IrqDrop \/ DrainData
  PROVE  Turns' /\ RxRing' /\ RxOrder'
<1>1. /\ UNCHANGED <<head, tail, count, data, cpc, got, eaten, isr>>
      /\ IrqTake \/ IrqDrop => tpc # "rbr"
      /\ uart # <<>> /\ uart' = Tail(uart) /\ arrived' = arrived
      /\ ppc = "idle"
  BY DEF IrqTake, IrqDrop, DrainData, PushTest, Amid, Turns, vars, producer, consumer, handler,
         device, story, task
<1>2. Head(uart) = Fetched + 1 /\ Fetched' = Fetched + 1
  BY <1>1, NextByte, Zenon
<1>3. \/ IrqTake /\ ppc' = "store" /\ hand' = Fetched + 1 /\ UNCHANGED <<tpc, byte, seen, dropped>>
      \/ IrqDrop /\ dropped' = dropped \cup {Fetched + 1} /\ UNCHANGED <<tpc, ppc, byte, hand, seen>>
      \/ /\ DrainData /\ tpc = "rbr" /\ tpc' = "test" /\ byte' = Fetched + 1
         /\ UNCHANGED <<ppc, hand, dropped>>
  BY <1>1, <1>2 DEF IrqTake, IrqDrop, DrainData, PushTest, vars, producer, consumer, handler,
         device, story, task
<1>4. IrqTake => /\ tpc \notin {"rbr", "test", "store", "load", "head"} /\ count < Capacity
                 /\ tpc = "count" => count + 1 < Capacity
                 /\ isr = 1
  BY FifoAssumption DEF IrqTake, PushTest, Amid, RxTypes, Turns
<1>5. Held' = Held /\ Leaving' = Leaving
  BY <1>1, <1>3, Zenon DEF Held, Leaving
<1>6. Queued' = Queued /\ \A k : At(k)' = At(k)
  BY <1>1, <1>5, SameQueue, Zenon
<1>7. Turns'
  <2>1. tpc' = "rbr" => uart' # <<>>
    BY <1>1, <1>3, Zenon
  <2>2. ppc' # "idle" => /\ isr' = 1 /\ count' < Capacity
                         /\ tpc' \notin {"rbr", "test", "store", "load", "head"}
                         /\ tpc' = "count" => count' + 1 < Capacity
    BY <1>1, <1>3, <1>4, Zenon
  <2> QED
    BY <1>1, <1>3, <2>1, <2>2, Zenon DEF Turns
<1>8. RxRing'
  BY <1>1, <1>3, <1>5, <1>6, Zenon DEF RxRing
<1>9. \/ Entering = {} /\ Entering' = {Fetched + 1} /\ dropped' = dropped
      \/ Entering' = Entering /\ dropped' = dropped \cup {Fetched + 1}
  BY <1>1, <1>3, <1>4, Zenon DEF Entering
<1>10. /\ Fetched \in Nat
       /\ \A x \in Range(eaten) \cup dropped \cup Leaving \cup Queued \cup Entering :
            x \in Nat /\ 1 <= x /\ x <= Fetched
  BY InFlight, Zenon
<1>11. RxOrder'
  <2>1. 1..(Fetched + 1) = 1..Fetched \cup {Fetched + 1}
    BY <1>10
  <2> DEFINE Rest == Range(eaten) \cup Leaving \cup Queued
  <2>2. Range(eaten)' \cup dropped' \cup Leaving' \cup Queued' \cup Entering' = 1..Fetched'
    BY <1>1, <1>2, <1>5, <1>6, <1>9, <2>1, Zenon DEF RxOrder
  <2>3. \A x \in Rest : x < Fetched + 1
    BY <1>10
  <2>4. Below(Range(eaten), Leaving \cup Queued \cup Entering)'
    BY <1>1, <1>5, <1>6, <1>9, <2>3 DEF RxOrder, Below
  <2>5. Below(Leaving, Queued \cup Entering)' /\ Below(Queued, Entering)'
    BY <1>5, <1>6, <1>9, <2>3 DEF RxOrder, Below
  <2> QED
    BY <1>1, <2>2, <2>4, <2>5, Zenon DEF RxOrder
<1> QED
  BY <1>7, <1>8, <1>11, Zenon

(* The task finds the ring full and drops its byte, or goes on. *)
LEMMA TestStep ==
  ASSUME RxTypes, Turns, RxRing, RxOrder, DrainTest
  PROVE  Turns' /\ RxRing' /\ RxOrder'
<1>1. /\ UNCHANGED <<head, tail, count, data, cpc, ppc, got, hand, byte, eaten, isr, uart, arrived>>
      /\ isr = 0 /\ tpc = "test" /\ ppc = "idle" /\ cpc = "idle"
      /\ \/ tpc' = "store" /\ dropped' = dropped /\ count < Capacity
         \/ tpc' = "lsr" /\ dropped' = dropped \cup {byte}
  BY FifoAssumption DEF DrainTest, Turns, RxTypes, vars, producer, consumer, handler, device, story
<1>2. Held' = Held /\ Leaving' = Leaving /\ Fetched' = Fetched
  BY <1>1, Zenon DEF Held, Leaving, Fetched
<1>3. Queued' = Queued /\ \A k : At(k)' = At(k)
  BY <1>1, <1>2, SameQueue, Zenon
<1>4. Turns'
  BY <1>1, Zenon DEF Turns
<1>5. RxRing'
  BY <1>1, <1>2, <1>3, Zenon DEF RxRing
<1>6. Entering = {byte} /\ Entering' \subseteq {byte} /\ dropped' \cup Entering' = dropped \cup {byte}
  BY <1>1, Zenon DEF Entering
<1>7. RxOrder'
  BY <1>1, <1>2, <1>3, <1>6, Zenon DEF RxOrder, Below
<1> QED
  BY <1>4, <1>5, <1>7, Zenon

(* A store at head leaves the queued values alone. *)
LEMMA StoreStep ==
  ASSUME RxTypes, Turns, RxRing, RxOrder, (IrqPush /\ PushStore(hand)) \/ DrainStore
  PROVE  Turns' /\ RxRing' /\ RxOrder'
<1>1. /\ UNCHANGED <<head, tail, count, cpc, got, hand, byte, eaten, dropped, isr, uart, arrived, seen>>
      /\ \/ /\ ppc = "store" /\ ppc' = "head" /\ tpc' = tpc /\ data' = [data EXCEPT ![head] = hand]
            /\ isr = 1
         \/ /\ tpc = "store" /\ tpc' = "load" /\ ppc' = ppc /\ data' = [data EXCEPT ![head] = byte]
            /\ isr = 0
  BY Zenon DEF IrqPush, PushStore, DrainStore, vars, producer, consumer, handler, device, story, task
<1>2. Held \in 0..(Capacity - 1) /\ head = Pos(tail + Held)
  BY <1>1, HeldBounds, FifoAssumption DEF RxRing
<1>3. Held' = Held /\ Leaving' = Leaving /\ Fetched' = Fetched
  BY <1>1, Zenon DEF Held, Leaving, Fetched
<1>4. \A k \in 0..(Held - 1) : At(k)' = At(k)
  <2> SUFFICES ASSUME NEW k \in 0..(Held - 1) PROVE At(k)' = At(k)
    BY Zenon
  <2>1. k \in 0..(Capacity - 1) /\ k < Held
    BY <1>2, FifoAssumption
  <2>2. Pos(tail + k) \in Slots /\ Pos(tail + k) # head
    BY <1>2, <2>1, Distinct, Zenon DEF RxTypes
  <2> QED
    BY <1>1, <2>2, Zenon DEF At, RxTypes
<1>5. Queued' = Queued
  BY <1>3, <1>4, Zenon DEF Queued
<1>6. Entering' = Entering
  BY <1>1, Zenon DEF Entering, Turns
<1>7. Turns'
  BY <1>1, Zenon DEF Turns
<1>8. RxRing'
  <2>1. \A j, k \in Slots : j < k /\ k < Held' => At(j)' < At(k)'
    <3> SUFFICES ASSUME NEW j \in Slots, NEW k \in Slots, j < k, k < Held
                 PROVE  At(j)' < At(k)'
      BY <1>3, Zenon
    <3>1. j \in 0..(Held - 1) /\ k \in 0..(Held - 1)
      BY <1>2, FifoAssumption DEF Slots
    <3> QED
      BY <1>4, <3>1, Zenon DEF RxRing
  <2>2. cpc = "tail" => At(0)' = At(0)
    BY <1>2, <1>4, HeldBounds
  <2>3. /\ ppc' = "head" => data'[head'] = hand'
        /\ tpc' \in {"load", "head"} => data'[head'] = byte'
    BY <1>1, Zenon DEF RxRing, RxTypes, Turns
  <2> QED
    BY <1>1, <1>3, <2>1, <2>2, <2>3, Zenon DEF RxRing
<1>9. RxOrder'
  BY <1>1, <1>3, <1>5, <1>6, SameOrder, Zenon
<1> QED
  BY <1>7, <1>8, <1>9, Zenon

(* When the head moves, the value entering is the last one queued. *)
LEMMA HeadStep ==
  ASSUME RxTypes, Turns, RxRing, RxOrder, (IrqPush /\ PushHead) \/ DrainHead
  PROVE  Turns' /\ RxRing' /\ RxOrder'
<1> DEFINE v == IF ppc = "head" THEN hand ELSE byte
<1>1. /\ UNCHANGED <<tail, count, data, cpc, got, hand, byte, eaten, dropped, isr, uart, arrived, seen>>
      /\ head' = (head + 1) % Capacity
      /\ \/ ppc = "head" /\ ppc' = "count" /\ tpc' = tpc
         \/ tpc = "head" /\ tpc' = "count" /\ ppc' = ppc /\ ppc = "idle"
  BY Zenon DEF IrqPush, PushHead, DrainHead, Turns, RxTypes, vars, producer, consumer, handler, device,
         story, task
<1>2. Held \in 0..(Capacity - 1) /\ head = Pos(tail + Held)
  BY <1>1, HeldBounds, FifoAssumption DEF RxRing
<1>3. Held' = Held + 1 /\ Leaving' = Leaving /\ Fetched' = Fetched
  BY <1>1 DEF Held, Leaving, Fetched, RxTypes
<1>4. Entering = {v} /\ Entering' = {} /\ At(Held) = v
  BY <1>1, <1>2, Zenon DEF Entering, Turns, At, RxRing
<1>5. \A k : At(k)' = At(k)
  BY <1>1, Zenon DEF At
<1>6. Queued' = Queued \cup {v}
  <2>1. 0..(Held' - 1) = 0..(Held - 1) \cup {Held}
    BY <1>2, <1>3
  <2> QED
    BY <1>4, <1>5, <2>1, Zenon DEF Queued
<1>7. Turns'
  BY <1>1, Zenon DEF Turns
<1>8. RxRing'
  <2>1. head' = Pos(tail + (Held + 1))
    BY <1>1, <1>2, Wrap, Shift, Zenon DEF RxTypes
  <2>2. \A j, k \in Slots : j < k /\ k < Held' => At(j)' < At(k)'
    <3> SUFFICES ASSUME NEW j \in Slots, NEW k \in Slots, j < k, k < Held + 1
                 PROVE  At(j) < At(k)
      BY <1>3, <1>5, Zenon
    <3>1. CASE k < Held
      BY <3>1, Zenon DEF RxRing
    <3>2. CASE k = Held
      <4>1. j \in 0..(Held - 1)
        BY <1>2, <3>2 DEF Slots
      <4>2. At(j) \in Queued
        BY <4>1, Zenon DEF Queued
      <4> QED
        BY <1>4, <3>2, <4>2, Zenon DEF RxOrder, Below
    <3> QED
      BY <1>2, <3>1, <3>2 DEF Slots
  <2>3. ppc' # "head" /\ tpc' \notin {"load", "head"} /\ cpc' = cpc
    BY <1>1, Zenon DEF Turns
  <2> QED
    BY <1>1, <1>3, <1>5, <2>1, <2>2, <2>3, Zenon DEF RxRing
<1>9. RxOrder'
  <2> HIDE DEF v
  <2>1. /\ Range(eaten)' = Range(eaten) /\ eaten' = eaten /\ dropped' = dropped
        /\ Leaving' \cup Queued' \cup Entering' = Leaving \cup Queued \cup Entering
        /\ Queued' \cup Entering' = Queued \cup Entering
    BY <1>1, <1>3, <1>4, <1>6, Zenon
  <2> QED
    BY <1>3, <1>4, <2>1 DEF RxOrder, Below
<1> QED
  BY <1>7, <1>8, <1>9, Zenon

(* Counting a pushed value in. *)
LEMMA CountStep ==
  ASSUME RxTypes, Turns, RxRing, RxOrder, (IrqPush /\ PushCount) \/ DrainCount
  PROVE  Turns' /\ RxRing' /\ RxOrder'
<1>1. /\ UNCHANGED <<head, tail, data, cpc, got, hand, byte, eaten, dropped, isr, uart, arrived, seen>>
      /\ count' = count + 1
      /\ \/ ppc = "count" /\ ppc' = "idle" /\ tpc' = tpc
         \/ tpc = "count" /\ tpc' = "lsr" /\ ppc' = ppc /\ ppc = "idle"
  BY DEF IrqPush, PushCount, DrainCount, Turns, vars, producer, consumer, handler, device, story,
         task
<1>2. Held' = Held /\ Leaving' = Leaving /\ Fetched' = Fetched
  BY <1>1 DEF Held, Leaving, Fetched, RxTypes
<1>3. Entering' = Entering
  BY <1>1, Zenon DEF Entering
<1>4. Queued' = Queued /\ \A k : At(k)' = At(k)
  BY <1>1, <1>2, SameQueue, Zenon
<1>5. Turns'
  BY <1>1, FifoAssumption DEF Turns, RxTypes
<1>6. RxRing'
  BY <1>1, <1>2, <1>4, Zenon DEF RxRing
<1>7. RxOrder'
  BY <1>1, <1>2, <1>3, <1>4, SameOrder, Zenon
<1> QED
  BY <1>5, <1>6, <1>7, Zenon

(* A pop tests the count and reads the oldest value ... *)
LEMMA PopReadStep ==
  ASSUME RxTypes, Turns, RxRing, RxOrder, Popping, PopTest("read") \/ PopRead
  PROVE  Turns' /\ RxRing' /\ RxOrder'
<1>1. /\ UNCHANGED <<head, tail, count, data, ppc, tpc, hand, byte, eaten, dropped, isr, uart>>
      /\ UNCHANGED <<arrived, seen>>
      /\ tpc = "pop"
      /\ \/ cpc = "idle" /\ cpc' = "read" /\ count > 0
         \/ cpc = "read" /\ cpc' = "tail" /\ got' = data[tail]
  BY Zenon DEF Popping, PopTest, PopRead, producer, handler, device, story, task
<1>2. Held' = Held /\ Leaving' = Leaving /\ Fetched' = Fetched
  BY <1>1, Zenon DEF Held, Leaving, Fetched
<1>3. Entering' = Entering
  BY <1>1, Zenon DEF Entering
<1>4. Queued' = Queued /\ \A k : At(k)' = At(k)
  BY <1>1, <1>2, SameQueue, Zenon
<1>5. Turns'
  BY <1>1, Zenon DEF Turns
<1>6. At(0) = data[tail]
  BY FifoAssumption DEF At, Pos, RxTypes, Slots
<1>7. RxRing'
  BY <1>1, <1>2, <1>4, <1>6, Zenon DEF RxRing
<1>8. RxOrder'
  BY <1>1, <1>2, <1>3, <1>4, SameOrder, Zenon
<1> QED
  BY <1>5, <1>7, <1>8, Zenon

(* ... which then is no longer queued, but leaving ... *)
LEMMA PopTailStep ==
  ASSUME RxTypes, Turns, RxRing, RxOrder, Popping, PopTail
  PROVE  Turns' /\ RxRing' /\ RxOrder'
<1>1. /\ UNCHANGED <<head, count, data, ppc, tpc, got, hand, byte, eaten, dropped, isr, uart>>
      /\ UNCHANGED <<arrived, seen>>
      /\ tpc = "pop" /\ cpc = "tail" /\ cpc' = "count" /\ tail' = (tail + 1) % Capacity
  BY Zenon DEF Popping, PopTail, producer, handler, device, story, task
<1>2. Held \in 1..Capacity
  BY <1>1, HeldBounds, FifoAssumption
<1>3. Held' = Held - 1 /\ Fetched' = Fetched /\ Entering' = Entering
  BY <1>1 DEF Held, Fetched, Entering, RxTypes
<1>4. Leaving = {} /\ Leaving' = {got} /\ got = At(0)
  BY <1>1, Zenon DEF Leaving, RxRing
<1>5. \A k \in 0..(Capacity - 1) : At(k)' = At(k + 1)
  <2> SUFFICES ASSUME NEW k \in 0..(Capacity - 1) PROVE At(k)' = At(k + 1)
    BY Zenon
  <2>1. tail' = Pos(tail + 1)
    BY <1>1, Wrap, Zenon DEF RxTypes
  <2>2. Pos(tail' + k) = Pos(tail + (k + 1))
    BY <2>1, Shift, Zenon DEF RxTypes
  <2> QED
    BY <1>1, <2>2, Zenon DEF At
<1>6. Queued = Queued' \cup {got}
  <2>1. ASSUME NEW x \in Queued PROVE x \in Queued' \cup {got}
    <3>1. PICK k \in 0..(Held - 1) : x = At(k)
      BY Zenon DEF Queued
    <3>2. CASE k = 0
      BY <1>4, <3>1, <3>2, Zenon
    <3>3. CASE k # 0
      <4>1. k - 1 \in 0..(Held' - 1) /\ k - 1 \in 0..(Capacity - 1) /\ (k - 1) + 1 = k
        BY <1>2, <1>3, <3>3, FifoAssumption
      <4>2. x = At(k - 1)'
        BY <1>5, <3>1, <4>1, Zenon
      <4> QED
        BY <4>1, <4>2, Zenon DEF Queued
    <3> QED
      BY <3>2, <3>3, Zenon
  <2>2. ASSUME NEW x \in Queued' PROVE x \in Queued
    <3>1. PICK k \in 0..(Held' - 1) : x = At(k)'
      BY Zenon DEF Queued
    <3>2. k + 1 \in 0..(Held - 1) /\ k \in 0..(Capacity - 1)
      BY <1>2, <1>3, FifoAssumption
    <3> QED
      BY <1>5, <3>1, <3>2, Zenon DEF Queued
  <2>3. got \in Queued
    BY <1>2, <1>4 DEF Queued
  <2> QED
    BY <2>1, <2>2, <2>3, Zenon
<1>7. Turns'
  BY <1>1, Zenon DEF Turns
<1>8. RxRing'
  <2>1. head = Pos(tail' + (Held - 1))
    <3>1. Held - 1 \in 0..(Capacity - 1) /\ (Held - 1) + 1 = Held
      BY <1>2, FifoAssumption
    <3>2. tail' = Pos(tail + 1)
      BY <1>1, Wrap, Zenon DEF RxTypes
    <3>3. Pos(Pos(tail + 1) + (Held - 1)) = Pos(tail + ((Held - 1) + 1))
      BY <3>1, Shift, Zenon DEF RxTypes
    <3> QED
      BY <3>1, <3>2, <3>3, Zenon DEF RxRing
  <2>2. \A j, k \in Slots : j < k /\ k < Held' => At(j)' < At(k)'
    <3> SUFFICES ASSUME NEW j \in Slots, NEW k \in Slots, j < k, k < Held - 1
                 PROVE  At(j + 1) < At(k + 1)
      BY <1>3, <1>5, Zenon DEF Slots
    <3>1. j + 1 \in Slots /\ k + 1 \in Slots /\ j + 1 < k + 1 /\ k + 1 < Held
      BY <1>2, FifoAssumption DEF Slots
    <3> QED
      BY <3>1, Zenon DEF RxRing
  <2> QED
    BY <1>1, <1>3, <2>1, <2>2 DEF RxRing
<1>9. RxOrder'
  <2>1. Below({got}, Queued')
    <3> SUFFICES ASSUME NEW k \in 0..(Held' - 1) PROVE got < At(k)'
      BY Zenon DEF Below, Queued
    <3>1. 0 \in Slots /\ k + 1 \in Slots /\ 0 < k + 1 /\ k + 1 < Held /\ k \in 0..(Capacity - 1)
      BY <1>2, <1>3, FifoAssumption DEF Slots
    <3> QED
      BY <1>4, <1>5, <3>1, Zenon DEF RxRing
  <2>2. Range(eaten)' = Range(eaten) /\ eaten' = eaten /\ dropped' = dropped
    BY <1>1, Zenon
  <2> QED
    BY <1>3, <1>4, <1>6, <2>1, <2>2 DEF RxOrder, Below
<1> QED
  BY <1>7, <1>8, <1>9, Zenon

(* ... and in the end eaten. *)
LEMMA PoppedStep ==
  ASSUME RxTypes, Turns, RxRing, RxOrder, Popped
  PROVE  Turns' /\ RxRing' /\ RxOrder'
<1>1. /\ UNCHANGED <<head, tail, data, ppc, got, hand, byte, dropped, isr, uart, arrived, seen>>
      /\ tpc = "pop" /\ tpc' \in {"exec", "pop"} /\ cpc = "count" /\ cpc' = "idle"
      /\ count' = count - 1 /\ eaten' = Append(eaten, got) /\ isr = 0
  BY Zenon DEF Popped, PopCount, producer, handler, device, story
<1>2. Held' = Held /\ Fetched' = Fetched /\ Leaving = {got} /\ Leaving' = {} /\ Entering' = Entering
  BY <1>1 DEF Held, Leaving, Fetched, Entering, RxTypes
<1>3. Queued' = Queued /\ \A k : At(k)' = At(k)
  BY <1>1, <1>2, SameQueue, Zenon
<1>4. Turns'
  BY <1>1, FifoAssumption DEF Turns, RxTypes
<1>5. RxRing'
  BY <1>1, <1>2, <1>3, Zenon DEF RxRing
<1>6. /\ Len(eaten') = Len(eaten) + 1 /\ Len(eaten) \in Nat
      /\ \A i \in 1..Len(eaten) : eaten'[i] = eaten[i]
      /\ eaten'[Len(eaten) + 1] = got
  BY <1>1, AppendProperties DEF RxTypes
<1>7. DOMAIN eaten = 1..Len(eaten) /\ DOMAIN eaten' = 1..Len(eaten')
  BY <1>1, AppendProperties DEF RxTypes
<1>8. Range(eaten') = Range(eaten) \cup {got}
  BY <1>6, <1>7 DEF Range
<1>9. \A i \in 2..Len(eaten') : eaten'[i - 1] < eaten'[i]
  <2> SUFFICES ASSUME NEW i \in 2..Len(eaten') PROVE eaten'[i - 1] < eaten'[i]
    BY Zenon
  <2>1. CASE i <= Len(eaten)
    BY <1>6, <2>1 DEF RxOrder
  <2>2. CASE i = Len(eaten) + 1
    <3>1. eaten'[i - 1] = eaten[Len(eaten)] /\ eaten[Len(eaten)] \in Range(eaten)
      BY <1>6, <1>7, <2>2 DEF Range
    <3> QED
      BY <1>2, <1>6, <2>2, <3>1 DEF RxOrder, Below
  <2> QED
    BY <1>6, <2>1, <2>2
<1>10. RxOrder'
  <2>1. Range(eaten)' \cup dropped' \cup Leaving' \cup Queued' \cup Entering' = 1..Fetched'
    BY <1>1, <1>2, <1>3, <1>8, Zenon DEF RxOrder
  <2>2. /\ Below(Range(eaten), Leaving \cup Queued \cup Entering)'
        /\ Below(Leaving, Queued \cup Entering)'
        /\ Below(Queued, Entering)'
    BY <1>1, <1>2, <1>3, <1>8, Zenon DEF RxOrder, Below
  <2> QED
    BY <1>9, <2>1, <2>2, Zenon DEF RxOrder
<1> QED
  BY <1>4, <1>5, <1>10, Zenon

(* Every step of the line, the handler and the task keeps the invariant.   *)
LEMMA RxStep == RxInv /\ [ConsoleNext]_all => RxInv'
<1> SUFFICES ASSUME RxInv, [ConsoleNext]_all, raced' = 0
             PROVE  Turns' /\ RxRing' /\ RxOrder'
  BY RxTypesStep, Zenon DEF RxInv
<1>1. raced = 0
  BY Zenon DEF RxInv, RxTypes, ConsoleNext, Line, Interrupt, ConsoleTask, Irq, Typing, Input, Execute,
     Prints, GoesOn, all, Arrive, Raise, IrqEnter, IrqDrop, IrqTake, IrqPush, IrqLeave, DrainStatus,
     DrainData, DrainTest, DrainStore, DrainLoad, DrainHead, DrainCount, NothingToPop, Popping,
     Popped, PollTx, Executed, serialVars, story
<1>2. RxTypes /\ Turns /\ RxRing /\ RxOrder
  BY <1>1, Zenon DEF RxInv
<1>3. CASE IrqPush
  BY <1>2, <1>3, StoreStep, HeadStep, CountStep, Zenon DEF IrqPush
<1>4. CASE Popping
  BY <1>2, <1>4, PopReadStep, PopTailStep, Zenon DEF Popping
<1> QED
  BY <1>1, <1>2, <1>3, <1>4, QuietStep, FetchStep, TestStep, StoreStep, HeadStep, CountStep,
     PoppedStep
     DEF ConsoleNext, Line, Interrupt, ConsoleTask, Irq, Typing, Input, Execute, Prints, GoesOn, all

(* What the console reads is what came in, each byte once and in order, and *)
(* none is forgotten, for any capacity of the ring and of the UART and any  *)
(* interleaving of wubu_serial_irq with wubu_serial_drain and the pops,     *)
(* until the handler takes a byte in the window that raced names.           *)
THEOREM InputIntactHolds == ConsoleSpec => []InputIntact
<1>1. RxInv => InputIntact
  <2> SUFFICES ASSUME RxInv, raced = 0
               PROVE  /\ 0 \notin Range(eaten)
                      /\ \A i \in 2 .. Len(eaten) : eaten[i - 1] < eaten[i]
                      /\ NoSlotRace
                      /\ AtRest /\ uart = <<>> /\ count = 0
                           => Range(eaten) \cup dropped = 1 .. arrived
    BY Zenon DEF InputIntact, InArrivalOrder, NoneForgotten
  <2>1. RxTypes /\ Turns /\ RxRing /\ RxOrder
    BY Zenon DEF RxInv
  <2>2. 0 \notin Range(eaten)
    BY <2>1, InFlight
  <2>3. NoSlotRace
    <3> SUFFICES ASSUME ppc = "store", cpc = "read" PROVE head # tail
      BY <2>1, Zenon DEF NoSlotRace, RxTypes
    <3>1. Held \in 1..(Capacity - 1) /\ head = Pos(tail + Held)
      BY <2>1, HeldBounds, FifoAssumption DEF RxRing
    <3> QED
      BY <2>1, <3>1, FifoAssumption DEF Pos, RxTypes, Slots
  <2>4. ASSUME AtRest, uart = <<>>, count = 0
        PROVE  Range(eaten) \cup dropped = 1 .. arrived
    <3>1. ppc = "idle"
      BY <2>1, <2>4 DEF AtRest, Turns
    <3>2. Leaving = {} /\ Entering = {} /\ Held = 0
      BY <2>4, <3>1 DEF AtRest, Leaving, Entering, Held
    <3>3. Queued = {}
      BY <3>2 DEF Queued
    <3>4. Len(uart) = 0
      BY <2>4, Zenon
    <3>5. Fetched = arrived
      BY ONLY <3>4, <2>1 DEF Fetched, RxTypes
    <3> QED
      BY <2>1, <3>2, <3>3, <3>5, Zenon DEF RxOrder
  <2> QED
    BY <2>1, <2>2, <2>3, <2>4, Zenon DEF RxOrder
<1> QED
  BY <1>1, RxInit, RxStep, PTL DEF ConsoleSpec

-----------------------------------------------------------------------------
(* The transmit ring.  The invariant says what due is made of: the slots   *)
(* from the tail to the head, without the first when a task has sent it    *)
(* and not moved the tail yet (Gone), and with the character of a task     *)
(* that has chosen its slot and not moved the head yet (Coming).  It holds *)
(* until two contexts are at one end of the ring.                          *)

(* A slot counted from slot 0 that may lie in the next turn of the ring,   *)
(* and how far the head is from the tail.                                  *)
Slot(x) == IF x < TxSize THEN x ELSE x - TxSize
Dist(h, t) == IF h >= t THEN h - t ELSE h - t + TxSize
Used == Dist(g_tx_head, g_tx_tail)

Coming == IF Putting = {} THEN 0 ELSE 1
Gone == IF \E w \in Writers : wr[w].pc \in {"load", "tail"} THEN 1 ELSE 0

RingTypes ==
  /\ g_tx_head \in TxSlots /\ g_tx_tail \in TxSlots
  /\ g_tx_ring \in [TxSlots -> Nat]
  /\ wr \in [Writers -> [pc : {"idle", "store", "head", "test", "out", "load", "tail"},
                         h : TxSlots, t : TxSlots, c : Nat, n : Nat]]
  /\ printed \in Nat /\ due \in Seq(Nat) /\ wrong \in {0, 1} /\ mixed \in {0, 1}

OneEach ==
  /\ \A v, w \in Putting : v = w
  /\ \A v, w \in Sending : v = w

Contents ==
  /\ Len(due) = Used - Gone + Coming
  /\ \A i \in 1..Len(due) : i <= Used - Gone =>
       due[i] = g_tx_ring[Slot(g_tx_tail + Gone + i - 1)]

PutInv ==
  \A w \in Putting :
    /\ wr[w].h = g_tx_head /\ Used + 1 < TxSize
    /\ due[Len(due)] = wr[w].c
    /\ wr[w].pc = "head" => g_tx_ring[g_tx_head] = wr[w].c

SendInv ==
  \A w \in Sending : Used >= 1 /\ (wr[w].pc = "tail" => wr[w].t = g_tx_tail)

Apart == wrong = 0 /\ OneEach /\ Contents /\ PutInv /\ SendInv
TxInv == RingTypes /\ (mixed = 0 => Apart)

(* Arithmetic of the transmit ring. *)

(* The code's (x + 1) % size is the next slot of the transmit ring.        *)
LEMMA WrapTx ==
  ASSUME NEW x \in TxSlots, NEW k \in TxSlots
  PROVE  (x + k) % TxSize = Slot(x + k) /\ Slot(x + k) \in TxSlots
<1> USE KlogAssumption DEF TxSlots, Slot
<1>1. CASE x + k < TxSize
  BY <1>1
<1>2. CASE x + k >= TxSize
  <2>1. (x + k) % TxSize = x + k - TxSize
    BY <1>2
  <2>2. QED
    BY <1>2, <2>1
<1>3. QED
  BY <1>1, <1>2

(* After is the next slot.                                                 *)
LEMMA AfterTx ==
  ASSUME NEW x \in TxSlots
  PROVE  After(x) = Slot(x + 1) /\ Slot(x + 1) \in TxSlots
<1>1. CASE TxSize = 1
  BY <1>1, KlogAssumption DEF TxSlots, Slot, After
<1>2. CASE TxSize # 1
  BY <1>2, WrapTx, KlogAssumption DEF TxSlots, After
<1>3. QED
  BY <1>1, <1>2, Zenon

(* The number of filled slots is the distance of the indices.              *)
LEMMA FilledTx ==
  ASSUME NEW h \in TxSlots, NEW t \in TxSlots
  PROVE  (h - t) % TxSize = Dist(h, t) /\ Dist(h, t) \in TxSlots
<1> USE KlogAssumption DEF TxSlots, Dist
<1>1. CASE h >= t
  BY <1>1
<1>2. CASE h < t
  BY <1>2
<1>3. QED
  BY <1>1, <1>2

(* The head is Dist slots from the tail; slots less than a turn apart are   *)
(* different slots.                                                         *)
LEMMA DistTx ==
  ASSUME NEW h \in TxSlots, NEW t \in TxSlots
  PROVE  /\ Slot(t + Dist(h, t)) = h
         /\ Slot(h + 1) # t => Dist(Slot(h + 1), t) = Dist(h, t) + 1 /\ Dist(h, t) + 1 < TxSize
         /\ \A k \in 0..Dist(h, t) :
              Slot(t + k) \in TxSlots /\ Dist(h, Slot(t + k)) = Dist(h, t) - k
         /\ \A k \in 0..Dist(h, t) - 1 : Slot(t + k) # h
         /\ h # t <=> Dist(h, t) >= 1
BY KlogAssumption DEF TxSlots, Dist, Slot

-----------------------------------------------------------------------------
(* Sending what is due. *)
LEMMA SendTypes ==
  ASSUME wrong \in {0, 1}, NEW d \in Seq(Nat), NEW s, Len(s) \in Nat, Send(d, s)
  PROVE  due' \in Seq(Nat) /\ wrong' \in {0, 1}
<1>1. wrong' \in {0, 1}
  BY Zenon DEF Send
<1>2. SubSeq(d, Len(s) + 1, Len(d)) \in Seq(Nat)
  <2>1. \A i \in Len(s) + 1 .. Len(d) : d[i] \in Nat
    OBVIOUS
  <2>2. QED
    BY <2>1, SubSeqProperties
<1>3. QED
  BY <1>1, <1>2 DEF Send

(* Sending a character that is due takes it off the front of due.          *)
LEMMA SendPrefix ==
  ASSUME NEW d \in Seq(Nat), NEW s \in Seq(Nat), Len(s) <= Len(d),
         \A i \in 1..Len(s) : s[i] = d[i], wrong = 0, Send(d, s)
  PROVE  /\ wrong' = 0 /\ Len(due') = Len(d) - Len(s)
         /\ \A i \in 1..Len(due') : due'[i] = d[i + Len(s)]
<1>1. Len(s) <= Len(d) /\ s = SubSeq(d, 1, Len(s))
  <2> DEFINE b == SubSeq(d, 1, Len(s))
  <2>1. b \in Seq(Nat) /\ Len(b) = Len(s) /\ \A i \in 1..Len(s) : b[i] = d[i]
    <3>1. \A i \in 1..Len(s) : d[i] \in Nat
      OBVIOUS
    <3>2. QED
      BY <3>1, SubSeqProperties
  <2> HIDE DEF b
  <2>2. s = b
    BY <2>1, SeqEqual, Zenon
  <2>3. QED
    BY <2>2, Zenon DEF b
<1>2. wrong' = 0 /\ due' = SubSeq(d, Len(s) + 1, Len(d))
  BY <1>1, Zenon DEF Send
<1>3. \A i \in Len(s) + 1 .. Len(d) : d[i] \in Nat
  OBVIOUS
<1>4. QED
  BY <1>2, <1>3, SubSeqProperties

(* The oldest character of the ring is the first that is due.              *)
LEMMA OldestTx ==
  ASSUME NEW r \in [TxSlots -> Nat], NEW t \in TxSlots, NEW k \in TxSlots
  PROVE  /\ Oldest(r, t, k) \in Seq(Nat) /\ Len(Oldest(r, t, k)) = k
         /\ \A i \in 1..k : Oldest(r, t, k)[i] = r[Slot(t + (i - 1))]
<1>1. \A i \in 1..k : i - 1 \in TxSlots /\ t + i - 1 = t + (i - 1)
  BY KlogAssumption DEF TxSlots
<1>2. \A i \in 1..k : (t + i - 1) % TxSize = Slot(t + (i - 1)) /\ Slot(t + (i - 1)) \in TxSlots
  BY <1>1, WrapTx, Zenon
<1>3. \A i \in 1..k : r[(t + i - 1) % TxSize] \in Nat
  BY <1>2, Zenon
<1>4. k \in Nat
  BY KlogAssumption DEF TxSlots
<1> DEFINE o == Oldest(r, t, k)
<1>5. o \in [1..k -> Nat] /\ \A i \in 1..k : o[i] = r[(t + i - 1) % TxSize]
  BY <1>3, Zenon DEF Oldest
<1> HIDE DEF o
<1>6. o \in Seq(Nat)
  BY <1>4, <1>5, SeqDef
<1>7. Len(o) = k
  BY <1>4, <1>5, <1>6, LenProperties
<1>8. QED
  BY <1>2, <1>5, <1>6, <1>7 DEF o

-----------------------------------------------------------------------------
(* The transmit ring starts empty.                                         *)
LEMMA TxInit1 == TxInit => TxInv
<1> SUFFICES ASSUME TxInit PROVE TxInv
  BY Zenon
<1> USE KlogAssumption
<1>1. RingTypes
  <2>1. wr \in [Writers -> [pc : {"idle", "store", "head", "test", "out", "load", "tail"},
                             h : TxSlots, t : TxSlots, c : Nat, n : Nat]]
    BY DEF TxInit, TxSlots, AtRestTx
  <2>2. due \in Seq(Nat)
    BY DEF TxInit
  <2>3. QED
    BY <2>1, <2>2 DEF TxInit, RingTypes, TxSlots
<1>2. Putting = {} /\ Sending = {} /\ Gone = 0 /\ Coming = 0 /\ Used = 0
  BY DEF TxInit, Putting, Sending, AtRestTx, Gone, Coming, Used, Dist
<1>3. Apart
  BY <1>2 DEF TxInit, Apart, OneEach, Contents, PutInv, SendInv
<1>4. QED
  BY <1>1, <1>3, Zenon DEF TxInv

(* The steps of a task, by what they do to the two ends of the ring. *)
LEMMA StepTypes ==
  ASSUME RingTypes, NEW w \in Writers, Putc(w) \/ Poll(w) \/ Inside(w)
  PROVE  RingTypes'
<1> USE KlogAssumption
<1>1. \A x \in TxSlots : After(x) \in TxSlots
  BY AfterTx, Zenon
<1>2. 0 \in TxSlots
  BY DEF TxSlots
<1> DEFINE Wr == [pc : {"idle", "store", "head", "test", "out", "load", "tail"},
                  h : TxSlots, t : TxSlots, c : Nat, n : Nat]
<1>a. wr \in [Writers -> Wr] /\ wr[w] \in Wr
  BY Zenon DEF RingTypes
<1>3. CASE Putc(w)
  <2> DEFINE full == After(g_tx_head) = g_tx_tail
  <2>1. [AtRestTx EXCEPT !.pc = IF full THEN "test" ELSE "store",
                         !.h = g_tx_head, !.c = printed + 1] \in Wr
    <3>1. printed + 1 \in Nat /\ g_tx_head \in TxSlots
      BY DEF RingTypes
    <3>2. (IF full THEN "test" ELSE "store") \in {"test", "store"}
      BY Zenon
    <3> HIDE DEF full
    <3>3. QED
      BY <1>2, <3>1, <3>2, Zenon DEF AtRestTx
  <2>2. wr' \in [Writers -> Wr]
    BY <2>1, <1>3, <1>a, Zenon DEF Putc
  <2>3. due' \in Seq(Nat)
    <3>1. due' = due \/ due' = Append(due, printed + 1)
      BY <1>3, Zenon DEF Putc
    <3>2. due \in Seq(Nat) /\ printed + 1 \in Nat
      BY DEF RingTypes
    <3>3. QED
      BY <3>1, <3>2, AppendProperties
  <2>4. QED
    BY <1>3, <2>2, <2>3, Zenon DEF Putc, RingTypes, ring
<1>4. CASE Poll(w) \/ DrainEnd(w) \/ DrainOn(w) \/ DrainTailLoad(w) \/ PutStore(w)
  <2>1. wr' \in [Writers -> Wr]
    <3>1. CASE Poll(w) \/ DrainEnd(w)
      BY <1>2, <3>1, <1>a DEF Poll, DrainEnd, AtRestTx
    <3>2. CASE DrainOn(w) \/ PutStore(w)
      BY <3>2, <1>a DEF DrainOn, PutStore
    <3>3. CASE DrainTailLoad(w)
      BY <3>3, <1>a, Zenon DEF DrainTailLoad, RingTypes
    <3>4. QED
      BY <1>4, <3>1, <3>2, <3>3, Zenon
  <2>2. g_tx_ring' \in [TxSlots -> Nat]
    BY <1>4, <1>a, Zenon DEF Poll, DrainEnd, DrainOn, DrainTailLoad, PutStore, RingTypes, ring
  <2>3. QED
    BY <1>4, <2>1, <2>2, Zenon DEF Poll, DrainEnd, DrainOn, DrainTailLoad, PutStore, RingTypes, ring
<1>5. CASE PutHead(w) \/ DrainTail(w)
  <2>1. wr' \in [Writers -> Wr]
    <3>1. CASE PutHead(w)
      BY <3>1, <1>a, Zenon DEF PutHead
    <3>2. CASE DrainTail(w)
      <4> DEFINE rec == [wr[w] EXCEPT !.pc = "test", !.n = wr[w].n + 1]
      <4>1. wr[w].n + 1 \in Nat
        BY <1>a
      <4>2. rec \in Wr
        BY <1>a, <4>1, Zenon
      <4>3. wr' = [wr EXCEPT ![w] = rec]
        BY <3>2, <1>a, Zenon DEF DrainTail
      <4> HIDE DEF rec, Wr
      <4>4. QED
        BY <1>a, <4>2, <4>3, Zenon
    <3>3. QED
      BY <1>5, <3>1, <3>2
  <2>2. After(wr[w].h) \in TxSlots /\ After(wr[w].t) \in TxSlots
    BY <1>1, <1>a, Zenon
  <2>3. QED
    BY <1>5, <2>1, <2>2, Zenon DEF PutHead, DrainTail, RingTypes
<1>6. CASE DrainOut(w)
  <2>1. due' \in Seq(Nat) /\ wrong' \in {0, 1}
    BY <1>6, SendTypes, Zenon DEF DrainOut, RingTypes
  <2>2. QED
    BY <1>6, <2>1, Zenon DEF DrainOut, RingTypes, ring
<1>7. QED
  BY <1>3, <1>4, <1>5, <1>6 DEF Inside

(* Facts about the ends of the ring that the steps below share. *)
LEMMA Bounds ==
  ASSUME RingTypes
  PROVE  /\ Used \in TxSlots /\ Used \in Nat /\ Used < TxSize /\ TxSize \in Nat
         /\ Slot(g_tx_tail + Used) = g_tx_head
         /\ Gone \in {0, 1} /\ Coming \in {0, 1}
<1>1. Used \in TxSlots /\ Slot(g_tx_tail + Used) = g_tx_head
  BY FilledTx, DistTx, Zenon DEF RingTypes, Used
<1>2. Used \in Nat /\ Used < TxSize /\ TxSize \in Nat
  BY <1>1, KlogAssumption DEF TxSlots
<1>3. QED
  BY <1>1, <1>2, Zenon DEF Gone, Coming

(* A step of w that is at neither end before or after. *)
LEMMA AwayStep ==
  ASSUME RingTypes, Apart, NEW w \in Writers, NEW r, wr' = [wr EXCEPT ![w] = r],
         wr[w].pc \in {"idle", "test"}, r.pc \in {"idle", "test"},
         UNCHANGED <<ring, due, wrong>>
  PROVE  Apart'
<1>1. Putting' = Putting /\ Sending' = Sending
  BY Zenon DEF Putting, Sending, RingTypes
<1>2. w \notin Putting /\ w \notin Sending
  BY Zenon DEF Putting, Sending
<1>3. Gone' = Gone /\ Coming' = Coming /\ Used' = Used
  BY <1>1, Zenon DEF Gone, Coming, Used, ring, RingTypes
<1>4. \A v \in Putting \cup Sending : wr'[v] = wr[v]
  BY <1>2, Zenon DEF Putting, Sending, RingTypes
<1>5. Contents'
  BY <1>3, Zenon DEF Apart, Contents, ring
<1>6. OneEach' /\ wrong' = 0
  BY <1>1, Zenon DEF Apart, OneEach
<1>7. PutInv'
  BY <1>1, <1>3, <1>4 DEF Apart, PutInv, ring
<1>8. SendInv'
  BY <1>1, <1>3, <1>4, Zenon DEF Apart, SendInv, ring
<1>9. QED
  BY <1>5, <1>6, <1>7, <1>8, Zenon DEF Apart

(* tx_push chooses the slot at the head. *)
LEMMA PutcStep ==
  ASSUME RingTypes, Apart, NEW w \in Writers, Putc(w), mixed' = 0
  PROVE  Apart'
<1>1. CASE After(g_tx_head) = g_tx_tail
  <2> DEFINE r == [AtRestTx EXCEPT !.pc = "test", !.h = g_tx_head, !.c = printed + 1]
  <2>1. wr' = [wr EXCEPT ![w] = r] /\ r.pc = "test" /\ wr[w].pc = "idle"
        /\ UNCHANGED <<ring, due, wrong>>
    BY <1>1, Zenon DEF Putc, AtRestTx
  <2> HIDE DEF r
  <2>2. QED
    BY <2>1, AwayStep, Zenon
<1>2. CASE After(g_tx_head) # g_tx_tail
  <2> DEFINE r == [AtRestTx EXCEPT !.pc = "store", !.h = g_tx_head, !.c = printed + 1]
  <2>1. /\ wr' = [wr EXCEPT ![w] = r] /\ wr[w].pc = "idle"
        /\ r.pc = "store" /\ r.h = g_tx_head /\ r.c = printed + 1
        /\ due' = Append(due, printed + 1) /\ Putting = {} /\ UNCHANGED <<ring, wrong>>
    BY <1>2 DEF Putc, AtRestTx
  <2> HIDE DEF r
  <2>2. Putting' = {w} /\ Sending' = Sending /\ w \notin Sending /\ wr'[w] = r
    BY <2>1 DEF Putting, Sending, RingTypes
  <2>3. Gone' = Gone /\ Coming = 0 /\ Coming' = 1 /\ Used' = Used
    BY <2>1, <2>2, Zenon DEF Gone, Coming, Used, ring, RingTypes
  <2>4. /\ Len(due') = Len(due) + 1 /\ due'[Len(due) + 1] = printed + 1
        /\ \A i \in 1..Len(due) : due'[i] = due[i]
    <3>1. due \in Seq(Nat) /\ printed + 1 \in Nat /\ due' = Append(due, printed + 1)
      BY <2>1 DEF RingTypes
    <3>2. QED
      BY ONLY <3>1, AppendProperties
  <2>5. Contents'
    <3>1. Len(due) = Used - Gone /\ Len(due') = Used' - Gone' + Coming'
      BY <2>3, <2>4, Bounds DEF Apart, Contents, RingTypes
    <3>2. ASSUME NEW i \in 1..Len(due'), i <= Used' - Gone'
          PROVE  due'[i] = g_tx_ring'[Slot(g_tx_tail' + Gone' + i - 1)]
      <4>1. i \in 1..Len(due)
        BY <3>1, <3>2, <2>3 DEF RingTypes
      <4>2. QED
        BY <4>1, <3>1, <3>2, <2>1, <2>3, <2>4, Zenon DEF Apart, Contents, ring
    <3>3. QED
      BY <3>1, <3>2, Zenon DEF Contents
  <2>6. Used + 1 < TxSize
    BY <1>2, AfterTx, DistTx DEF RingTypes, Used
  <2>7. PutInv'
    BY <2>1, <2>2, <2>3, <2>4, <2>6, Zenon DEF PutInv, ring
  <2>8. SendInv' /\ OneEach' /\ wrong' = 0
    BY <2>1, <2>2, <2>3, SMTT(30) DEF Apart, SendInv, OneEach, ring, Sending, RingTypes
  <2>9. QED
    BY <2>5, <2>7, <2>8, Zenon DEF Apart
<1>3. QED
  BY <1>1, <1>2, Zenon

(* The character goes into the slot at the head, which is none of those     *)
(* from the tail on.                                                        *)
LEMMA PutStoreStep ==
  ASSUME RingTypes, Apart, NEW w \in Writers, PutStore(w)
  PROVE  Apart'
<1>1. /\ wr' = [wr EXCEPT ![w].pc = "head"] /\ wr[w].pc = "store"
      /\ UNCHANGED <<g_tx_head, g_tx_tail, due, wrong>> /\ w \in Putting
  BY Zenon DEF PutStore, Putting
<1>2. Putting' = Putting /\ Putting = {w} /\ Sending' = Sending
  BY <1>1 DEF Putting, Sending, RingTypes, Apart, OneEach
<1>3. Gone' = Gone /\ Coming' = Coming /\ Used' = Used /\ w \notin Sending
  BY <1>1, <1>2, Zenon DEF Gone, Coming, Used, Sending, RingTypes
<1>4. wr[w].h = g_tx_head /\ g_tx_ring' = [g_tx_ring EXCEPT ![g_tx_head] = wr[w].c]
  BY <1>1, Zenon DEF Apart, PutInv, PutStore
<1>5. wr'[w].h = wr[w].h /\ wr'[w].c = wr[w].c /\ \A v \in Sending : wr'[v] = wr[v]
  BY <1>1, <1>3, Zenon DEF RingTypes, Sending
<1>6. Contents'
  <2>1. ASSUME NEW i \in 1..Len(due), i <= Used - Gone
        PROVE  g_tx_ring'[Slot(g_tx_tail + Gone + i - 1)] = g_tx_ring[Slot(g_tx_tail + Gone + i - 1)]
    <3> i \in Nat \ {0} /\ g_tx_tail \in Nat
      BY KlogAssumption DEF RingTypes, TxSlots
    <3>1. Gone + i - 1 \in 0..Used - 1 /\ g_tx_tail + Gone + i - 1 = g_tx_tail + (Gone + i - 1)
      BY <2>1, Bounds
    <3>2. Slot(g_tx_tail + (Gone + i - 1)) # g_tx_head
      <4>1. \A k \in 0..Used - 1 : Slot(g_tx_tail + k) # g_tx_head
        BY DistTx, Zenon DEF RingTypes, Used
      <4>2. QED
        BY <3>1, <4>1, Zenon
    <3>3. QED
      BY <3>1, <3>2, <1>4 DEF RingTypes
  <2>2. QED
    BY <2>1, <1>1, <1>3, Zenon DEF Apart, Contents
<1>7. PutInv'
  BY <1>1, <1>2, <1>3, <1>4, <1>5, Zenon DEF Apart, PutInv, RingTypes
<1>8. SendInv' /\ OneEach' /\ wrong' = 0
  BY <1>1, <1>2, <1>3, <1>5, Zenon DEF Apart, SendInv, OneEach
<1>9. QED
  BY <1>6, <1>7, <1>8, Zenon DEF Apart

(* The new head makes the character the last one of the ring. *)
LEMMA PutHeadStep ==
  ASSUME RingTypes, Apart, NEW w \in Writers, PutHead(w)
  PROVE  Apart'
<1>1. /\ wr' = [wr EXCEPT ![w].pc = "test"] /\ wr[w].pc = "head"
      /\ UNCHANGED <<g_tx_tail, g_tx_ring, due, wrong>> /\ w \in Putting
  BY Zenon DEF PutHead, Putting
<1>2. Putting' = {} /\ Putting = {w} /\ Sending' = Sending
  BY <1>1 DEF Putting, Sending, RingTypes, Apart, OneEach
<1>3. Gone' = Gone /\ Coming = 1 /\ Coming' = 0 /\ w \notin Sending
  BY <1>1, <1>2, Zenon DEF Gone, Coming, Sending, RingTypes
<1>4. /\ wr[w].h = g_tx_head /\ Used + 1 < TxSize
      /\ due[Len(due)] = g_tx_ring[g_tx_head]
  BY <1>1, Zenon DEF Apart, PutInv
<1>5. Used' = Used + 1
  <2>1. g_tx_head' = Slot(g_tx_head + 1)
    BY <1>4, AfterTx, Zenon DEF PutHead, RingTypes
  <2>2. Slot(g_tx_head + 1) # g_tx_tail
    <3>1. g_tx_head \in TxSlots /\ g_tx_tail \in TxSlots
      BY Zenon DEF RingTypes
    <3>2. QED
      BY <1>4, <3>1, KlogAssumption DEF Used, Dist, Slot, TxSlots
  <2>3. QED
    BY <1>1, <2>1, <2>2, DistTx DEF Used, RingTypes
<1>6. Contents'
  <2> Len(due) \in Nat /\ g_tx_tail \in Nat
    BY KlogAssumption DEF RingTypes, TxSlots
  <2>1. Len(due) = Used - Gone + 1
    BY <1>3, Zenon DEF Apart, Contents
  <2>2. Len(due) = Used' - Gone' + Coming'
    BY <2>1, <1>3, <1>5, Bounds
  <2>3. ASSUME NEW i \in 1..Len(due)
        PROVE  due[i] = g_tx_ring[Slot(g_tx_tail + Gone + i - 1)]
    <3>1. CASE i <= Used - Gone
      BY <3>1, Zenon DEF Apart, Contents
    <3>2. CASE i = Len(due)
      <4>1. g_tx_tail + Gone + i - 1 = g_tx_tail + Used
        BY <3>2, <2>1, Bounds
      <4>2. QED
        BY <3>2, <4>1, <1>4, Bounds, Zenon
    <3>3. QED
      BY <2>1, <3>1, <3>2, Bounds
  <2>4. QED
    BY <2>2, <2>3, <1>1, <1>3 DEF Contents
<1>7. PutInv' /\ OneEach' /\ wrong' = 0
  BY <1>1, <1>2, Zenon DEF PutInv, Apart, OneEach
<1>8. SendInv'
  BY <1>1, <1>2, <1>3, <1>5, Bounds, SMTT(30) DEF Apart, SendInv, RingTypes, Sending
<1>9. QED
  BY <1>6, <1>7, <1>8, Zenon DEF Apart

(* tx_drain finds a character, and reads the tail after sending it. *)
LEMMA DrainSeesStep ==
  ASSUME RingTypes, Apart, NEW w \in Writers, DrainOn(w) \/ DrainTailLoad(w), mixed' = 0
  PROVE  Apart'
<1>1. UNCHANGED <<g_tx_head, g_tx_tail, g_tx_ring, due, wrong>> /\ Used' = Used
  BY Zenon DEF DrainOn, DrainTailLoad, ring, Used
<1>2. Putting' = Putting /\ w \notin Putting /\ \A v \in Putting : wr'[v] = wr[v]
  <2>1. PICK x : /\ wr' = [wr EXCEPT ![w] = x] /\ x.pc \notin {"store", "head"}
                 /\ wr[w].pc \notin {"store", "head"}
    <3>1. CASE DrainOn(w)
      BY <3>1, Zenon DEF DrainOn, RingTypes
    <3>2. CASE DrainTailLoad(w)
      BY <3>2, Zenon DEF DrainTailLoad, RingTypes
    <3>3. QED
      BY <3>1, <3>2, Zenon
  <2>2. wr'[w].pc \notin {"store", "head"} /\ \A v \in Writers : v # w => wr'[v] = wr[v]
    BY <2>1, Zenon DEF RingTypes
  <2>3. QED
    BY <2>1, <2>2, Zenon DEF Putting
<1>3. Sending' = {w} /\ Gone' = Gone
  <2>1. CASE DrainOn(w)
    <3>1. Sending = {}
      BY <2>1 DEF DrainOn
    <3>2. QED
      BY <2>1, <3>1 DEF DrainOn, Sending, Gone, RingTypes
  <2>2. CASE DrainTailLoad(w)
    BY <2>2 DEF DrainTailLoad, Sending, Gone, RingTypes, Apart, OneEach
  <2>3. QED
    BY <2>1, <2>2, Zenon
<1>4. Coming' = Coming
  BY <1>2, Zenon DEF Coming
<1>5. Contents'
  BY <1>1, <1>3, <1>4, Zenon DEF Apart, Contents
<1>6. PutInv' /\ OneEach' /\ wrong' = 0
  BY <1>1, <1>2, <1>3, Zenon DEF Apart, PutInv, OneEach
<1>7. SendInv'
  <2>1. CASE DrainOn(w)
    <3>1. Used >= 1 /\ wr'[w].pc = "out"
      BY <2>1, DistTx DEF DrainOn, Used, RingTypes
    <3>2. QED
      BY <3>1, <1>1, <1>3, Zenon DEF SendInv
  <2>2. CASE DrainTailLoad(w)
    <3>1. Used >= 1 /\ wr'[w].t = g_tx_tail
      BY <2>2, Zenon DEF DrainTailLoad, Apart, SendInv, Sending, RingTypes
    <3>2. QED
      BY <3>1, <1>1, <1>3, Zenon DEF SendInv
  <2>3. QED
    BY <2>1, <2>2, Zenon
<1>8. QED
  BY <1>5, <1>6, <1>7, Zenon DEF Apart

(* The character at the tail is the first one due. *)
LEMMA DrainOutStep ==
  ASSUME RingTypes, Apart, NEW w \in Writers, DrainOut(w)
  PROVE  Apart'
<1>1. /\ wr' = [wr EXCEPT ![w].pc = "load"] /\ wr[w].pc = "out" /\ w \in Sending
      /\ UNCHANGED <<g_tx_head, g_tx_tail, g_tx_ring>> /\ Used' = Used
  BY Zenon DEF DrainOut, Sending, ring, Used
<1>2. Putting' = Putting /\ \A v \in Putting : wr'[v] = wr[v]
  BY <1>1, Zenon DEF Putting, RingTypes
<1>3. Sending = {w} /\ Sending' = {w} /\ wr'[w].pc = "load"
  BY <1>1 DEF Sending, RingTypes, Apart, OneEach
<1>4. Gone = 0 /\ Gone' = 1 /\ Coming' = Coming /\ Used >= 1
  <2>1. Gone = 0
    BY <1>1, <1>3, Zenon DEF Gone, Sending
  <2>2. Gone' = 1
    BY <1>3, Zenon DEF Gone
  <2>3. QED
    BY <2>1, <2>2, <1>1, <1>2, Zenon DEF Coming, Apart, SendInv
<1> DEFINE s == <<g_tx_ring[g_tx_tail]>>
<1>5. s \in Seq(Nat) /\ Len(s) = 1 /\ s[1] = g_tx_ring[g_tx_tail]
  BY DEF RingTypes
<1> Len(due) \in Nat /\ g_tx_tail \in Nat /\ due \in Seq(Nat)
  BY KlogAssumption DEF RingTypes, TxSlots
<1>6. Len(due) = Used + Coming /\ Len(due) >= 1
  BY <1>4, Bounds DEF Apart, Contents
<1>7. due[1] = g_tx_ring[g_tx_tail]
  <2>1. g_tx_tail + Gone + 1 - 1 = g_tx_tail /\ Slot(g_tx_tail) = g_tx_tail
    BY <1>4, KlogAssumption DEF Slot, RingTypes, TxSlots
  <2>2. 1 \in 1..Len(due) /\ 1 <= Used - Gone
    BY <1>4, <1>6, Bounds
  <2>3. QED
    BY <2>1, <2>2, Zenon DEF Apart, Contents
<1>8. Send(due, s) /\ wrong = 0
  BY Zenon DEF DrainOut, Apart
<1> HIDE DEF s
<1>9. wrong' = 0 /\ Len(due') = Len(due) - 1 /\ \A i \in 1..Len(due') : due'[i] = due[i + 1]
  <2>1. Len(s) <= Len(due) /\ \A i \in 1..Len(s) : s[i] = due[i]
    BY <1>5, <1>6, <1>7
  <2>2. /\ wrong' = 0 /\ Len(due') = Len(due) - Len(s)
        /\ \A i \in 1..Len(due') : due'[i] = due[i + Len(s)]
    BY <2>1, <1>5, <1>8, SendPrefix, Zenon
  <2>3. QED
    BY <2>2, <1>5, Zenon
<1>10. Contents'
  <2>1. Len(due') = Used' - Gone' + Coming'
    BY <1>1, <1>4, <1>6, <1>9, Bounds
  <2>2. ASSUME NEW i \in 1..Len(due'), i <= Used' - Gone'
        PROVE  due'[i] = g_tx_ring'[Slot(g_tx_tail' + Gone' + i - 1)]
    <3>1. i + 1 \in 1..Len(due) /\ i + 1 <= Used - Gone
      BY <2>2, <1>1, <1>4, <1>9, Bounds, SMTT(30)
    <3>2. g_tx_tail + Gone + (i + 1) - 1 = g_tx_tail' + Gone' + i - 1
      BY <1>1, <1>4, <1>9
    <3>3. due[i + 1] = g_tx_ring[Slot(g_tx_tail + Gone + (i + 1) - 1)]
      BY <3>1, Zenon DEF Apart, Contents
    <3>4. QED
      BY <3>2, <3>3, <1>1, <1>9, Zenon
  <2>3. QED
    BY <2>1, <2>2, Zenon DEF Contents
<1>11. PutInv'
  <2>1. ASSUME NEW v \in Putting PROVE due'[Len(due')] = due[Len(due)]
    <3>1. Len(due) >= 2
      <4>1. Coming = 1
        BY <2>1, Zenon DEF Coming
      <4>2. QED
        BY <4>1, <1>4, <1>6, Bounds
    <3>2. QED
      BY <3>1, <1>9
  <2>2. QED
    BY <2>1, <1>1, <1>2 DEF Apart, PutInv
<1>12. SendInv' /\ OneEach'
  BY <1>1, <1>2, <1>3, <1>4, Zenon DEF Apart, SendInv, OneEach
<1>13. QED
  BY <1>9, <1>10, <1>11, <1>12, Zenon DEF Apart

(* The tail moves past the character that was sent. *)
LEMMA DrainTailStep ==
  ASSUME RingTypes, Apart, NEW w \in Writers, DrainTail(w)
  PROVE  Apart'
<1>1. /\ wr[w].pc = "tail" /\ w \in Sending /\ wr[w].t = g_tx_tail /\ Used >= 1
      /\ UNCHANGED <<g_tx_head, g_tx_ring, due, wrong>>
  BY Zenon DEF DrainTail, Sending, Apart, SendInv
<1>2. Putting' = Putting /\ \A v \in Putting : wr'[v] = wr[v]
  BY <1>1, Zenon DEF DrainTail, Putting, RingTypes
<1>3. Sending = {w} /\ Sending' = {} /\ Coming' = Coming
  <2>1. Sending = {w}
    BY <1>1, Zenon DEF Apart, OneEach
  <2>2. Sending' = {}
    BY <2>1, Zenon DEF DrainTail, Sending, RingTypes
  <2>3. QED
    BY <2>1, <2>2, <1>2, Zenon DEF Coming
<1>4. Gone = 1 /\ Gone' = 0
  <2>1. Gone = 1
    BY <1>1, Zenon DEF Gone
  <2>2. \A v \in Writers : wr'[v].pc \in {"load", "tail"} => v \in Sending'
    BY Zenon DEF Sending
  <2>3. QED
    BY <2>1, <2>2, <1>3, Zenon DEF Gone
<1>5. g_tx_tail' = Slot(g_tx_tail + 1) /\ Used' = Used - 1
  <2>1. g_tx_tail' = Slot(g_tx_tail + 1)
    BY <1>1, AfterTx, Zenon DEF DrainTail, RingTypes
  <2>2. \A k \in 0..Used : Dist(g_tx_head, Slot(g_tx_tail + k)) = Used - k
    BY DistTx DEF RingTypes, Used
  <2>3. 1 \in 0..Used
    BY <1>1, Bounds
  <2>4. QED
    BY <2>1, <2>2, <2>3, <1>1, Zenon DEF Used
<1> Len(due) \in Nat /\ g_tx_tail \in Nat /\ g_tx_tail < TxSize
  BY KlogAssumption DEF RingTypes, TxSlots
<1>6. Contents'
  <2>1. Len(due) = Used' - Gone' + Coming'
    <3>1. Len(due) = Used - Gone + Coming
      BY Zenon DEF Apart, Contents
    <3>2. QED
      BY <3>1, <1>3, <1>4, <1>5, Bounds
  <2>2. ASSUME NEW i \in 1..Len(due), i <= Used' - Gone'
        PROVE  due[i] = g_tx_ring[Slot(g_tx_tail' + Gone' + i - 1)]
    <3>1. i <= Used - Gone /\ i \in Nat /\ i < TxSize /\ i >= 1
      BY <2>2, <1>4, <1>5, Bounds
    <3>2. due[i] = g_tx_ring[Slot(g_tx_tail + Gone + i - 1)]
      BY <3>1, Zenon DEF Apart, Contents
    <3>3. Slot(g_tx_tail + Gone + i - 1) = Slot(g_tx_tail' + Gone' + i - 1)
      BY <3>1, <1>4, <1>5, KlogAssumption DEF Slot
    <3>4. QED
      BY <3>2, <3>3, Zenon
  <2>3. QED
    BY <2>1, <2>2, <1>1, Zenon DEF Contents
<1>7. PutInv'
  BY <1>1, <1>2, <1>5, Bounds DEF Apart, PutInv
<1>8. SendInv' /\ OneEach' /\ wrong' = 0
  BY <1>1, <1>2, <1>3, Zenon DEF Apart, SendInv, OneEach
<1>9. QED
  BY <1>6, <1>7, <1>8, Zenon DEF Apart

(* Every step of a task that prints keeps the invariant.                   *)
LEMMA TaskStep ==
  ASSUME TxInv, NEW w \in Writers, Putc(w) \/ Poll(w) \/ Inside(w)
  PROVE  TxInv'
<1>1. RingTypes'
  BY StepTypes, Zenon DEF TxInv
<1>2. ASSUME mixed' = 0 PROVE Apart'
  <2>1. RingTypes /\ mixed = 0 /\ Apart
    <3>1. mixed = 0
      BY <1>2 DEF Putc, Poll, Inside, PutStore, PutHead, DrainEnd, DrainOn, DrainOut,
                  DrainTailLoad, DrainTail
    <3>2. QED
      BY <3>1, Zenon DEF TxInv
  <2>2. CASE Poll(w) \/ DrainEnd(w)
    <3> DEFINE r == IF Poll(w) THEN [AtRestTx EXCEPT !.pc = "test"] ELSE AtRestTx
    <3>1. wr' = [wr EXCEPT ![w] = r]
      BY <2>2, Zenon DEF Poll, DrainEnd
    <3>2. wr[w].pc \in {"idle", "test"} /\ UNCHANGED <<ring, due, wrong>>
      BY <2>2, Zenon DEF Poll, DrainEnd
    <3>3. r.pc \in {"idle", "test"}
      BY Zenon DEF AtRestTx
    <3> HIDE DEF r
    <3>4. QED
      BY <2>1, <3>1, <3>2, <3>3, AwayStep, Zenon
  <2>3. CASE Putc(w)
    BY <2>1, <2>3, <1>2, PutcStep, Zenon
  <2>4. CASE PutStore(w)
    BY <2>1, <2>4, PutStoreStep, Zenon
  <2>5. CASE PutHead(w)
    BY <2>1, <2>5, PutHeadStep, Zenon
  <2>6. CASE DrainOn(w) \/ DrainTailLoad(w)
    BY <2>1, <2>6, <1>2, DrainSeesStep, Zenon
  <2>7. CASE DrainOut(w)
    BY <2>1, <2>7, DrainOutStep, Zenon
  <2>8. CASE DrainTail(w)
    BY <2>1, <2>8, DrainTailStep, Zenon
  <2>9. QED
    BY <2>2, <2>3, <2>4, <2>5, <2>6, <2>7, <2>8 DEF Inside
<1>3. QED
  BY <1>1, <1>2, Zenon DEF TxInv

(* The timer interrupt puts a character at most and sends the k oldest, in  *)
(* one step.                                                                *)
LEMMA TimerStep ==
  ASSUME TxInv, NEW prints \in BOOLEAN, NEW k \in 0..DrainLimit, Tick(prints, k)
  PROVE  TxInv'
<1> DEFINE full == After(g_tx_head) = g_tx_tail
           puts == prints /\ ~full
           hd == IF puts THEN After(g_tx_head) ELSE g_tx_head
           r == IF puts THEN [g_tx_ring EXCEPT ![g_tx_head] = printed + 1] ELSE g_tx_ring
           d == IF puts THEN Append(due, printed + 1) ELSE due
           u == Dist(hd, g_tx_tail)
           s == Oldest(r, g_tx_tail, k)
<1>1. /\ RingTypes /\ g_tx_head \in TxSlots /\ g_tx_tail \in TxSlots /\ printed \in Nat
      /\ due \in Seq(Nat) /\ g_tx_ring \in [TxSlots -> Nat] /\ wrong \in {0, 1}
      /\ TxSize \in Nat \ {0} /\ k \in Nat /\ mixed \in {0, 1}
  BY KlogAssumption DEF TxInv, RingTypes
<1>2. /\ k <= (hd - g_tx_tail) % TxSize
      /\ g_tx_head' = hd /\ g_tx_ring' = r /\ Send(d, s)
      /\ g_tx_tail' = (g_tx_tail + k) % TxSize
      /\ printed' \in {printed, printed + 1} /\ wr' = wr
  BY Zenon DEF Tick, Filled
<1>3. mixed' = IF (puts /\ Putting # {}) \/ (k > 0 /\ Sending # {}) THEN 1 ELSE mixed
  BY Zenon DEF Tick
<1>4. hd \in TxSlots /\ r \in [TxSlots -> Nat]
  BY <1>1, AfterTx
<1>5. d \in Seq(Nat) /\ (puts => /\ Len(d) = Len(due) + 1 /\ d[Len(due) + 1] = printed + 1
                                 /\ \A i \in 1..Len(due) : d[i] = due[i])
  BY <1>1, AppendProperties
<1>6. puts => hd = Slot(g_tx_head + 1) /\ Slot(g_tx_head + 1) # g_tx_tail
              /\ r = [g_tx_ring EXCEPT ![g_tx_head] = printed + 1]
  BY <1>1, AfterTx, Zenon
<1>7. ~puts => hd = g_tx_head /\ r = g_tx_ring /\ d = due
  BY Zenon
<1> HIDE DEF puts, hd, r, d
<1>8. u \in TxSlots /\ u \in Nat /\ u < TxSize /\ k <= u /\ k \in TxSlots
  <2>1. u \in TxSlots /\ k <= u
    BY <1>1, <1>2, <1>4, FilledTx, Zenon
  <2>2. QED
    BY <2>1, <1>1 DEF TxSlots
<1>9. g_tx_tail' = Slot(g_tx_tail + k) /\ g_tx_tail' \in TxSlots /\ Dist(hd, g_tx_tail') = u - k
  <2>1. g_tx_tail' = Slot(g_tx_tail + k) /\ g_tx_tail' \in TxSlots
    BY <1>1, <1>2, <1>8, WrapTx
  <2>2. \A j \in 0..u : Dist(hd, Slot(g_tx_tail + j)) = u - j
    BY <1>1, <1>4, DistTx
  <2>3. QED
    BY <2>1, <2>2, <1>1, <1>8
<1>10. /\ s \in Seq(Nat) /\ Len(s) = k
       /\ \A i \in 1..k : s[i] = r[Slot(g_tx_tail + (i - 1))]
  <2>1. r \in [TxSlots -> Nat] /\ g_tx_tail \in TxSlots /\ k \in TxSlots
    BY <1>1, <1>4, <1>8, Zenon
  <2> HIDE DEF u
  <2>2. QED
    BY <2>1, OldestTx, Zenon
<1> HIDE DEF s, u
<1>11. RingTypes'
  <2>1. due' \in Seq(Nat) /\ wrong' \in {0, 1}
    BY <1>1, <1>2, <1>5, <1>10, SendTypes, Zenon
  <2>2. mixed' \in {0, 1} /\ printed' \in Nat
    BY <1>1, <1>2, <1>3
  <2>3. /\ wr' \in [Writers -> [pc : {"idle", "store", "head", "test", "out", "load", "tail"},
                                h : TxSlots, t : TxSlots, c : Nat, n : Nat]]
    BY <1>1, <1>2, Zenon DEF RingTypes
  <2>4. QED
    BY <1>2, <1>4, <1>9, <2>1, <2>2, <2>3, Zenon DEF RingTypes
<1>12. ASSUME mixed' = 0 PROVE Apart'
  <2>1. Apart /\ (puts => Putting = {}) /\ (k > 0 => Sending = {})
    <3>1. mixed = 0 /\ (puts => Putting = {}) /\ (k > 0 => Sending = {})
      BY <1>1, <1>3, <1>12
    <3>2. QED
      BY <3>1, Zenon DEF TxInv
  <2>2. Putting' = Putting /\ Sending' = Sending /\ Gone' = Gone /\ Coming' = Coming
    BY <1>2, Zenon DEF Putting, Sending, Gone, Coming
  <2>3. (puts => Coming = 0) /\ (k > 0 => Gone = 0) /\ Gone \in {0, 1} /\ Coming \in {0, 1}
    BY <2>1, Zenon DEF Coming, Gone, Sending
  <2>4. Used' = u - k
    BY <1>2, <1>9, Zenon DEF Used
  <2>5. u = IF puts THEN Used + 1 ELSE Used
    BY <1>1, <1>6, <1>7, DistTx DEF u, Used
  <2>6. Used \in Nat /\ Used < TxSize /\ Slot(g_tx_tail + Used) = g_tx_head
    BY <1>1, Bounds, Zenon
  <2> Len(due) \in Nat /\ g_tx_tail \in Nat /\ g_tx_tail < TxSize /\ Len(d) \in Nat
    BY <1>1, <1>5 DEF TxSlots
  <2>7. Len(d) = u - Gone + Coming
    <3>1. Len(due) = Used - Gone + Coming
      BY <2>1, Zenon DEF Apart, Contents
    <3>2. QED
      BY <3>1, <1>5, <1>7, <2>3, <2>5, <2>6
  <2>8. ASSUME NEW i \in 1..Len(d), i <= u - Gone
        PROVE  d[i] = r[Slot(g_tx_tail + Gone + i - 1)]
    <3>1. i \in Nat /\ i >= 1
      OBVIOUS
    <3>2. CASE ~puts
      BY <3>2, <1>7, <2>1, <2>5, <2>8, Zenon DEF Apart, Contents
    <3>3. CASE puts /\ i <= Used - Gone
      <4>1. i \in 1..Len(due)
        BY <3>1, <3>3, <2>3, <2>5, <2>6, <2>7, <1>5
      <4>2. due[i] = g_tx_ring[Slot(g_tx_tail + Gone + i - 1)]
        BY <3>3, <4>1, <2>1, Zenon DEF Apart, Contents
      <4>3. Gone + i - 1 \in 0..Used - 1 /\ g_tx_tail + Gone + i - 1 = g_tx_tail + (Gone + i - 1)
        BY <3>1, <3>3, <2>3, <2>6
      <4>4. \A j \in 0..Used - 1 : Slot(g_tx_tail + j) # g_tx_head /\ Slot(g_tx_tail + j) \in TxSlots
        BY <1>1, <2>6, DistTx DEF Used
      <4>5. Slot(g_tx_tail + Gone + i - 1) # g_tx_head /\ Slot(g_tx_tail + Gone + i - 1) \in TxSlots
        BY <4>3, <4>4, Zenon
      <4>6. QED
        <5>1. r[Slot(g_tx_tail + Gone + i - 1)] = g_tx_ring[Slot(g_tx_tail + Gone + i - 1)]
          BY <3>3, <4>5, <1>1, <1>6, Zenon
        <5>2. d[i] = due[i]
          BY <3>3, <4>1, <1>5, Zenon
        <5>3. QED
          BY <4>2, <5>1, <5>2, Zenon
    <3>4. CASE puts /\ i > Used - Gone
      <4>1. i = Len(due) + 1 /\ g_tx_tail + Gone + i - 1 = g_tx_tail + Used
        <5>1. Coming = 0 /\ u = Used + 1 /\ Len(d) = Len(due) + 1
          BY <3>4, <2>3, <2>5, <1>5, Zenon
        <5>2. Gone \in {0, 1} /\ Used \in Nat
          BY <2>3, <2>6, Zenon
        <5>3. QED
          BY <3>1, <3>4, <2>7, <2>8, <5>1, <5>2
      <4>2. QED
        BY <3>4, <4>1, <1>1, <1>5, <1>6, <2>6, Zenon
    <3>5. QED
      BY <3>1, <3>2, <3>3, <3>4, <2>3, <2>6
  <2>9. /\ wrong' = 0 /\ Len(due') = Len(d) - k
        /\ \A i \in 1..Len(due') : due'[i] = d[i + k]
    <3>1. Len(s) <= Len(d)
      BY <1>8, <1>10, <2>3, <2>7
    <3>2. ASSUME NEW i \in 1..k PROVE s[i] = d[i]
      <4>1. Gone = 0 /\ i \in 1..Len(d) /\ i <= u - Gone
            /\ g_tx_tail + Gone + i - 1 = g_tx_tail + (i - 1)
        BY <1>1, <1>8, <2>3, <2>7
      <4>2. QED
        BY <4>1, <2>8, <1>10, Zenon
    <3>3. QED
      BY <3>1, <3>2, <2>1, <1>2, <1>5, <1>10, SendPrefix, Zenon DEF Apart
  <2>numbers. /\ k \in Nat /\ u \in Nat /\ k <= u /\ u < TxSize /\ TxSize \in Nat
          /\ Len(d) = u - Gone + Coming /\ Len(due') = Len(d) - k
          /\ Gone \in {0, 1} /\ Coming \in {0, 1} /\ (k > 0 => Gone = 0)
    BY <1>1, <1>8, <2>3, <2>7, <2>9, Zenon
  <2>10. Contents'
    <3>1. Len(due') = Used' - Gone' + Coming'
      BY <2>2, <2>3, <2>4, <2>7, <2>9, <1>1, <1>8
    <3>2. ASSUME NEW i \in 1..Len(due'), i <= Used' - Gone'
          PROVE  due'[i] = g_tx_ring'[Slot(g_tx_tail' + Gone' + i - 1)]
      <4>1. i \in Nat /\ i >= 1 /\ i + k \in 1..Len(d) /\ i + k <= u - Gone
        BY <3>2, <2>2, <2>4, <2>numbers
      <4>2. due'[i] = r[Slot(g_tx_tail + Gone + (i + k) - 1)]
        BY <4>1, <2>8, <2>9, Zenon
      <4>3. Slot(g_tx_tail + Gone + (i + k) - 1) = Slot(Slot(g_tx_tail + k) + Gone + i - 1)
        BY <4>1, <2>3, <1>1, <1>8 DEF Slot
      <4>4. QED
        BY <4>2, <4>3, <1>2, <1>9, <2>2, Zenon
    <3>3. QED
      BY <3>1, <3>2, Zenon DEF Contents
  <2>11. PutInv'
    <3>1. ASSUME NEW w \in Putting
          PROVE  /\ ~puts /\ Coming = 1 /\ wr[w].h = g_tx_head /\ Used + 1 < TxSize
                 /\ due[Len(due)] = wr[w].c
                 /\ wr[w].pc = "head" => g_tx_ring[g_tx_head] = wr[w].c
      BY <2>1, Zenon DEF Apart, PutInv, Coming
    <3>2. ASSUME NEW w \in Putting
          PROVE  due'[Len(due')] = due[Len(due)] /\ Used' + 1 < TxSize
      <4>1. d = due /\ Coming = 1 /\ u = Used
        BY <3>1, <1>7, <2>5, Zenon
      <4>2. Len(due') >= 1 /\ Len(due') + k = Len(due)
        <5>1. Gone = 1 => Used >= 1
          BY <2>1 DEF Gone, Sending, Apart, SendInv
        <5>2. QED
          BY <4>1, <5>1, <2>numbers
      <4>3. Used' + 1 < TxSize
        BY <3>1, <4>1, <2>4, <2>6, <1>1
      <4>4. QED
        <5>1. due'[Len(due')] = d[Len(due') + k]
          BY <4>2, <2>9, <2>numbers
        <5>2. QED
          BY <4>1, <4>2, <4>3, <5>1, Zenon
    <3>3. QED
      BY <3>1, <3>2, <2>2, <1>2, <1>7, Zenon DEF PutInv
  <2>12. SendInv'
    <3>1. ASSUME NEW w \in Sending
          PROVE  g_tx_tail' = g_tx_tail /\ Used' >= 1
      <4>1. k = 0 /\ Used >= 1
        BY <2>1, <1>1 DEF Apart, SendInv
      <4>2. QED
        BY <4>1, <1>9, <2>4, <2>5, <2>6, <1>1 DEF Slot
    <3>2. QED
      BY <3>1, <2>1, <2>2, <1>2, Zenon DEF Apart, SendInv
  <2>13. OneEach'
    BY <2>1, <2>2, Zenon DEF Apart, OneEach
  <2>14. QED
    BY <2>9, <2>10, <2>11, <2>12, <2>13, Zenon DEF Apart
<1>13. QED
  BY <1>11, <1>12, Zenon DEF TxInv

(* Every step of the console keeps the invariant of the transmit ring.     *)
LEMMA TxStep == TxInv /\ [ConsoleNext]_all => TxInv'
<1> SUFFICES ASSUME TxInv, [ConsoleNext]_all PROVE TxInv'
  BY Zenon
<1>1. CASE UNCHANGED txVars
  <2>1. UNCHANGED <<g_tx_head, g_tx_tail, g_tx_ring, wr, printed, due, wrong, mixed>>
    BY <1>1, Zenon DEF txVars, ring
  <2>2. RingTypes' = RingTypes /\ Putting' = Putting /\ Sending' = Sending /\ Used' = Used
    BY <2>1, Zenon DEF RingTypes, Putting, Sending, Used
  <2>3. Gone' = Gone /\ Coming' = Coming
    BY <2>1, <2>2, Zenon DEF Gone, Coming
  <2>4. Apart' = Apart
    BY <2>1, <2>2, <2>3, Zenon DEF Apart, OneEach, Contents, PutInv, SendInv
  <2>5. QED
    BY <2>1, <2>2, <2>4, Zenon DEF TxInv
<1>2. CASE \E w \in Writers : Putc(w) \/ Poll(w) \/ Inside(w)
  BY <1>2, TaskStep, Zenon
<1>3. CASE Timer
  BY <1>3, TimerStep, Zenon DEF Timer
<1>4. QED
  BY <1>1, <1>2, <1>3, KlogAssumption
     DEF ConsoleNext, Line, Interrupt, ConsoleTask, Typing, PollTx, Execute, Executed, Prints,
         GoesOn, Others, all

(* The characters put into the transmit ring leave it once each and in      *)
(* order, with any number of tasks and the timer interrupt in tx_push and   *)
(* tx_drain, until two of them are at the same end of the ring.             *)
THEOREM OutputInOrder == ConsoleSpec => []SentInOrder
<1>1. ConsoleInit => TxInv
  BY TxInit1, Zenon DEF ConsoleInit
<1>2. TxInv => SentInOrder
  BY Zenon DEF TxInv, Apart, SentInOrder
<1>3. QED
  BY <1>1, <1>2, TxStep, PTL DEF ConsoleSpec
=============================================================================
