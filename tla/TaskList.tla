------------------------------ MODULE TaskList ------------------------------
(***************************************************************************)
(* The task list as Scheduler sees it: the tasks met from g_head, and the  *)
(* task that g_head->prev points to, behind which the next one is put.     *)
(* Scheduler's Insert and task_reap change it in the same way.             *)
(***************************************************************************)
EXTENDS Naturals, Sequences, Functions

CONSTANT Blocks  \* the memory blocks that task control blocks are made in

VARIABLES
  ring,    \* the blocks met by following next from g_head
  last,    \* g_head->prev
  task_state,  \* of each block: "free", "live" or "dying"
  current  \* g_current

Insert(t) ==
  /\ task_state[t] = "free"
  /\ task_state' = [task_state EXCEPT ![t] = "live"]
  /\ ring' = IF last \in Range(ring) THEN Append(ring, t) ELSE ring
  /\ last' = t
  /\ UNCHANGED current

Terminate(t) ==
  /\ task_state[t] # "free" /\ t # ring[1]
  /\ task_state' = [task_state EXCEPT ![t] = "dying"]
  /\ UNCHANGED <<ring, last, current>>

(* The tasks that stay keep their order. *)
Kept == {i \in 1 .. Len(ring) : task_state[ring[i]] # "dying" \/ ring[i] = current}
Reap ==
  /\ \E n \in 0 .. Len(ring) : \E at \in [1 .. n -> Kept] :
       /\ Range(at) = Kept /\ \A i, j \in 1 .. n : i < j => at[i] < at[j]
       /\ ring' = [i \in 1 .. n |-> ring[at[i]]]
  /\ task_state' = [t \in Blocks |-> IF t \in Range(ring) /\ task_state[t] = "dying" /\ t # current
                                     THEN "free" ELSE task_state[t]]
  /\ UNCHANGED <<last, current>>

Switch == current' \in Range(ring) /\ UNCHANGED <<ring, last, task_state>>

Next == Reap \/ Switch \/ \E t \in Blocks : Insert(t) \/ Terminate(t)

Spec ==
  /\ \E t \in Blocks :
       /\ ring = <<t>> /\ last = t /\ current = t
       /\ task_state = [b \in Blocks |-> IF b = t THEN "live" ELSE "free"]
  /\ [][Next]_<<ring, last, task_state, current>>
=============================================================================
