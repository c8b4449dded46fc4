------------------------------ MODULE TaskRing ------------------------------
(***************************************************************************)
(* The circular, doubly linked task list of src/src/kernel/tasking.c, with *)
(* its pointers.  A task is the memory block of its control block; a freed *)
(* block keeps its contents, can be written through a stale pointer, and   *)
(* can be allocated again.  Each operation runs with interrupts masked or  *)
(* is not disturbed by the timer, which only reads the list.               *)
(***************************************************************************)
EXTENDS Naturals, Sequences, FiniteSets, Functions

CONSTANTS
  Blocks,  \* the memory blocks that task control blocks are made in
  Idle,    \* the block of the task tasking_init creates, the PRIO_IDLE one
  NULL,
  Uses     \* each a set of the operations that the tasks call in one life

ASSUME TaskRingAssumption == Idle \in Blocks /\ NULL \notin Blocks /\ IsFiniteSet(Blocks)

VARIABLES
  next, prev,  \* of each block
  head,        \* g_head
  task_state,  \* of each block: "free", "live" or "dying"
  current,     \* g_current; NULL once it has been freed under its own feet
  ops          \* the operations this kernel's tasks call

list == <<next, prev, head, task_state, current>>
ringVars == <<list, ops>>

(* InsertForgetsHead and ReapsCurrent are defective forms of the           *)
(* operations after them, used to see that a property notices.             *)

(* The blocks met from h by following nx, up to the return to h.  (If a    *)
(* list does not lead back, as many as there are blocks.)                  *)
Onward(nx, b) == IF b = NULL THEN NULL ELSE nx[b]
Follow(nx, h) ==
  LET at[k \in 0 .. Cardinality(Blocks)] == IF k = 0 THEN h ELSE Onward(nx, at[k - 1]) IN at
Back(at) == {k \in 1 .. Cardinality(Blocks) : at[k] \in {at[0], NULL}}
Length(at) ==
  IF Back(at) = {} THEN Cardinality(Blocks) ELSE CHOOSE k \in Back(at) : \A j \in Back(at) : k <= j
Walk(nx, h) ==
  IF h = NULL THEN <<>> ELSE LET at == Follow(nx, h) IN [k \in 1 .. Length(at) |-> at[k - 1]]

List == Walk(next, head)

RingInit ==
  /\ next = [b \in Blocks |-> IF b = Idle THEN Idle ELSE NULL]
  /\ prev = next
  /\ head = Idle /\ current = Idle
  /\ task_state = [b \in Blocks |-> IF b = Idle THEN "live" ELSE "free"]
  /\ ops \in Uses

InsertForgetsHead(t) ==
  /\ "task_create" \in ops /\ current # NULL
  /\ task_state[t] = "free" /\ head # NULL
  /\ next' = [b \in Blocks |-> IF b = prev[head] THEN t ELSE IF b = t THEN head ELSE next[b]]
  /\ prev' = [prev EXCEPT ![t] = prev[head]]
  /\ task_state' = [task_state EXCEPT ![t] = "live"]
  /\ UNCHANGED <<head, current, ops>>

(* task_create in block t, with task_insert's four writes: of two to one   *)
(* block's pointer the later, tested first, is the one that stays.         *)
task_create(t) ==
  /\ "task_create" \in ops /\ current # NULL
  /\ task_state[t] = "free" /\ head # NULL
  /\ next' = [b \in Blocks |-> IF b = prev[head] THEN t ELSE IF b = t THEN head ELSE next[b]]
  /\ prev' = [b \in Blocks |-> IF b = head THEN t ELSE IF b = t THEN prev[head] ELSE prev[b]]
  /\ task_state' = [task_state EXCEPT ![t] = "live"]
  /\ UNCHANGED <<head, current, ops>>

(* No caller terminates the idle task, whose context is the main loop.     *)
task_terminate(t) ==
  /\ "task_terminate" \in ops /\ current # NULL
  /\ task_state[t] # "free" /\ t \notin {Idle, head}
  /\ task_state' = [task_state EXCEPT ![t] = "dying"]
  /\ UNCHANGED <<next, prev, head, current, ops>>

(* task_remove(t) on the pointers r, a record of next, prev and head.      *)
task_remove(r, t) ==
  IF r.next[t] = t
  THEN [next |-> [r.next EXCEPT ![t] = NULL], prev |-> [r.prev EXCEPT ![t] = NULL],
        head |-> NULL]
  ELSE [next |-> [b \in Blocks |-> IF b = t THEN NULL ELSE IF b = r.prev[t] THEN r.next[t]
                                   ELSE r.next[b]],
        prev |-> [b \in Blocks |-> IF b = t THEN NULL ELSE IF b = r.next[t] THEN r.prev[t]
                                   ELSE r.prev[b]],
        head |-> IF r.head = t THEN r.next[t] ELSE r.head]

(* The pointers after a walk over the tasks of s, with task_destroy of     *)
(* those in out.                                                           *)
Pointers == [next |-> next, prev |-> prev, head |-> head]
Meet(r, t, out) == IF t \in out THEN task_remove(r, t) ELSE r
Removing(s, out) ==
  LET r[k \in 0 .. Len(s)] == IF k = 0 THEN Pointers ELSE Meet(r[k - 1], s[k], out) IN r

Freed(out) == [b \in Blocks |-> IF b \in out THEN "free" ELSE task_state[b]]

Destroy(s, out) ==
  LET r == Removing(s, out)[Len(s)]
  IN next' = r.next /\ prev' = r.prev /\ head' = r.head /\ task_state' = Freed(out)

(* task_kill: a task found in the list is destroyed, the caller included.  *)
task_kill(t) ==
  /\ "task_kill" \in ops /\ current # NULL
  /\ t \in Range(List)
  /\ Destroy(<<t>>, {t})
  /\ current' = IF t = current THEN NULL ELSE current
  /\ UNCHANGED ops

(* task_exit: g_current moves to the head before its task is destroyed.    *)
task_exit ==
  /\ "task_exit" \in ops /\ current \notin {NULL, head}
  /\ Destroy(<<current>>, {current})
  /\ current' = head
  /\ UNCHANGED ops

(* task_kill_all: if the head is destroyed, the walk ends at the new head. *)
Killed == IF head # Idle THEN {head} ELSE Range(List) \ {Idle}
task_kill_all ==
  /\ "task_kill_all" \in ops /\ current # NULL /\ head # NULL
  /\ Destroy(List, Killed)
  /\ current' = IF current \in Killed THEN NULL ELSE current
  /\ UNCHANGED ops

(* task_reap's search for the task before t, and what it writes there.     *)
Unlink(nx, t) == LET ring == Walk(nx, t) IN [nx EXCEPT ![ring[Len(ring)]] = nx[t]]
Pass(nx, t, out) == IF t \in out THEN Unlink(nx, t) ELSE nx
Unlinking(s, out) ==
  LET nx[k \in 0 .. Len(s)] == IF k = 0 THEN next ELSE Pass(nx[k - 1], s[k], out) IN nx

ReapsCurrent ==
  LET out == {t \in Range(List) : task_state[t] = "dying"}
  IN /\ "task_reap" \in ops /\ current # NULL /\ head # NULL
     /\ next' = Unlinking(List, out)[Len(List)]
     /\ task_state' = Freed(out)
     /\ UNCHANGED <<head, prev, current, ops>>

(* task_reap: each DYING task but the current is unlinked from next alone; *)
(* if the head is reaped, the walk ends at the new head.                   *)
Dying(t) == task_state[t] = "dying" /\ t # current
Reaped == IF Dying(head) THEN {head} ELSE {t \in Range(List) : Dying(t)}
task_reap ==
  /\ "task_reap" \in ops /\ current # NULL /\ head # NULL
  /\ next' = Unlinking(List, Reaped)[Len(List)]
  /\ head' = IF ~Dying(head) THEN head ELSE IF next[head] = head THEN NULL ELSE next[head]
  /\ task_state' = Freed(Reaped)
  /\ UNCHANGED <<prev, current, ops>>

(* task_yield moves to some task of the list. *)
Switch(t) ==
  /\ current # NULL /\ t \in Range(List) /\ task_state[t] = "live"
  /\ current' = t
  /\ UNCHANGED <<next, prev, head, task_state, ops>>

RingNext ==
  \/ task_exit \/ task_kill_all \/ task_reap
  \/ \E t \in Blocks : task_create(t) \/ task_terminate(t) \/ task_kill(t) \/ Switch(t)

RingSpec == RingInit /\ [][RingNext]_ringVars

-----------------------------------------------------------------------------
(* The types; and g_current points to no freed task, except where a task   *)
(* has been killed while it was running.                                   *)
RingTypeOK ==
  /\ next \in [Blocks -> Blocks \cup {NULL}] /\ prev \in [Blocks -> Blocks \cup {NULL}]
  /\ head \in Blocks \cup {NULL} /\ task_state \in [Blocks -> {"free", "live", "dying"}]
  /\ current \in {b \in Blocks : task_state[b] # "free"} \cup {NULL} /\ ops \in Uses

(* With task_destroy as the only way out of the list, whoever calls it and *)
(* whichever task is the head, the list holds all tasks that are not freed *)
(* and no other, and prev is the inverse of next.                          *)
RingSound ==
  "task_reap" \notin ops =>
    /\ Range(List) = {b \in Blocks : task_state[b] # "free"}
    /\ \A b \in Range(List) : next[b] # NULL /\ prev[next[b]] = b /\ next[prev[b]] = b

(* With task_reap as the only way out, each step on the pointers is one of *)
(* TaskList: also when freed blocks are written through g_head->prev or    *)
(* used again.                                                             *)
TheList == INSTANCE TaskList WITH ring <- List, last <- prev[head]

Destroys == {"task_kill", "task_exit", "task_kill_all"}

ImplementsList == [][ops \cap Destroys = {} => TheList!Next]_list

(* task_reap: "Free a DYING task's resources + unlink it from the ring";   *)
(* whoever frees a task, no freed block can be reached from g_head.        *)
NoneFreedListed == \A b \in Range(List) : task_state[b] # "free"
=============================================================================
