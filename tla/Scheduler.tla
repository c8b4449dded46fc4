----------------------------- MODULE Scheduler ------------------------------
(***************************************************************************)
(* The kernel's task states and its EEVDF scheduler, as built for bare     *)
(* metal: src/src/kernel/tasking.c and the main loop that drives it in     *)
(* src/src/kernel/wubu_agi_kernel.c.                                       *)
(*                                                                         *)
(* One processor runs current's code, which calls the operations below;    *)
(* the timer interrupt may fall between any two of them.  The circular     *)
(* task list is here the sequence met by following next from g_head and    *)
(* the task g_head->prev points to, the only prev these operations follow  *)
(* (all the pointers are in TaskRing).  The timer wheel is the set of      *)
(* entries it still has to report, each with the wheel time at which it    *)
(* will (the wheel, and interrupts inside tw_add, are in TimerWheel).      *)
(***************************************************************************)
EXTENDS Integers, Sequences, FiniteSets, Functions

CONSTANTS
  Tasks,       \* task control blocks
  Idle,        \* the task tasking_init creates; its context is the main loop
  PoolSize,    \* TW_MAX_ENTRIES
  Rotation,    \* TW_SLOTS, the ticks one turn of the wheel's level 0 takes
  MaxDue,      \* the length of task_wake_expired's due array
  StallLimit,  \* WATCHDOG_STALL_LIMIT
  EarlyTicks,  \* timer interrupts taken before tasking_init
  Loads        \* the loads to look at: in each, the entry points that running
               \* tasks call (api), the tasks created, their priorities, the
               \* delays they sleep for, and a bound on the timer interrupts

ASSUME SchedulerAssumption ==
  /\ Idle \in Tasks
  /\ \A l \in Loads : /\ l.tasks \subseteq Tasks /\ l.prios \subseteq 0..4
                      /\ l.delays \subseteq Nat /\ l.ticks \in Nat
  /\ PoolSize \in Nat /\ MaxDue \in Nat /\ EarlyTicks \in Nat
  /\ Rotation \in Nat \ {0} /\ StallLimit \in Nat

IDLE == 0
REALTIME == 4

VARIABLES
  ring,      \* the task list in next order from g_head
  head_prev, \* g_head->prev, which task_insert puts new tasks behind
  current,   \* g_current
  state,     \* CTask.state
  prio,      \* CTask.priority
  wprio,     \* the priority CTask.weight and CTask.slice were computed from
  vruntime,  \* CTask.vruntime
  ticks,     \* CTask.total_ticks
  wake,      \* CTask.wake_tick
  stall,     \* CTask.stall_ticks of the current task
  g_tick, g_min_vruntime,
  wheel,     \* g_sleep_wheel's entries: task, and the wheel time it reports it
  wnow,      \* g_sleep_wheel.now
  pool_used, \* g_sleep_wheel.pool_used
  at,        \* how far the current task is in the operation it called
  sleeper,   \* the task that task_arm_sleep is working on
  returned,  \* tasks whose entry function has returned to task_trampoline
  steady,    \* tasks that have been runnable since they were created
  load,      \* the load of this behaviour
  halted     \* the watchdog has stopped the machine

tcb == <<prio, wprio, vruntime, ticks>>
timers == <<wake, wheel, pool_used>>
clock == <<g_tick, g_min_vruntime, wnow, halted>>
call == <<at, sleeper>>
vars == <<ring, head_prev, current, state, tcb, timers, clock, stall, call, returned, steady, load>>

Linked == Range(ring)
Existing == {t \in Tasks : state[t] \notin {"NONE", "FREED"}}
Runnable == {"READY", "RUNNING"}
States == {"NONE", "RUNNING", "READY", "BLOCKED", "SLEEPING", "DYING", "FREED"}

(* weight = 128 << prio, in the two quotients the code takes of it. *)
Weight(p) == 128 * 2 ^ p
Step(t) == 1024 \div Weight(wprio[t])
Slice(t) == (4 * 1024) \div Weight(wprio[t])
Deadline(t) == vruntime[t] + Slice(t)

(* tasking_init, after EarlyTicks interrupts that only counted g_tick: the *)
(* idle task is created and made current on the stack of the boot code.    *)
Init ==
  /\ ring = <<Idle>>
  /\ head_prev = Idle
  /\ current = Idle
  /\ state = [t \in Tasks |-> IF t = Idle THEN "RUNNING" ELSE "NONE"]
  /\ prio = [t \in Tasks |-> IDLE]
  /\ wprio = [t \in Tasks |-> IDLE]
  /\ vruntime = [t \in Tasks |-> 0]
  /\ ticks = [t \in Tasks |-> 0]
  /\ wake = [t \in Tasks |-> 0]
  /\ stall = 0
  /\ g_tick = EarlyTicks
  /\ g_min_vruntime = 0
  /\ wheel = {}
  /\ wnow = 0
  /\ pool_used = 0
  /\ at = "run"
  /\ sleeper = Idle
  /\ returned = {}
  /\ steady = {Idle}
  /\ load \in Loads
  /\ halted = FALSE

-----------------------------------------------------------------------------
(* Each definition named for a defect (here WokenByWheelOnly) is a defective *)
(* form of the one after it, used to see that a property notices.          *)
WokenByWheelOnly(st) == st

(* task_schedule_next: the sleepers it wakes on its way round the ring ... *)
Woken(st) ==
  [t \in Tasks |-> IF t \in Linked /\ st[t] = "SLEEPING" /\ g_tick >= wake[t]
                   THEN "READY" ELSE st[t]]

(* ... how soon it meets a task, starting after the current one ...        *)
Distance(t) ==
  LET Index(u) == CHOOSE k \in DOMAIN ring : ring[k] = u
  IN (Index(t) - Index(current) - 1) % Len(ring)

(* ... and the one it takes: the smallest key, the first met among equals. *)
Smaller(a, b) ==
  \E k \in DOMAIN a : a[k] < b[k] /\ \A j \in 1..(k - 1) : a[j] = b[j]

Least(S, Key(_)) ==
  {t \in S : \A u \in S : ~Smaller(Key(u), Key(t))}

(* Real-time before all others, idle only when there is nothing else. *)
TopClass(S) ==
  LET rt == {t \in S : prio[t] = REALTIME}
      work == {t \in S : prio[t] \notin {IDLE, REALTIME}}
  IN IF rt # {} THEN rt ELSE IF work # {} THEN work ELSE S

(* The set holding its result, empty for NULL. *)
task_schedule_next(st) ==
  LET ready == {t \in Linked : st[t] \in Runnable}
      eligible == {t \in ready : vruntime[t] <= g_min_vruntime}
      Key(t) == CASE prio[t] = REALTIME -> <<vruntime[t], ticks[t], Distance(t)>>
                  [] prio[t] = IDLE -> <<vruntime[t], Distance(t)>>
                  [] OTHER -> <<Deadline(t), vruntime[t], ticks[t], Distance(t)>>
      HeadKey(t) == <<vruntime[t], CHOOSE k \in DOMAIN ring : ring[k] = t>>
  IN IF eligible # {} THEN Least(TopClass(eligible), Key) ELSE Least(ready, HeadKey)

YieldLeavesRunning(st) ==
  LET woken == Woken(st)
      pick == task_schedule_next(woken)
  IN /\ stall' = 0
     /\ IF pick \subseteq {current}
        THEN current' = current /\ state' = woken
        ELSE \E next \in pick :
               current' = next /\ state' = [woken EXCEPT ![next] = "RUNNING"]

(* task_yield, entered with the task states st. *)
Yield(st) ==
  LET woken == Woken(st)
      pick == task_schedule_next(woken)
  IN /\ stall' = 0
     /\ IF pick \subseteq {current}
        THEN current' = current /\ state' = woken
        ELSE \E next \in pick :
               /\ current' = next
               /\ state' = [t \in Tasks |-> IF t = next THEN "RUNNING"
                                           ELSE IF t = current THEN "READY" ELSE woken[t]]

(* Ghost: a task that is not runnable after a step is no longer steady. *)
Unsteady == steady' = {t \in steady : state'[t] \in Runnable}

(* The current task calls an operation.  A task whose entry has returned   *)
(* only yields, and the idle task's context is wubu_agi_kernel_run, which  *)
(* creates the tasks and then reaps and yields for ever.                   *)
Calls(op) ==
  /\ op \in load.api /\ ~halted /\ at = "run"
  /\ current \notin returned
  /\ current = Idle => op = "task_create"

(* task_insert.  task_reap leaves prev alone, so head_prev may be freed;   *)
(* then t is linked behind the freed block, and so are all tasks after it. *)
Insert(t) ==
  /\ ring' = IF head_prev \in Linked THEN Append(ring, t) ELSE ring
  /\ head_prev' = t

CreateBehindClock(t, p) ==
  /\ Calls("task_create")
  /\ t \in load.tasks /\ state[t] = "NONE"
  /\ state' = [state EXCEPT ![t] = "READY"]
  /\ prio' = [prio EXCEPT ![t] = p]
  /\ wprio' = [wprio EXCEPT ![t] = p]
  /\ Insert(t)
  /\ steady' = steady \cup {t}
  /\ UNCHANGED <<current, vruntime, ticks, timers, clock, stall, call, returned, load>>

task_create(t, p) ==
  /\ Calls("task_create")
  /\ t \in load.tasks /\ state[t] = "NONE"
  /\ state' = [state EXCEPT ![t] = "READY"]
  /\ prio' = [prio EXCEPT ![t] = p]
  /\ wprio' = [wprio EXCEPT ![t] = p]
  /\ vruntime' = [vruntime EXCEPT ![t] = g_min_vruntime]
  /\ Insert(t)
  /\ steady' = steady \cup {t}
  /\ UNCHANGED <<current, ticks, timers, clock, stall, call, returned, load>>

(* task_yield, called as it is or as the end of another operation. *)
task_yield ==
  /\ ~halted
  /\ at = "yield" \/ (at = "run" /\ current # Idle)
  /\ Yield(state)
  /\ at' = "run"
  /\ Unsteady
  /\ UNCHANGED <<ring, head_prev, tcb, timers, clock, sleeper, returned, load>>

ReapLeavesLinked ==
  /\ ~halted /\ at = "run" /\ current = Idle
  /\ state' = [t \in Tasks |-> IF state[t] = "DYING" THEN "FREED" ELSE state[t]]
  /\ at' = "yield"
  /\ UNCHANGED <<ring, head_prev, current, tcb, timers, clock, stall, sleeper, returned, steady, load>>

(* The list s, in its order, without the tasks of D. *)
Without(s, D) ==
  LET walk[k \in 0..Len(s)] ==
        IF k = 0 THEN <<>>
        ELSE IF s[k] \in D THEN walk[k - 1] ELSE Append(walk[k - 1], s[k])
  IN walk[Len(s)]

(* One turn of the main loop: task_reap, then at "yield" task_yield.  When *)
(* the head itself is reaped, the walk stops at the new head.              *)
task_reap ==
  LET reapable == {t \in Tasks : state[t] = "DYING" /\ t # current}
  IN /\ ~halted /\ at = "run" /\ current = Idle
     /\ ring' = IF ring[1] \in reapable THEN Tail(ring) ELSE Without(ring, reapable)
     /\ state' = [t \in Tasks |-> IF t \in Linked \ Range(ring') THEN "FREED"
                                  ELSE state[t]]
     /\ at' = "yield"
     /\ UNCHANGED <<head_prev, current, tcb, timers, clock, stall, sleeper, returned, steady, load>>

(* The entry function returns to task_trampoline. *)
task_trampoline ==
  /\ Calls("return")
  /\ state' = [state EXCEPT ![current] = "DYING"]
  /\ returned' = returned \cup {current}
  /\ at' = "yield"
  /\ Unsteady
  /\ UNCHANGED <<ring, head_prev, current, tcb, timers, clock, stall, sleeper, load>>

task_block ==
  /\ Calls("task_block")
  /\ state' = [state EXCEPT ![current] = "BLOCKED"]
  /\ at' = "yield"
  /\ Unsteady
  /\ UNCHANGED <<ring, head_prev, current, tcb, timers, clock, stall, sleeper, returned, load>>

(* task_arm_sleep(t), alone or as the start of task_sleep, with the timer  *)
(* interrupt between its three writes.  Callers arm themselves or a task   *)
(* that is ready.                                                          *)
ArmSleep(t) ==
  /\ IF t = current THEN Calls("task_sleep") ELSE Calls("task_arm_sleep")
  /\ t # Idle /\ state[t] \in Runnable
  /\ state' = [state EXCEPT ![t] = "SLEEPING"]
  /\ at' = "wake_tick"
  /\ sleeper' = t
  /\ Unsteady
  /\ UNCHANGED <<ring, head_prev, current, tcb, timers, clock, stall, returned, load>>

SetWakeTick(n) ==
  /\ ~halted /\ at = "wake_tick"
  /\ g_tick + n <= load.ticks + 1
  /\ wake' = [wake EXCEPT ![sleeper] = g_tick + n]
  /\ at' = "tw_add"
  /\ UNCHANGED <<ring, head_prev, current, state, tcb, wheel, pool_used, clock, stall,
                 sleeper, returned, steady, load>>

(* tw_add.  An entry due at the wheel's own time has missed its slot, and  *)
(* waits for the next turn of the wheel.                                   *)
AddTimer ==
  /\ ~halted /\ at = "tw_add"
  /\ IF wake[sleeper] < wnow \/ pool_used >= PoolSize
     THEN UNCHANGED <<wheel, pool_used>>
     ELSE /\ wheel' = wheel \cup
               {[task |-> sleeper, n |-> pool_used,
                 due |-> wake[sleeper] + (IF wake[sleeper] = wnow THEN Rotation ELSE 0)]}
          /\ pool_used' = pool_used + 1
  /\ at' = IF sleeper = current THEN "yield" ELSE "run"
  /\ UNCHANGED <<ring, head_prev, current, state, tcb, wake, clock, stall, sleeper, returned, steady, load>>

(* The operations on another task's state. *)
Assign(t, s) ==
  /\ state' = [state EXCEPT ![t] = s]
  /\ Unsteady
  /\ UNCHANGED <<ring, head_prev, current, tcb, wheel, pool_used, clock, stall, call, returned, load>>

UnblockAny(t) ==
  /\ Calls("task_unblock")
  /\ t \in Existing
  /\ Assign(t, "READY") /\ UNCHANGED wake

task_unblock(t) ==
  /\ Calls("task_unblock")
  /\ state[t] = "BLOCKED"
  /\ Assign(t, "READY") /\ UNCHANGED wake

task_wake(t) ==
  /\ Calls("task_wake")
  /\ state[t] \in {"SLEEPING", "BLOCKED"}
  /\ Assign(t, "READY") /\ wake' = [wake EXCEPT ![t] = 0]

task_suspend(t) ==
  /\ Calls("task_suspend")
  /\ state[t] = "READY"
  /\ Assign(t, "BLOCKED") /\ UNCHANGED wake

task_terminate(t) ==
  /\ Calls("task_terminate")
  /\ t \in Existing \ {Idle}
  /\ Assign(t, "DYING") /\ UNCHANGED wake

(* task_prio_set also recomputes weight and slice; task_set_priority does not. *)
task_set_priority(t, p) ==
  /\ t \in Existing \ {Idle}
  /\ \/ Calls("task_prio_set") /\ wprio' = [wprio EXCEPT ![t] = p]
     \/ Calls("task_set_priority") /\ UNCHANGED wprio
  /\ prio' = [prio EXCEPT ![t] = p]
  /\ UNCHANGED <<ring, head_prev, current, state, vruntime, ticks, timers, clock, stall,
                 call, returned, steady, load>>

(* task_wake_expired: the wheel reports what is due, at most MaxDue of it. *)
task_wake_expired ==
  LET due == {e \in wheel : e.due = wnow + 1}
      full == IF Cardinality(due) <= MaxDue THEN Cardinality(due) ELSE MaxDue
  IN /\ wnow' = wnow + 1
     /\ wheel' = wheel \ due
     /\ \E fired \in SUBSET due :
          /\ Cardinality(fired) = full
          /\ state' = [t \in Tasks |->
                IF t \in Linked /\ state[t] = "SLEEPING" /\ \E e \in fired : e.task = t
                THEN "READY" ELSE state[t]]

TickKeepsClock ==
  /\ ~halted
  /\ g_tick < EarlyTicks + load.ticks
  /\ g_tick' = g_tick + 1
  /\ ticks' = [ticks EXCEPT ![current] = @ + 1]
  /\ vruntime' = [vruntime EXCEPT ![current] = @ + Step(current)]
  /\ stall' = stall + 1
  /\ halted' = (stall > StallLimit)
  /\ IF halted' THEN UNCHANGED <<wnow, wheel, state>> ELSE task_wake_expired
  /\ UNCHANGED <<ring, head_prev, current, prio, wprio, wake, g_min_vruntime, pool_used, call,
                 returned, steady, load>>

(* The timer interrupt: the accounting of task_account_tick, the watchdog, *)
(* and the wheel unless the watchdog has stopped the machine.              *)
task_timer_tick ==
  /\ ~halted
  /\ g_tick < EarlyTicks + load.ticks
  /\ g_tick' = g_tick + 1
  /\ ticks' = [ticks EXCEPT ![current] = @ + 1]
  /\ vruntime' = [vruntime EXCEPT ![current] = @ + Step(current)]
  /\ g_min_vruntime' = IF vruntime'[current] > g_min_vruntime
                       THEN vruntime'[current] ELSE g_min_vruntime
  /\ stall' = stall + 1
  /\ halted' = (stall > StallLimit)
  /\ IF halted' THEN UNCHANGED <<wnow, wheel, state>> ELSE task_wake_expired
  /\ UNCHANGED <<ring, head_prev, current, prio, wprio, wake, pool_used, call, returned, steady, load>>

(* tasking_init, called again by a subsystem that wants it to have run. *)
tasking_init ==
  /\ Calls("tasking_init")
  /\ wheel' = {} /\ wnow' = 0 /\ pool_used' = 0
  /\ UNCHANGED <<ring, head_prev, current, state, tcb, wake, g_tick, g_min_vruntime, halted,
                 stall, call, returned, steady, load>>

Next ==
  \/ task_yield \/ task_reap \/ task_trampoline \/ task_block
  \/ AddTimer \/ task_timer_tick \/ tasking_init
  \/ \E n \in load.delays : SetWakeTick(n)
  \/ \E t \in Tasks :
       \/ ArmSleep(t) \/ task_unblock(t) \/ task_wake(t)
       \/ task_suspend(t) \/ task_terminate(t)
       \/ \E p \in load.prios : task_create(t, p) \/ task_set_priority(t, p)

Spec == Init /\ [][Next]_vars

(* Interrupts arrive; "every task reaches a yield" (the end of             *)
(* task_timer_tick), whatever else it calls before; what is under way in   *)
(* the kernel goes on.                                                     *)
Fairness ==
  /\ WF_vars(task_timer_tick)
  /\ SF_vars(task_yield)
  /\ WF_vars(task_reap)
  /\ WF_vars(AddTimer \/ \E n \in load.delays : SetWakeTick(n))

FairSpec == Spec /\ Fairness

-----------------------------------------------------------------------------
TypeOK ==
  /\ ring \in Seq(Tasks)
  /\ current \in Tasks /\ head_prev \in Tasks
  /\ state \in [Tasks -> States]
  /\ prio \in [Tasks -> 0..4] /\ wprio \in [Tasks -> 0..4]
  /\ vruntime \in [Tasks -> Nat] /\ ticks \in [Tasks -> Nat]
  /\ wake \in [Tasks -> Nat]
  /\ stall \in 0..(StallLimit + 2)
  /\ g_tick \in Nat /\ g_min_vruntime \in Nat /\ wnow \in Nat
  /\ wheel \subseteq [task : Tasks, n : Nat, due : Nat]
  /\ pool_used \in 0..PoolSize
  /\ at \in {"run", "wake_tick", "tw_add", "yield"}
  /\ sleeper \in Tasks
  /\ returned \subseteq Tasks /\ steady \subseteq Tasks
  /\ halted \in BOOLEAN

(* Only the current task is RUNNING, and it is linked, whatever sequence   *)
(* of blocks, sleeps, terminations and reaps came before: the scheduler    *)
(* never leaves the processor in a task that has been freed.               *)
OneRunning ==
  /\ \A t \in Tasks : state[t] = "RUNNING" => t = current
  /\ current \in Linked

(* The task list starts with the idle task and holds each task at most     *)
(* once and none that task_reap has freed; and it holds all that exist as  *)
(* long as the task created last has not been reaped.                      *)
ListExact ==
  /\ Linked \subseteq Existing
  /\ head_prev \in Linked => Linked = Existing
  /\ Len(ring) = Cardinality(Linked)
  /\ ring[1] = Idle

(* g_min_vruntime is never behind a task: each runnable task passes        *)
(* task_schedule_next's eligibility test at every pick, and the pass for   *)
(* "nothing eligible" is never needed.                                     *)
AlwaysEligible == \A t \in Linked : vruntime[t] <= g_min_vruntime

(* A task that stays runnable is never further behind the run queue's      *)
(* clock than one slice and the ticks the watchdog lets one task keep the  *)
(* processor: a later arrival joins at the clock and cannot push it back.  *)
(* This is so while tasks keep the priorities they were created with: one  *)
(* made real-time by task_set_priority keeps a step that is not zero, and  *)
(* drives the clock on although no deadline is compared with its own.      *)
KeepsPriorities == load.api \cap {"task_prio_set", "task_set_priority"} = {}
LagBounded ==
  KeepsPriorities => \A t \in steady \cap Linked :
    prio[t] \in 1..3 =>
      g_min_vruntime <= vruntime[t] + Slice(t) + Step(Idle) * (StallLimit + 2)

(* While another task runs, a task that was suspended, blocked or marked   *)
(* DYING is not made runnable by the timer, the scheduler or the reaper:   *)
(* only an explicit wake-up does that, and never to a DYING task.          *)
OthersStayDown ==
  [][\A t \in Tasks \ {current} :
       /\ state[t] = "BLOCKED" /\ state'[t] \in Runnable =>
            task_unblock(t) \/ task_wake(t)
       /\ state[t] = "DYING" => state'[t] \in {"DYING", "FREED"}]_vars

(* Every sleep ends: although the wheel drops entries when it is full,     *)
(* when more than MaxDue are due at once, when it is initialised again or  *)
(* when the interrupt falls inside task_arm_sleep, task_schedule_next      *)
(* finds a sleeper in the list by its wake_tick.                           *)
SleepEnds ==
  \A t \in Tasks : (t \in Linked /\ state[t] = "SLEEPING")
                      ~> (state[t] # "SLEEPING" \/ halted)

-----------------------------------------------------------------------------
(* What comments in the code say of it. *)

(* tasking.h: "Block current task (sets state to BLOCKED)."  A task that   *)
(* blocks is not runnable until someone unblocks it.                       *)
BlockedUntilUnblocked ==
  [][\A t \in Tasks : state[t] = "BLOCKED" /\ state'[t] \in Runnable =>
       task_unblock(t) \/ task_wake(t)]_vars

(* tasking.h: "Sleep current task for `ticks` timer ticks."  A task that   *)
(* has armed its sleep is not runnable before its wake_tick.               *)
SleepsUntilWakeTick ==
  [][\A t \in Tasks : state[t] = "SLEEPING" /\ state'[t] \in Runnable /\ at = "yield"
       => g_tick >= wake[t] \/ task_wake(t)]_vars

(* task_trampoline: "retire the task (state = DYING so the scheduler skips *)
(* it)".  A task whose entry has returned is not switched to again.        *)
RetiredStaysRetired ==
  [][current' # current => current' \notin returned]_vars

(* tasking.c, of g_head: "Doubly-linked circular list".  The list holds    *)
(* every task that was created and not yet freed.                          *)
AllListed == Linked = Existing

(* task_reap: "the main loop calls this every iteration".  A task marked   *)
(* DYING is freed.                                                         *)
DyingReaped ==
  \A t \in Tasks : (state[t] = "DYING") ~> (state[t] # "DYING" \/ halted)
=============================================================================
