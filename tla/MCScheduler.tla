---------------------------- MODULE MCScheduler -----------------------------
(* Scheduler on up to three tasks beside the idle task. *)
EXTENDS Scheduler

CONSTANTS A, B, C

Load(tasks, prios, delays, n, api) ==
  [tasks |-> tasks, prios |-> prios, delays |-> delays, ticks |-> n, api |-> api]

(* Everything that changes a task's state, for two tasks ... *)
Changes ==
  Load({A, B}, {2}, {0}, 1, {"task_create", "return", "task_block", "task_sleep",
                             "task_unblock", "task_wake", "task_suspend", "task_terminate"})
(* ... creations after reaps ... *)
Turnover ==
  Load({A, B, C}, {2}, {0}, 1, {"task_create", "return", "task_block", "task_unblock",
                                "task_terminate"})
(* ... priorities that change ... *)
Classes ==
  Load({A, B}, {2, 4}, {0}, 2, {"task_create", "task_block", "task_suspend", "task_unblock",
                                "task_prio_set", "task_set_priority"})
(* ... and all weights over many interrupts. *)
Weights ==
  Load({A, B}, {1, 2, 3, 4}, {0}, 6, {"task_create", "task_suspend", "task_unblock"})

SafetyLoads == {Changes, Turnover, Classes, Weights}

SleepLoads == {Load({A, B}, {2}, {0, 2}, 3, {"task_create", "task_arm_sleep", "tasking_init"})}

BlockLoads == {Load({A, B}, {2}, {2}, 1, {"task_create", "task_block", "task_unblock"})}
NapLoads == {Load({A, B}, {2}, {2}, 1, {"task_create", "task_sleep"})}
RetireLoads == {Load({A, B}, {2}, {2}, 1, {"task_create", "return"})}
ReapLoads == {Load({A, B}, {2}, {2}, 1, {"task_create", "task_terminate"})}
=============================================================================
