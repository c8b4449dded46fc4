SPECIFICATION RingSpec
CONSTANTS
  a = a
  b = b
  c = c
  Idle = Idle
  NULL = NULL
  Blocks = {Idle, a, b, c}
  Uses = {{"task_create", "task_terminate", "task_kill", "task_exit", "task_kill_all"},
          {"task_create", "task_terminate", "task_reap"}}
INVARIANTS RingSound
PROPERTIES ImplementsList
CHECK_DEADLOCK FALSE
