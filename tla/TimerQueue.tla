----------------------------- MODULE TimerQueue -----------------------------
(***************************************************************************)
(* What the timer wheel promises its user, src/src/kernel/tasking.c: each  *)
(* accepted entry is reported at one tick, the tick of its expiry, or one  *)
(* turn of level 0 later when it was already due as it was added.  Only an *)
(* entry that an interrupt hit while it was being added may slip, and by   *)
(* less than a turn of the whole wheel.  Scheduler keeps its sleepers in   *)
(* this form.                                                              *)
(***************************************************************************)
EXTENDS Integers, FiniteSets

CONSTANTS
  Rotation,  \* TW_SLOTS
  Span,      \* the ticks the whole wheel covers
  PoolSize,  \* TW_MAX_ENTRIES
  MaxDue,    \* the ids one tick can report
  Deltas,    \* how far ahead of now entries are added
  Slip       \* how many ticks may pass while an entry is added

VARIABLES
  now,      \* the wheel's time
  waiting,  \* the entries not yet reported: n, the how-manieth, the tick due,
            \* and whether it may slip
  added,    \* the entries accepted since tw_init
  out       \* the entries the last tick reported

vars == <<now, waiting, added, out>>

Init == now = 0 /\ waiting = {} /\ added = 0 /\ out = {}

Add(due, slips) ==
  /\ added < PoolSize
  /\ waiting' = waiting \cup {[n |-> added + 1, due |-> due, slips |-> slips]}
  /\ added' = added + 1
  /\ UNCHANGED <<now, out>>

(* What is due leaves the queue, reported or not. *)
Advance ==
  \E late \in SUBSET {e \in waiting : e.slips} :
    LET due == late \cup {e \in waiting : ~e.slips /\ e.due = now + 1}
    IN /\ now' = now + 1
       /\ waiting' = waiting \ due
       /\ \A e \in due : e.due <= now'
       /\ \A e \in waiting' : e.slips => now' < e.due + Span
       /\ out' \subseteq {e.n : e \in due}
       /\ Cardinality(out') = IF Cardinality(due) <= MaxDue THEN Cardinality(due) ELSE MaxDue
       /\ UNCHANGED added

Reset == now' = 0 /\ waiting' = {} /\ added' = 0 /\ out' = {}

Next ==
  \/ Advance \/ Reset
  \/ \E d \in Deltas : \/ Add(now + (IF d = 0 THEN Rotation ELSE d), FALSE)
                       \/ \E k \in 1..Slip : Add(now + d - k, TRUE)

Spec == Init /\ [][Next]_vars
=============================================================================
