----------------------------- MODULE Supervisor -----------------------------
(***************************************************************************)
(* The service supervisor, src/src/runtime/wubu_archd_svc_super.c: units   *)
(* that are forked, watched, restarted with a growing delay and booted in  *)
(* the order of their dependencies.                                        *)
(*                                                                         *)
(* The supervisor is one thread; its loops over the units are taken one    *)
(* unit at a time, because the services are processes of their own that    *)
(* die and declare themselves ready whenever they like.  Process ids are   *)
(* not reused.                                                             *)
(***************************************************************************)
EXTENDS Naturals, Sequences, FiniteSets, Functions

CONSTANTS
  Units,      \* the services that may be registered
  AutoRestart,       \* those with Restart= set
  Before,     \* unit -> its Requires= and After= units
  SupMax,     \* SUP_MAX
  BackoffBase, BackoffMax,  \* RESTART_BACKOFF_BASE and RESTART_BACKOFF_MAX
  Budget,     \* the waits of wait_ready that fit in a unit's timeout
  MaxForks,   \* bound: processes ever created
  MaxTime,    \* bound: seconds that pass
  Loads       \* the uses of the supervisor: its units of Type=notify, the entry
              \*   points that are called, and bounds on processes and seconds

ASSUME SupervisorAssumption ==
  /\ AutoRestart \subseteq Units
  /\ \A l \in Loads : l.notify \subseteq Units /\ l.forks \in 0..MaxForks /\ l.time \in 0..MaxTime
  /\ Before \in [Units -> SUBSET Units]
  /\ SupMax \in Nat /\ Budget \in Nat /\ MaxForks \in Nat /\ MaxTime \in Nat
  /\ BackoffBase \in Nat /\ BackoffMax \in Nat

VARIABLES
  load,       \* the use made of the supervisor
  units,      \* s->entries[0 .. s->count - 1]
  pid, state, notify_ready, restart_count, backoff_until,  \* fields of a unit
  forks,      \* the last process id given out
  alive,      \* the processes that have not exited
  now,        \* time(NULL)
  doing,      \* what the supervisor is doing
  bi,         \* boot's loop index, 0 when it is not booting
  pi,         \* the loop index of poll or reap
  waited,     \* wait_ready's count
  t0,         \* the time poll or reap read at its start
  sweep,      \* which of the two is running
  owner,      \* history: the unit each process was forked for
  declared,   \* history: the processes that have declared themselves ready
  restarted,  \* history: when poll or reap last restarted a unit
  booted      \* history: the units boot has started

fields == <<pid, state, notify_ready, restart_count, backoff_until>>
procs == <<forks, alive, owner, declared>>
control == <<doing, bi, pi, waited, t0, sweep>>
superVars == <<load, units, fields, procs, now, control, restarted, booted>>

(* Each definition named for a defect (StopKeepsPid, StartAlways, ...) is a   *)
(* defective form of the one after it, used to see that a property notices. *)

Notify == load.notify
Never == MaxTime + 1
Managed == Range(units)
Alive(u) == pid[u] # 0 /\ pid[u] \in alive

(* entry_ready. *)
Ready(u) == Alive(u) /\ (u \in Notify => notify_ready[u])

(* What wubu_svc_supervisor_status answers about a unit. *)
status(u) ==
  IF Ready(u) THEN "RUNNING"
  ELSE IF Alive(u) THEN "RESTARTING"
  ELSE IF state[u] \in {"FAILED", "RESTARTING"} THEN state[u]
  ELSE "DISABLED"

SuperInit ==
  /\ load \in Loads
  /\ units = <<>>
  /\ pid = [u \in Units |-> 0]
  /\ state = [u \in Units |-> "DISABLED"]
  /\ notify_ready = [u \in Units |-> FALSE]
  /\ restart_count = [u \in Units |-> 0]
  /\ backoff_until = [u \in Units |-> 0]
  /\ forks = 0 /\ alive = {} /\ now = 0
  /\ doing = "idle" /\ bi = 0 /\ pi = 0 /\ waited = 0 /\ t0 = 0 /\ sweep = "poll"
  /\ owner = [p \in 1..MaxForks |-> CHOOSE u \in Units : TRUE]
  /\ declared = {}
  /\ restarted = [u \in Units |-> Never]
  /\ booted = {}

Calls(op) == op \in load.api /\ doing = "idle"

-----------------------------------------------------------------------------
(* wubu_svc_supervisor_add, with the set_type, set_restart, add_dep and    *)
(* add_after calls that its callers make before the first start.           *)
wubu_svc_supervisor_add(u) ==
  /\ doing = "idle"
  /\ Len(units) < SupMax
  /\ u \notin Managed
  /\ units' = Append(units, u)
  /\ UNCHANGED <<fields, procs, now, control, restarted, booted>>

(* The part of wubu_svc_supervisor_start after its early return: the child *)
(* is alive when it is looked at, or has exited by then, or fork fails,    *)
(* which happens when no process is left.                                  *)
ForkAlive(u) ==
  /\ forks < load.forks
  /\ forks' = forks + 1
  /\ alive' = alive \cup {forks'}
  /\ owner' = [owner EXCEPT ![forks'] = u]
  /\ pid' = [pid EXCEPT ![u] = forks']
  /\ state' = [state EXCEPT ![u] = IF u \in Notify THEN "RESTARTING" ELSE "RUNNING"]
  /\ UNCHANGED declared

ForkExits(u) ==
  /\ forks < load.forks
  /\ forks' = forks + 1
  /\ owner' = [owner EXCEPT ![forks'] = u]
  /\ pid' = [pid EXCEPT ![u] = 0]
  /\ state' = [state EXCEPT ![u] = "FAILED"]
  /\ UNCHANGED <<alive, declared>>

ForkFails ==
  /\ forks = load.forks
  /\ UNCHANGED <<pid, state, procs>>

StartAlways(u) ==
  /\ Calls("start") /\ u \in Managed
  /\ ForkAlive(u) \/ ForkExits(u)
  /\ UNCHANGED <<units, notify_ready, restart_count, backoff_until, now, control,
                 restarted, booted>>

(* wubu_svc_supervisor_start, called from the daemon's command interface. *)
wubu_svc_supervisor_start(u) ==
  /\ Calls("start") /\ u \in Managed
  /\ ~Ready(u)
  /\ ForkAlive(u) \/ ForkExits(u)
  /\ UNCHANGED <<units, notify_ready, restart_count, backoff_until, now, control,
                 restarted, booted>>

StopUnit(u) ==
  /\ alive' = alive \ {pid[u]}
  /\ pid' = [pid EXCEPT ![u] = 0]
  /\ state' = [state EXCEPT ![u] = "DISABLED"]

(* SIGTERM, and a wait until the child is gone. *)
wubu_svc_supervisor_stop(u) ==
  /\ Calls("stop") /\ u \in Managed
  /\ StopUnit(u)
  /\ UNCHANGED <<units, notify_ready, restart_count, backoff_until, forks, owner,
                 declared, now, control, restarted, booted>>

(* stop, then start of a unit that has no process now. *)
wubu_svc_supervisor_restart(u) ==
  /\ Calls("restart") /\ u \in Managed
  /\ forks < load.forks
  /\ forks' = forks + 1
  /\ owner' = [owner EXCEPT ![forks'] = u]
  /\ \/ /\ alive' = (alive \ {pid[u]}) \cup {forks'}
        /\ pid' = [pid EXCEPT ![u] = forks']
        /\ state' = [state EXCEPT ![u] = IF u \in Notify THEN "RESTARTING" ELSE "RUNNING"]
     \/ /\ alive' = alive \ {pid[u]}
        /\ pid' = [pid EXCEPT ![u] = 0]
        /\ state' = [state EXCEPT ![u] = "FAILED"]
  /\ UNCHANGED <<units, notify_ready, restart_count, backoff_until, declared, now,
                 control, restarted, booted>>

(* Every unit with a process is stopped. *)
wubu_svc_supervisor_stop_all ==
  LET running == {u \in Managed : pid[u] # 0}
  IN /\ Calls("stop_all")
     /\ alive' = alive \ {pid[u] : u \in running}
     /\ pid' = [u \in Units |-> IF u \in running THEN 0 ELSE pid[u]]
     /\ state' = [u \in Units |-> IF u \in running THEN "DISABLED" ELSE state[u]]
     /\ UNCHANGED <<units, notify_ready, restart_count, backoff_until, forks, owner,
                    declared, now, control, restarted, booted>>

(* wubu_svc_supervisor_notify_ready: a live process of the unit declares   *)
(* that it is serving.  The call is made while the supervisor is between   *)
(* two units of a loop, or idle.                                           *)
wubu_svc_supervisor_notify_ready(p) ==
  LET u == owner[p]
  IN /\ p \in alive /\ p \notin declared /\ u \in Notify
     /\ declared' = declared \cup {p}
     /\ notify_ready' = [notify_ready EXCEPT ![u] = TRUE]
     /\ state' = [state EXCEPT ![u] = IF Alive(u) THEN "RUNNING" ELSE @]
     /\ UNCHANGED <<units, pid, restart_count, backoff_until, forks, alive, owner,
                    now, control, restarted, booted>>

(* A service exits of its own accord. *)
Exit(p) ==
  /\ p \in alive
  /\ alive' = alive \ {p}
  /\ UNCHANGED <<units, fields, forks, owner, declared, now, control, restarted, booted>>

Tick ==
  /\ now < load.time
  /\ now' = now + 1
  /\ UNCHANGED <<units, fields, procs, control, restarted, booted>>

-----------------------------------------------------------------------------
(* poll and reap, one unit at a time.  They differ in the state a unit is  *)
(* left in when its restart cannot even fork.                              *)
StartSweep(which) ==
  /\ Calls(which)
  /\ doing' = "sweep" /\ pi' = 1 /\ t0' = now /\ sweep' = which
  /\ UNCHANGED <<units, fields, procs, now, bi, waited, restarted, booted>>

(* RESTART_BACKOFF_BASE doubled once for each restart after the first. *)
Doubled[n \in Nat] ==
  IF n <= 1 THEN BackoffBase
  ELSE IF Doubled[n - 1] < BackoffMax THEN 2 * Doubled[n - 1] ELSE Doubled[n - 1]

Delay(n) == IF Doubled[n] > BackoffMax THEN BackoffMax ELSE Doubled[n]

BackoffOverAlways(u) == TRUE

BackoffOver(u) == t0 >= backoff_until[u]

SweepRestarts(u) ==
  /\ u \in AutoRestart /\ BackoffOver(u)
  /\ restart_count' = [restart_count EXCEPT ![u] = @ + 1]
  /\ backoff_until' = [backoff_until EXCEPT ![u] = t0 + Delay(restart_count[u] + 1)]
  /\ restarted' = [restarted EXCEPT ![u] = t0]
  /\ \/ ForkAlive(u)
     \/ ForkExits(u)
     \/ /\ forks = load.forks
        /\ pid' = [pid EXCEPT ![u] = 0]
        /\ state' = [state EXCEPT ![u] = IF sweep = "reap" THEN "FAILED" ELSE @]
        /\ UNCHANGED procs

SweepGivesUp(u) ==
  /\ ~(u \in AutoRestart /\ BackoffOver(u))
  /\ pid' = [pid EXCEPT ![u] = 0]
  /\ state' = [state EXCEPT ![u] = "FAILED"]
  /\ UNCHANGED <<restart_count, backoff_until, restarted, procs>>

SweepUnit ==
  /\ doing = "sweep" /\ pi <= Len(units)
  /\ LET u == units[pi]
     IN IF pid[u] # 0 /\ ~Alive(u)
        THEN SweepRestarts(u) \/ SweepGivesUp(u)
        ELSE UNCHANGED <<pid, state, restart_count, backoff_until, restarted, procs>>
  /\ pi' = pi + 1
  /\ UNCHANGED <<units, notify_ready, now, doing, bi, waited, t0, sweep, booted>>

(* The sweep returns to its caller: the daemon's loop, or wait_ready. *)
SweepEnd ==
  /\ doing = "sweep" /\ pi > Len(units)
  /\ doing' = IF bi # 0 THEN "check" ELSE "idle"
  /\ UNCHANGED <<units, fields, procs, now, bi, pi, waited, t0, sweep, restarted, booted>>

-----------------------------------------------------------------------------
(* wubu_svc_supervisor_boot and the wait_ready inside it. *)

StartBoot ==
  /\ Calls("boot")
  /\ doing' = "boot" /\ bi' = 1
  /\ UNCHANGED <<units, fields, procs, now, pi, waited, t0, sweep, restarted, booted>>

DependenciesAlive(u) ==
  \A d \in Before[u] : d \in Managed /\ Alive(d)

DependenciesRunning(u) ==
  \A d \in Before[u] : d \in Managed /\ status(d) = "RUNNING"

(* The next unit is skipped, fails to start, or is started and waited for. *)
BootUnit ==
  /\ doing = "boot" /\ bi <= Len(units)
  /\ LET u == units[bi]
         Skip == bi' = bi + 1 /\ UNCHANGED <<doing, waited, booted>>
         Wait == doing' = "wait" /\ waited' = 0 /\ UNCHANGED bi
     IN \/ /\ ~DependenciesRunning(u)
           /\ Skip /\ UNCHANGED <<pid, state, procs>>
        \/ /\ DependenciesRunning(u) /\ Ready(u)
           /\ Wait /\ UNCHANGED <<pid, state, procs, booted>>
        \/ /\ DependenciesRunning(u) /\ ~Ready(u)
           /\ \/ ForkAlive(u) /\ Wait /\ booted' = booted \cup {u}
              \/ (ForkExits(u) \/ ForkFails) /\ Skip
  /\ UNCHANGED <<units, notify_ready, restart_count, backoff_until, now, pi, t0,
                 sweep, restarted>>

BootEnd ==
  /\ doing = "boot" /\ bi > Len(units)
  /\ doing' = "idle" /\ bi' = 0
  /\ UNCHANGED <<units, fields, procs, now, pi, waited, t0, sweep, restarted, booted>>

(* A turn of wait_ready: poll while there is time. *)
WaitPolls ==
  /\ doing = "wait" /\ waited < Budget
  /\ doing' = "sweep" /\ pi' = 1 /\ t0' = now /\ sweep' = "poll"
  /\ UNCHANGED <<units, fields, procs, now, bi, waited, restarted, booted>>

WaitForever ==
  /\ doing = "check"
  /\ Alive(units[bi]) /\ ~Ready(units[bi])
  /\ doing' = "wait"
  /\ UNCHANGED <<units, fields, procs, now, bi, pi, waited, t0, sweep, restarted, booted>>

WaitAgain ==
  /\ doing = "check"
  /\ Alive(units[bi]) /\ ~Ready(units[bi])
  /\ doing' = "wait" /\ waited' = waited + 1
  /\ UNCHANGED <<units, fields, procs, now, bi, pi, t0, sweep, restarted, booted>>

(* The unit is ready, has died, or is out of time. *)
WaitEnds ==
  LET u == units[bi]
  IN /\ doing = "check" \/ (doing = "wait" /\ waited >= Budget)
     /\ doing = "check" => Ready(u) \/ ~Alive(u)
     /\ state' = [state EXCEPT ![u] = IF Ready(u) THEN @ ELSE "FAILED"]
     /\ doing' = "boot" /\ bi' = bi + 1
     /\ UNCHANGED <<units, pid, notify_ready, restart_count, backoff_until, procs,
                    now, pi, waited, t0, sweep, restarted, booted>>

SuperSteps == SweepUnit \/ SweepEnd \/ BootUnit \/ BootEnd \/ WaitPolls \/ WaitAgain \/ WaitEnds

Acts ==
  \/ SuperSteps \/ StartBoot \/ wubu_svc_supervisor_stop_all \/ Tick
  \/ StartSweep("poll") \/ StartSweep("reap")
  \/ \E u \in Units :
       \/ wubu_svc_supervisor_add(u) \/ wubu_svc_supervisor_start(u)
       \/ wubu_svc_supervisor_stop(u) \/ wubu_svc_supervisor_restart(u)
  \/ \E p \in 1..MaxForks : wubu_svc_supervisor_notify_ready(p) \/ Exit(p)

SuperNext == Acts /\ UNCHANGED load

SuperSpec == SuperInit /\ [][SuperNext]_superVars

(* The supervisor's loops go on, the daemon's loop polls again and again,  *)
(* and time passes.                                                        *)
Fairness ==
  /\ WF_superVars(SuperSteps /\ UNCHANGED load)
  /\ WF_superVars(StartSweep("poll") /\ UNCHANGED load)
  /\ WF_superVars(Tick /\ UNCHANGED load)

FairSuperSpec == SuperSpec /\ Fairness

-----------------------------------------------------------------------------
SuperTypeOK ==
  /\ units \in Seq(Units) /\ Len(units) <= SupMax
  /\ pid \in [Units -> 0..MaxForks]
  /\ state \in [Units -> {"DISABLED", "RESTARTING", "RUNNING", "FAILED"}]
  /\ notify_ready \in [Units -> BOOLEAN]
  /\ restart_count \in [Units -> Nat] /\ backoff_until \in [Units -> Nat]
  /\ forks \in 0..MaxForks /\ alive \subseteq 1..forks
  /\ owner \in [1..MaxForks -> Units] /\ declared \subseteq 1..forks
  /\ now \in 0..MaxTime /\ t0 \in 0..MaxTime
  /\ doing \in {"idle", "sweep", "boot", "wait", "check"}
  /\ bi \in 0..(Len(units) + 1) /\ pi \in 0..(Len(units) + 1)
  /\ waited \in 0..Budget /\ sweep \in {"poll", "reap"}
  /\ restarted \in [Units -> 0..Never] /\ booted \subseteq Units

(* Two automatic restarts of a unit are at least the delay apart that its  *)
(* restart count calls for, however often poll and reap run, boot polls in *)
(* between and the unit is stopped and started by hand.                    *)
BackoffKept ==
  [][\A u \in Units :
       restart_count'[u] # restart_count[u] /\ restarted[u] # Never
         => restarted'[u] >= restarted[u] + Delay(restart_count[u])]_superVars

(* A unit that was stopped stays stopped through every sweep: only start,  *)
(* restart or boot gives it a process again.                               *)
StopSticks ==
  [][\A u \in Units :
       doing = "sweep" /\ state[u] = "DISABLED" => state'[u] = "DISABLED" /\ pid'[u] = 0]_superVars

(* Ordered boot: when boot has started a unit, each of its predecessors    *)
(* had a process by then, and one of Type=notify has declared itself       *)
(* ready; units that die, time out or are restarted meanwhile included.    *)
BootOrder ==
  \A u \in booted : \A d \in Before[u] :
    \E p \in 1..forks : owner[p] = d /\ (d \in Notify => p \in declared)

(* boot comes to its end whatever the services do while it waits. *)
BootEnds == (bi # 0) ~> (bi = 0)

(* Every live process of a unit that is not of Type=notify is the one its  *)
(* unit's entry names, however often it is started, stopped and restarted. *)
Tracked == \A p \in alive : owner[p] \notin Notify => pid[owner[p]] = p

-----------------------------------------------------------------------------
(* What comments in the code say of it. *)

(* "fork/exec'd as processes ..., tracked by PID": the same of all units.  *)
AllTracked == \A p \in alive : pid[owner[p]] = p

(* "a unit stays STARTING until it calls                                   *)
(* wubu_svc_supervisor_notify_ready()": a Type=notify unit is reported     *)
(* RUNNING only when the process it has now has said so.                   *)
TruthfulReadiness ==
  \A u \in Managed \cap Notify : status(u) = "RUNNING" => pid[u] \in declared

(* "a crash-looping service pauses instead of hot-restarting forever":     *)
(* a unit with Restart= set that is down when its backoff window is over   *)
(* is in the end started again.                                            *)
PauseEnds ==
  \A u \in AutoRestart :
    (/\ state[u] = "FAILED" /\ pid[u] = 0 /\ restart_count[u] > 0
     /\ now >= backoff_until[u])
      ~> (state[u] # "FAILED" \/ pid[u] # 0 \/ forks = load.forks)
=============================================================================
