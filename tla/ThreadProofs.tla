---------------------------- MODULE ThreadProofs ----------------------------
(***************************************************************************)
(* Theorems about the kernel's tasks and about the threads of the hedged   *)
(* reader, which share no state; each part assumes the constants of its    *)
(* own only.  First the safety of the scheduler for every set of tasks and *)
(* every load: OneRunning, ListExact, AlwaysEligible, LagBounded and       *)
(* OthersStayDown.                                                         *)
(***************************************************************************)
EXTENDS Scheduler, HedgedReader, FiniteSetTheorems, SequenceTheorems, TLAPS

-----------------------------------------------------------------------------
(* Induction on the naturals, and the least element of a set of them.      *)
Less == {ss \in Nat \X Nat : ss[1] < ss[2]}

(* < is well-founded on the naturals.                                      *)
LEMMA LessWF == IsWellFoundedOn(Less, Nat)
<1>1. Less = OpToRel(<, Nat)
  BY ZenonT(20) DEF OpToRel, Less
<1> QED
  BY <1>1, NatLessThanWellFounded, Zenon

(* A set of naturals has a least element.                                  *)
LEMMA LeastNat ==
  ASSUME NEW T \in SUBSET Nat, T # {}
  PROVE  \E n \in T : \A m \in T : n <= m
<1>1. IsWellFoundedOn(Less, Nat)
  BY LessWF, Zenon
<1>2. PICK n \in T : \A m \in T : ~(<<m, n>> \in Less)
  BY <1>1, WFMin, Zenon
<1>3. \A m \in T : ~(m < n)
  BY <1>2, Zenon DEF Less
<1> QED
  BY <1>3

(* A set with 0 and the successors of its elements is all of Nat.          *)
LEMMA Induct ==
  ASSUME NEW T \in SUBSET Nat, 0 \in T, \A n \in T : n + 1 \in T
  PROVE  T = Nat
<1> SUFFICES ASSUME Nat \ T # {} PROVE FALSE
  BY Zenon
<1>1. PICK n \in Nat \ T : \A m \in Nat \ T : n <= m
  BY LeastNat, Zenon
<1>2. n - 1 \in Nat /\ n - 1 \notin Nat \ T
  BY <1>1
<1> QED
  BY <1>2

(* Some member of a set has the least of its members' measures.            *)
LEMMA LeastMeasure ==
  ASSUME NEW S, S # {}, NEW f \in [S -> Nat]
  PROVE  \E x \in S : \A y \in S : f[x] <= f[y]
<1> DEFINE T == {f[x] : x \in S}
<1>1. T \in SUBSET Nat /\ T # {}
  BY Zenon
<1>2. PICK n \in T : \A m \in T : n <= m
  BY <1>1, LeastNat, Zenon
<1> QED
  BY <1>2, Zenon

-----------------------------------------------------------------------------
(* What task_reap's walk leaves of the list.                               *)

(* w is the walk over the first n tasks of s.                              *)
IsWalk(w, s, D, n) ==
  w = [k \in 0..n |-> IF k = 0 THEN <<>>
                      ELSE IF s[k] \in D THEN w[k - 1] ELSE Append(w[k - 1], s[k])]

(* The walk has the value its recursion says.                              *)
LEMMA WalkExists ==
  ASSUME NEW s, NEW D, NEW n \in Nat
  PROVE  \E w : IsWalk(w, s, D, n)
<1> USE DEF IsWalk
<1> DEFINE W(w, m) == IsWalk(w, s, D, m)
           T == {m \in Nat : \E w : W(w, m)}
<1>1. 0 \in T
  <2> DEFINE v == [k \in 0..0 |-> <<>>]
  <2>1. W(v, 0)
    OBVIOUS
  <2> HIDE DEF W, v
  <2> QED
    BY <2>1, Zenon
<1>2. ASSUME NEW m \in T PROVE m + 1 \in T
  <2>1. PICK w : W(w, m)
    BY Zenon
  <2> DEFINE e == IF s[m + 1] \in D THEN w[m] ELSE Append(w[m], s[m + 1])
             v == [k \in 0..(m + 1) |-> IF k <= m THEN w[k] ELSE e]
             u == [k \in 0..(m + 1) |->
                     IF k = 0 THEN <<>>
                     ELSE IF s[k] \in D THEN v[k - 1] ELSE Append(v[k - 1], s[k])]
  <2>2. ASSUME NEW k \in 0..(m + 1) PROVE v[k] = u[k]
    <3>1. CASE k = m + 1
      BY <3>1
    <3>2. CASE k <= m
      <4>1. v[k] = w[k]
        BY <3>2, Zenon
      <4>2. k = 0 \/ (k - 1 \in 0..m /\ v[k - 1] = w[k - 1])
        BY <3>2
      <4>3. w[k] = IF k = 0 THEN <<>>
                   ELSE IF s[k] \in D THEN w[k - 1] ELSE Append(w[k - 1], s[k])
        <5>1. k \in 0..m
          BY <3>2
        <5> QED
          BY <2>1, <5>1, Zenon
      <4> QED
        BY <4>1, <4>2, <4>3, Zenon
    <3> QED
      BY <3>1, <3>2
  <2>3. v = u
    BY <2>2, Zenon
  <2>4. W(v, m + 1)
    BY <2>3, Zenon
  <2> HIDE DEF W, v
  <2> QED
    BY <2>4
<1>3. T = Nat
  <2> HIDE DEF T
  <2>1. T \in SUBSET Nat
    BY Zenon DEF T
  <2> QED
    BY <1>1, <1>2, <2>1, Induct, Zenon
<1> QED
  BY <1>3, Zenon

(* No task is twice in a list.                                             *)
NoTwice(s) == \A i, j \in 1..Len(s) : s[i] = s[j] => i = j

(* A task put at the end of a list that does not hold it.                  *)
LEMMA AppendList ==
  ASSUME NEW s \in Seq(Tasks), NEW t \in Tasks
  PROVE  /\ Append(s, t) \in Seq(Tasks)
         /\ Range(Append(s, t)) = Range(s) \cup {t}
         /\ NoTwice(s) /\ t \notin Range(s) => NoTwice(Append(s, t))
         /\ s # <<>> => Append(s, t)[1] = s[1]
         /\ Append(s, t) # <<>>
<1> DEFINE r == Append(s, t)
<1>1. /\ r \in Seq(Tasks) /\ r # <<>> /\ Len(r) = Len(s) + 1
      /\ \A i \in 1..Len(s) : r[i] = s[i]
      /\ r[Len(s) + 1] = t
  BY AppendProperties
<1>2. /\ DOMAIN s = 1..Len(s) /\ DOMAIN r = 1..(Len(s) + 1) /\ Len(s) \in Nat
  BY <1>1
<1> HIDE DEF r
<1>3. Range(r) = Range(s) \cup {t}
  <2>1. \A u \in Range(r) : u \in Range(s) \cup {t}
    BY <1>1, <1>2 DEF Range
  <2>2. \A u \in Range(s) \cup {t} : u \in Range(r)
    BY <1>1, <1>2 DEF Range
  <2> QED
    BY <2>1, <2>2, Zenon
<1>4. ASSUME NoTwice(s), t \notin Range(s) PROVE NoTwice(r)
  <2>1. \A i \in 1..Len(s) : s[i] # t
    BY <1>2, <1>4, Zenon DEF Range
  <2> SUFFICES ASSUME NEW i \in 1..(Len(s) + 1), NEW j \in 1..(Len(s) + 1), r[i] = r[j]
               PROVE  i = j
    BY <1>1, Zenon DEF NoTwice
  <2> QED
    BY <1>1, <1>2, <1>4, <2>1 DEF NoTwice
<1>5. s # <<>> => r[1] = s[1]
  <2> HAVE s # <<>>
  <2>1. 1 \in 1..Len(s)
    BY EmptySeq, <1>2
  <2> QED
    BY <1>1, <2>1, Zenon
<1> QED
  BY <1>1, <1>3, <1>4, <1>5, Zenon DEF r

(* The walk keeps exactly the tasks outside D, once each and in its order  *)
(* as far as the first is concerned.                                       *)
LEMMA WithoutKeeps ==
  ASSUME NEW s \in Seq(Tasks), NEW D, NoTwice(s)
  PROVE  /\ Without(s, D) \in Seq(Tasks)
         /\ Range(Without(s, D)) = Range(s) \ D
         /\ NoTwice(Without(s, D))
         /\ s # <<>> /\ s[1] \notin D => /\ Without(s, D) # <<>>
                                         /\ Without(s, D)[1] = s[1]
<1> DEFINE walk == CHOOSE w : IsWalk(w, s, D, Len(s))
           Upto(k) == {t \in Tasks : \E j \in 1..k : s[j] = t}
           Good(k) == /\ walk[k] \in Seq(Tasks)
                      /\ Range(walk[k]) = Upto(k) \ D
                      /\ NoTwice(walk[k])
                      /\ k > 0 /\ s[1] \notin D => walk[k] # <<>> /\ walk[k][1] = s[1]
           T == {k \in Nat : k <= Len(s) => Good(k)}
<1>1. Len(s) \in Nat /\ DOMAIN s = 1..Len(s) /\ \A k \in 1..Len(s) : s[k] \in Tasks
  BY ElementOfSeq, LenProperties, Zenon
<1>2. IsWalk(walk, s, D, Len(s))
  BY <1>1, WalkExists, Zenon
<1>3. Without(s, D) = walk[Len(s)]
  BY Zenon DEF Without, IsWalk
<1>4. walk[0] = <<>>
  <2>1. 0 \in 0..Len(s)
    BY <1>1
  <2> HIDE DEF walk
  <2> QED
    BY <1>2, <2>1, Zenon DEF IsWalk
<1>5. ASSUME NEW k \in Nat, k + 1 <= Len(s)
      PROVE  walk[k + 1] = IF s[k + 1] \in D THEN walk[k] ELSE Append(walk[k], s[k + 1])
  <2>1. k + 1 \in 0..Len(s) /\ k + 1 # 0 /\ (k + 1) - 1 = k
    BY <1>1, <1>5
  <2> HIDE DEF walk
  <2>2. walk[k + 1] = IF k + 1 = 0 THEN <<>>
                      ELSE IF s[k + 1] \in D THEN walk[(k + 1) - 1]
                           ELSE Append(walk[(k + 1) - 1], s[k + 1])
    BY <1>2, <2>1, Zenon DEF IsWalk
  <2> QED
    BY <2>1, <2>2, Zenon
<1> HIDE DEF walk
<1>6. 0 \in T
  <2>1. <<>> \in Seq(Tasks) /\ Range(<<>>) = {} /\ NoTwice(<<>>)
    BY DEF Range, NoTwice
  <2>2. Upto(0) = {}
    OBVIOUS
  <2>3. /\ walk[0] \in Seq(Tasks) /\ Range(walk[0]) = {} /\ NoTwice(walk[0])
    BY <1>4, <2>1, Zenon
  <2> HIDE DEF Upto
  <2>4. Good(0)
    BY <2>2, <2>3
  <2> QED
    BY <2>4, Zenon
<1>7. ASSUME NEW k \in T PROVE k + 1 \in T
  <2> SUFFICES ASSUME k + 1 <= Len(s) PROVE Good(k + 1)
    OBVIOUS
  <2>1. k \in Nat /\ k <= Len(s)
    BY <1>1
  <2>2. Good(k)
    BY <2>1, Zenon
  <2>3. s[k + 1] \in Tasks /\ k + 1 \in 1..Len(s)
    BY <1>1, <2>1
  <2>4. Upto(k + 1) = Upto(k) \cup {s[k + 1]}
    BY <2>1, <2>3
  <2>5. CASE s[k + 1] \in D
    <3>1. walk[k + 1] = walk[k]
      BY <1>5, <2>1, <2>5, Zenon
    <3>2. Upto(k + 1) \ D = Upto(k) \ D
      BY <2>4, <2>5, Zenon
    <3>3. s[1] \notin D => k > 0
      BY <2>1, <2>5
    <3> HIDE DEF Upto
    <3> QED
      BY <2>2, <3>1, <3>2, <3>3
  <2>6. CASE s[k + 1] \notin D
    <3>1. walk[k + 1] = Append(walk[k], s[k + 1])
      BY <1>5, <2>1, <2>6, Zenon
    <3>2. s[k + 1] \notin Upto(k)
      BY <1>1, <2>1, <2>3 DEF NoTwice
    <3>3. Upto(k + 1) \ D = (Upto(k) \ D) \cup {s[k + 1]}
      BY <2>4, <2>6, Zenon
    <3> HIDE DEF Upto
    <3>4. /\ walk[k + 1] \in Seq(Tasks) /\ walk[k + 1] # <<>>
          /\ Range(walk[k + 1]) = Range(walk[k]) \cup {s[k + 1]}
          /\ NoTwice(walk[k + 1])
          /\ walk[k] # <<>> => walk[k + 1][1] = walk[k][1]
      BY <2>2, <2>3, <3>1, <3>2, AppendList
    <3>5. s[1] \notin D => walk[k + 1][1] = s[1]
      <4>1. CASE k = 0
        <5>1. walk[k + 1] = Append(<<>>, s[1])
          BY ONLY <1>4, <3>1, <4>1, 0 + 1 = 1, Zenon
        <5>2. s[1] \in Tasks
          BY <2>3, <4>1
        <5>3. Append(<<>>, s[1]) = <<s[1]>>
          BY <5>2
        <5> QED
          BY ONLY <5>1, <5>3, <4>1
      <4>2. CASE k > 0
        BY <2>2, <3>4, <4>2, Zenon
      <4> QED
        BY <4>1, <4>2, <2>1
    <3> QED
      BY <2>1, <2>2, <3>3, <3>4, <3>5, Zenon
  <2> QED
    BY <2>5, <2>6, Zenon
<1>8. Good(Len(s))
  <2> HIDE DEF Good
  <2>1. T \in SUBSET Nat
    BY Zenon
  <2> HIDE DEF T
  <2>2. T = Nat
    BY <1>6, <1>7, <2>1, Induct, Zenon
  <2> QED
    BY <1>1, <2>2 DEF T
<1>9. Upto(Len(s)) = Range(s)
  BY <1>1, Zenon DEF Range
<1>10. s # <<>> => Len(s) > 0
  BY <1>1, EmptySeq
<1> QED
  BY <1>3, <1>8, <1>9, <1>10, Zenon

-----------------------------------------------------------------------------
(* The inductive invariant.                                                *)

(* The types, and how far the watchdog lets the stall count get.           *)
Types == /\ TypeOK /\ load \in Loads
         /\ ~halted => stall <= StallLimit + 1

(* The list: its head is the idle task, which cannot be terminated.        *)
Shape ==
  /\ ring # <<>> /\ ring[1] = Idle /\ NoTwice(ring)
  /\ Linked \subseteq Existing
  /\ head_prev \in Linked => Linked = Existing
  /\ state[Idle] \in {"READY", "RUNNING", "BLOCKED"}

(* The clock is ahead of every task, created or not.                       *)
Ahead == \A t \in Tasks : vruntime[t] <= g_min_vruntime

(* The lag of a task behind the clock grows only while another runs that   *)
(* was chosen before it, and by at most a step of the idle task each tick. *)
Waiting == {t \in steady \cap Linked : prio[t] \in 1..3}
Lag ==
  /\ \A t \in steady : state[t] \in Runnable
  /\ prio[Idle] = IDLE /\ wprio[Idle] = IDLE
  /\ KeepsPriorities =>
       /\ wprio = prio
       /\ \A t \in Waiting :
            /\ g_min_vruntime <= vruntime[t] + Slice(t) + Step(Idle) * (StallLimit + 2)
            /\ prio[current] # REALTIME =>
                 vruntime[current] <= vruntime[t] + Slice(t) + Step(Idle) * stall

Inv == Types /\ Shape /\ OneRunning /\ Ahead /\ Lag

-----------------------------------------------------------------------------
(* The initial state, and the operators of the pick.                       *)

(* tasking_init establishes the invariant.                                 *)
LEMMA InvInit == Init => Inv
<1> SUFFICES ASSUME Init PROVE Inv
  BY Zenon
<1> USE SchedulerAssumption
<1>1. Types
  <2>1. ring \in Seq(Tasks)
    BY DEF Init
  <2>2. state \in [Tasks -> States]
    BY Zenon DEF Init, States
  <2>3. wheel \subseteq [task : Tasks, n : Nat, due : Nat]
    BY Zenon DEF Init
  <2>4. load \in Loads /\ stall <= StallLimit + 1 /\ stall \in 0..(StallLimit + 2)
    BY DEF Init
  <2>5. /\ prio \in [Tasks -> 0..4] /\ wprio \in [Tasks -> 0..4]
        /\ vruntime \in [Tasks -> Nat] /\ ticks \in [Tasks -> Nat] /\ wake \in [Tasks -> Nat]
    BY DEF Init, IDLE
  <2>6. /\ g_tick \in Nat /\ g_min_vruntime \in Nat /\ wnow \in Nat
        /\ pool_used \in 0..PoolSize
    BY DEF Init
  <2>7. /\ current \in Tasks /\ head_prev \in Tasks /\ sleeper \in Tasks
        /\ returned \subseteq Tasks /\ steady \subseteq Tasks
        /\ at \in {"run", "wake_tick", "tw_add", "yield"}
    BY Zenon DEF Init
  <2>8. halted \in BOOLEAN
    BY Zenon DEF Init
  <2> QED
    BY <2>1, <2>2, <2>3, <2>4, <2>5, <2>6, <2>7, <2>8, Zenon DEF Types, TypeOK
<1>2. Linked = {Idle} /\ NoTwice(ring) /\ ring # <<>> /\ ring[1] = Idle
  BY DEF Init, Linked, Range, NoTwice
<1>3. Existing = {Idle}
  BY Zenon DEF Init, Existing
<1>4. Shape /\ OneRunning
  BY <1>2, <1>3, Zenon DEF Init, Shape, OneRunning
<1>5. Ahead
  BY DEF Init, Ahead
<1>6. Waiting = {}
  BY DEF Init, Waiting, IDLE
<1>7. Lag
  BY <1>6 DEF Init, Lag, Runnable
<1> QED
  BY <1>1, <1>4, <1>5, <1>7, Zenon DEF Inv

(* A tick costs a task at most what it costs the idle task, and a          *)
(* real-time task nothing; a slice is not negative.                        *)
LEMMA Quotients ==
  ASSUME NEW p \in 0..4
  PROVE  /\ 1024 \div Weight(p) \in 0..8 /\ (4 * 1024) \div Weight(p) \in Nat
         /\ p = 0 => 1024 \div Weight(p) = 8
         /\ p = 4 => 1024 \div Weight(p) = 0
<1>1. p \in {0, 1, 2, 3, 4}
  OBVIOUS
<1>2. CASE p = 0
  <2>1. Weight(p) = 128
    BY <1>2 DEF Weight
  <2> QED
    BY <1>2, <2>1
<1>3. CASE p = 1
  <2>1. Weight(p) = 256
    BY <1>3 DEF Weight
  <2> QED
    BY <1>3, <2>1
<1>4. CASE p = 2
  <2>1. Weight(p) = 512
    BY <1>4 DEF Weight
  <2> QED
    BY <1>4, <2>1
<1>5. CASE p = 3
  <2>1. Weight(p) = 1024
    BY <1>5 DEF Weight
  <2> QED
    BY <1>5, <2>1
<1>6. CASE p = 4
  <2>1. Weight(p) = 2048
    BY <1>6 DEF Weight
  <2> QED
    BY <1>6, <2>1
<1> QED
  BY <1>1, <1>2, <1>3, <1>4, <1>5, <1>6

(* So it is for the steps and slices of the tasks.                         *)
LEMMA Charges ==
  ASSUME TypeOK, NEW t \in Tasks
  PROVE  /\ Step(t) \in 0..8 /\ Slice(t) \in Nat
         /\ wprio[t] = IDLE => Step(t) = 8
         /\ wprio[t] = REALTIME => Step(t) = 0
<1>1. wprio[t] \in 0..4
  BY Zenon DEF TypeOK
<1> QED
  BY <1>1, Quotients DEF Step, Slice, IDLE, REALTIME

(* task_schedule_next takes a linked task that can run.                    *)
LEMMA PickReady ==
  ASSUME NEW st, NEW t \in task_schedule_next(st)
  PROVE  t \in Linked /\ st[t] \in Runnable
BY Zenon DEF task_schedule_next, Least, TopClass

(* The list holds tasks.                                                   *)
LEMMA LinkedTasks == TypeOK => Linked \subseteq Tasks
BY DEF TypeOK, Linked, Range

(* A step of task_yield: the next task runs, the current one is READY      *)
(* whatever it was, and some sleepers are awake.                           *)
LEMMA Yielding ==
  ASSUME TypeOK, current \in Linked, Yield(state)
  PROVE  /\ stall' = 0
         /\ current' \in Linked
         /\ state' \in [Tasks -> States]
         /\ \A t \in Tasks :
              \/ state'[t] = state[t] /\ (current' # current => t # current /\ t # current')
              \/ state[t] = "SLEEPING" /\ state'[t] = "READY"
              \/ t = current /\ current' # current /\ state'[t] = "READY"
              \/ /\ t = current' /\ state'[t] = "RUNNING"
                 /\ state[t] \in {"READY", "RUNNING", "SLEEPING"}
<1> DEFINE woken == Woken(state)
           pick == task_schedule_next(woken)
<1>1. /\ woken \in [Tasks -> States]
      /\ \A t \in Tasks : \/ woken[t] = state[t]
                          \/ state[t] = "SLEEPING" /\ woken[t] = "READY"
  BY SMTT(30) DEF Woken, TypeOK, States
<1>2. Linked \subseteq Tasks
  BY LinkedTasks, Zenon
<1>3. \A t \in pick : t \in Linked /\ woken[t] \in Runnable
  BY PickReady, Zenon
<1>4. stall' = 0
  BY Zenon DEF Yield
<1>5. CASE pick \subseteq {current}
  <2>1. current' = current /\ state' = woken
    BY <1>5, Zenon DEF Yield
  <2> HIDE DEF woken, pick
  <2> QED
    BY <1>1, <1>4, <2>1, Zenon
<1>6. CASE ~(pick \subseteq {current})
  <2>1. PICK n \in pick : /\ current' = n
                          /\ state' = [t \in Tasks |->
                                IF t = n THEN "RUNNING"
                                ELSE IF t = current THEN "READY" ELSE woken[t]]
    BY <1>6, Zenon DEF Yield
  <2> HIDE DEF woken, pick
  <2>2. n \in Linked /\ n \in Tasks /\ woken[n] \in Runnable /\ current \in Tasks
    BY <1>2, <1>3, Zenon
  <2>3. state' \in [Tasks -> States]
    BY <1>1, <2>1, <2>2 DEF States
  <2>4. state[n] \in {"READY", "RUNNING", "SLEEPING"}
    BY <1>1, <2>2, Zenon DEF Runnable
  <2> SUFFICES ASSUME NEW t \in Tasks
               PROVE  \/ state'[t] = state[t] /\ (n # current => t # current /\ t # n)
                      \/ state[t] = "SLEEPING" /\ state'[t] = "READY"
                      \/ t = current /\ n # current /\ state'[t] = "READY"
                      \/ t = n /\ state'[t] = "RUNNING"
    BY <1>4, <2>1, <2>2, <2>3, <2>4
  <2> QED
    BY <1>1, <2>1, <2>2, Zenon
<1> QED
  BY <1>5, <1>6, Zenon

-----------------------------------------------------------------------------
(* Every step keeps the types.                                             *)
LEMMA TypesStep ==
  ASSUME Types, ring # <<>>, NoTwice(ring), current \in Linked, Next
  PROVE  Types'
<1> USE SchedulerAssumption DEF Types
<1>t. TypeOK
  BY Zenon
<1>a. /\ ring \in Seq(Tasks) /\ current \in Tasks /\ head_prev \in Tasks /\ sleeper \in Tasks
      /\ returned \subseteq Tasks /\ steady \subseteq Tasks
      /\ at \in {"run", "wake_tick", "tw_add", "yield"} /\ halted \in BOOLEAN
  BY <1>t, Zenon DEF TypeOK
<1>b. /\ state \in [Tasks -> States] /\ prio \in [Tasks -> 0..4] /\ wprio \in [Tasks -> 0..4]
      /\ vruntime \in [Tasks -> Nat] /\ ticks \in [Tasks -> Nat] /\ wake \in [Tasks -> Nat]
  BY <1>t, Zenon DEF TypeOK
<1>c. /\ stall \in 0..(StallLimit + 2) /\ g_tick \in Nat /\ g_min_vruntime \in Nat
      /\ wnow \in Nat /\ pool_used \in 0..PoolSize
      /\ wheel \subseteq [task : Tasks, n : Nat, due : Nat]
  BY <1>t, Zenon DEF TypeOK
<1>l. load.prios \subseteq 0..4 /\ load.delays \subseteq Nat /\ load.tasks \subseteq Tasks
  BY Zenon
<1> USE DEF tcb, timers, clock, call
<1>1. CASE task_yield
  <2>1. current' \in Tasks /\ stall' = 0 /\ state' \in [Tasks -> States]
    BY <1>1, <1>t, Yielding, LinkedTasks DEF task_yield
  <2>2. steady' \subseteq Tasks
    BY <1>1, <1>t, Zenon DEF task_yield, Unsteady, TypeOK
  <2>3. /\ at' = "run" /\ UNCHANGED <<ring, head_prev, tcb, timers, clock, sleeper, returned, load>>
    BY <1>1, Zenon DEF task_yield
  <2>4. stall' \in 0..(StallLimit + 2) /\ stall' <= StallLimit + 1
    BY <2>1
  <2>5. load' \in Loads /\ (TypeOK)'
    BY <1>a, <1>b, <1>c, <2>1, <2>2, <2>3, <2>4, Zenon DEF TypeOK
  <2> QED
    BY <2>4, <2>5, Zenon
<1>2. CASE task_reap
  <2>1. ring' \in Seq(Tasks)
    <3> DEFINE D == {t \in Tasks : state[t] = "DYING" /\ t # current}
    <3>1. ring' = Tail(ring) \/ ring' = Without(ring, D)
      BY <1>2, Zenon DEF task_reap
    <3>2. Tail(ring) \in Seq(Tasks)
      BY <1>t, HeadTailProperties, Zenon DEF TypeOK
    <3> HIDE DEF D
    <3>3. Without(ring, D) \in Seq(Tasks)
      BY <1>t, WithoutKeeps, Zenon DEF TypeOK
    <3> QED
      BY <3>1, <3>2, <3>3, Zenon
  <2>2. state' \in [Tasks -> States]
    BY <1>2, <1>t, Zenon DEF task_reap, TypeOK, States
  <2> QED
    BY <1>2, <1>t, <2>1, <2>2, Zenon DEF task_reap, TypeOK
<1>3. CASE task_trampoline
  <2>1. state' \in [Tasks -> States]
    BY <1>3, <1>t, Zenon DEF task_trampoline, TypeOK, States
  <2>2. steady' \subseteq Tasks
    BY <1>3, <1>t, Zenon DEF task_trampoline, Unsteady, TypeOK
  <2> QED
    BY <1>3, <1>t, <2>1, <2>2, Zenon DEF task_trampoline, TypeOK
<1>4. CASE task_block
  <2>1. state' \in [Tasks -> States]
    BY <1>4, <1>t, Zenon DEF task_block, TypeOK, States
  <2>2. steady' \subseteq Tasks
    BY <1>4, <1>t, Zenon DEF task_block, Unsteady, TypeOK
  <2> QED
    BY <1>4, <1>t, <2>1, <2>2, Zenon DEF task_block, TypeOK
<1>5. CASE AddTimer
  <2>1. /\ wheel' \subseteq [task : Tasks, n : Nat, due : Nat]
        /\ pool_used' \in 0..PoolSize
    <3>1. CASE wake[sleeper] < wnow \/ pool_used >= PoolSize
      BY <1>5, <1>t, <3>1, Zenon DEF AddTimer, TypeOK
    <3>2. CASE ~(wake[sleeper] < wnow \/ pool_used >= PoolSize)
      <4> DEFINE e == [task |-> sleeper, n |-> pool_used,
                       due |-> wake[sleeper] + (IF wake[sleeper] = wnow THEN Rotation ELSE 0)]
      <4>1. e \in [task : Tasks, n : Nat, due : Nat]
        <5>1. sleeper \in Tasks /\ pool_used \in Nat /\ wake[sleeper] \in Nat
          BY <1>a, <1>b, <1>c
        <5>2. wake[sleeper] + (IF wake[sleeper] = wnow THEN Rotation ELSE 0) \in Nat
          BY <5>1
        <5> QED
          BY <5>1, <5>2, Zenon
      <4>2. wheel' = wheel \cup {e} /\ pool_used' = pool_used + 1
        BY <1>5, <3>2, Zenon DEF AddTimer
      <4> HIDE DEF e
      <4> QED
        BY <1>c, <3>2, <4>1, <4>2
    <3> QED
      BY <3>1, <3>2, Zenon
  <2> QED
    BY <1>5, <1>t, <2>1, Zenon DEF AddTimer, TypeOK
<1>6. CASE task_timer_tick
  <2>1. /\ wnow' \in Nat /\ wheel' \subseteq [task : Tasks, n : Nat, due : Nat]
        /\ state' \in [Tasks -> States]
    <3>1. CASE halted'
      BY <1>6, <1>t, <3>1, Zenon DEF task_timer_tick, TypeOK
    <3>2. CASE ~halted'
      <4>1. task_wake_expired
        BY <1>6, <3>2, Zenon DEF task_timer_tick
      <4>2. wnow' = wnow + 1 /\ wheel' \subseteq wheel
        BY <4>1, Zenon DEF task_wake_expired
      <4>3. PICK fired : state' = [t \in Tasks |->
              IF t \in Linked /\ state[t] = "SLEEPING" /\ \E e \in fired : e.task = t
              THEN "READY" ELSE state[t]]
        BY <4>1, Zenon DEF task_wake_expired
      <4>4. state' \in [Tasks -> States]
        BY <1>b, <4>3, Zenon DEF States
      <4> QED
        BY <1>c, <4>2, <4>4
    <3> QED
      BY <3>1, <3>2, Zenon
  <2>2. ticks' \in [Tasks -> Nat] /\ vruntime' \in [Tasks -> Nat]
    <3>1. current \in Tasks /\ Step(current) \in Nat
      BY <1>t, <1>a, Charges, SMTT(30)
    <3>2. /\ ticks' = [ticks EXCEPT ![current] = ticks[current] + 1]
          /\ vruntime' = [vruntime EXCEPT ![current] = vruntime[current] + Step(current)]
      BY <1>6, Zenon DEF task_timer_tick
    <3> QED
      BY <1>b, <3>1, <3>2
  <2>3. g_tick' \in Nat /\ g_min_vruntime' \in Nat
    <3>1. current \in Tasks /\ vruntime'[current] \in Nat
      BY <1>a, <2>2, Zenon
    <3>2. /\ g_tick' = g_tick + 1
          /\ g_min_vruntime' = vruntime'[current] \/ g_min_vruntime' = g_min_vruntime
      BY <1>6, Zenon DEF task_timer_tick
    <3> QED
      BY <1>c, <3>1, <3>2
  <2>4. stall' \in 0..(StallLimit + 2) /\ (~halted' => stall' <= StallLimit + 1)
    <3>1. stall' = stall + 1 /\ (~halted' => ~(stall > StallLimit)) /\ ~halted
      BY <1>6, Zenon DEF task_timer_tick
    <3> QED
      BY <1>c, <3>1
  <2>5. halted' \in BOOLEAN
    BY <1>6 DEF task_timer_tick
  <2> QED
    BY <1>6, <1>t, <2>1, <2>2, <2>3, <2>4, <2>5, Zenon DEF task_timer_tick, TypeOK
<1>7. CASE tasking_init
  <2>1. /\ wheel' \subseteq [task : Tasks, n : Nat, due : Nat]
        /\ wnow' \in Nat /\ pool_used' \in 0..PoolSize
    BY <1>7 DEF tasking_init
  <2> QED
    BY <1>7, <1>t, <2>1, Zenon DEF tasking_init, TypeOK
<1>8. ASSUME NEW n \in load.delays, SetWakeTick(n) PROVE Types'
  <2>1. wake' \in [Tasks -> Nat]
    <3>1. g_tick + n \in Nat
      BY <1>c, <1>l
    <3>2. wake' = [wake EXCEPT ![sleeper] = g_tick + n]
      BY <1>8, Zenon DEF SetWakeTick
    <3> QED
      BY <1>a, <1>b, <3>1, <3>2, Zenon
  <2> QED
    BY <1>8, <1>t, <2>1, Zenon DEF SetWakeTick, TypeOK
<1>9. ASSUME NEW t \in Tasks, ArmSleep(t) PROVE Types'
  <2>1. state' \in [Tasks -> States]
    BY <1>9, <1>t, Zenon DEF ArmSleep, TypeOK, States
  <2>2. steady' \subseteq Tasks
    BY <1>9, <1>t, Zenon DEF ArmSleep, Unsteady, TypeOK
  <2> QED
    BY <1>9, <1>t, <2>1, <2>2, Zenon DEF ArmSleep, TypeOK
<1>10. ASSUME NEW t \in Tasks, NEW s \in States, Assign(t, s), wake' \in [Tasks -> Nat]
       PROVE  Types'
  <2>1. state' \in [Tasks -> States]
    BY <1>10, <1>t, Zenon DEF Assign, TypeOK, States
  <2>2. steady' \subseteq Tasks
    BY <1>10, <1>t, Zenon DEF Assign, Unsteady, TypeOK
  <2> QED
    BY <1>10, <1>t, <2>1, <2>2, Zenon DEF Assign, TypeOK
<1>11. ASSUME NEW t \in Tasks,
              task_unblock(t) \/ task_wake(t) \/ task_suspend(t) \/ task_terminate(t)
       PROVE  Types'
  <2>1. \E s \in States : Assign(t, s)
    BY <1>11, Zenon DEF task_unblock, task_wake, task_suspend, task_terminate, States
  <2>2. wake' \in [Tasks -> Nat]
    <3>1. wake' = wake \/ wake' = [wake EXCEPT ![t] = 0]
      BY <1>11, Zenon DEF task_unblock, task_wake, task_suspend, task_terminate
    <3>2. [wake EXCEPT ![t] = 0] \in [Tasks -> Nat]
      BY <1>b, Zenon
    <3> QED
      BY <1>b, <3>1, <3>2, Zenon
  <2> QED
    BY <1>10, <2>1, <2>2, Zenon
<1>12. ASSUME NEW t \in Tasks, NEW p \in load.prios, task_create(t, p) PROVE Types'
  <2>1. ring' \in Seq(Tasks) /\ head_prev' \in Tasks
    BY <1>12, <1>t, AppendList DEF task_create, Insert, TypeOK
  <2>2. /\ state' \in [Tasks -> States] /\ vruntime' \in [Tasks -> Nat]
        /\ prio' \in [Tasks -> 0..4] /\ wprio' \in [Tasks -> 0..4]
    BY <1>12, <1>t, <1>l, Zenon DEF task_create, TypeOK, States
  <2>3. steady' \subseteq Tasks
    BY <1>12, <1>t, Zenon DEF task_create, TypeOK
  <2> QED
    BY <1>12, <1>t, <2>1, <2>2, <2>3, Zenon DEF task_create, TypeOK
<1>13. ASSUME NEW t \in Tasks, NEW p \in load.prios, task_set_priority(t, p) PROVE Types'
  <2>1. prio' \in [Tasks -> 0..4] /\ wprio' \in [Tasks -> 0..4]
    BY <1>13, <1>t, <1>l, Zenon DEF task_set_priority, TypeOK
  <2> QED
    BY <1>13, <1>t, <2>1, Zenon DEF task_set_priority, TypeOK
<1> QED
  BY <1>1, <1>2, <1>3, <1>4, <1>5, <1>6, <1>7, <1>8, <1>9, <1>11, <1>12, <1>13 DEF Next

-----------------------------------------------------------------------------
(* The list.                                                               *)

(* A step that leaves the list alone, frees nobody and creates nobody.     *)
LEMMA SameList ==
  ASSUME TypeOK, Shape, ring' = ring, head_prev' = head_prev, current' \in Linked,
         state'[Idle] \in {"READY", "RUNNING", "BLOCKED"},
         \A t \in Tasks : /\ state'[t] \in {"NONE", "FREED"} <=> state[t] \in {"NONE", "FREED"}
                          /\ state'[t] = "RUNNING" => t = current'
  PROVE  Shape' /\ OneRunning'
<1>1. Linked' = Linked
  BY Zenon DEF Linked
<1>2. Existing' = Existing
  BY Zenon DEF Existing
<1>3. NoTwice(ring)' /\ ring' # <<>> /\ ring'[1] = Idle
  BY DEF Shape, NoTwice
<1>4. Shape'
  BY <1>1, <1>2, <1>3, Zenon DEF Shape
<1> QED
  BY <1>1, <1>4, Zenon DEF OneRunning

(* task_create.                                                            *)
LEMMA CreateList ==
  ASSUME TypeOK, Shape, OneRunning, NEW t \in Tasks, NEW p, task_create(t, p)
  PROVE  Shape' /\ OneRunning'
<1> USE SchedulerAssumption
<1>1. /\ state[t] = "NONE" /\ state' = [state EXCEPT ![t] = "READY"]
      /\ ring' = (IF head_prev \in Linked THEN Append(ring, t) ELSE ring)
      /\ head_prev' = t /\ current' = current
  BY Zenon DEF task_create, Insert
<1>2. ring \in Seq(Tasks) /\ state \in [Tasks -> States]
  BY Zenon DEF TypeOK
<1>3. Existing' = Existing \cup {t} /\ t \notin Existing
  BY <1>1, <1>2, Zenon DEF Existing
<1>4. t \notin Linked
  BY <1>3, Zenon DEF Shape
<1>5. t # Idle /\ state'[Idle] \in {"READY", "RUNNING", "BLOCKED"}
  BY <1>1, <1>2, Zenon DEF Shape
<1>6. /\ ring' # <<>> /\ ring'[1] = Idle /\ NoTwice(ring)'
      /\ Linked' = IF head_prev \in Linked THEN Linked \cup {t} ELSE Linked
  <2>1. CASE head_prev \in Linked
    <3>1. ring' = Append(ring, t) /\ ring # <<>> /\ ring[1] = Idle /\ NoTwice(ring)
      BY <1>1, <2>1, Zenon DEF Shape
    <3>2. t \notin Range(ring)
      BY <1>4, Zenon DEF Linked
    <3>3. /\ Append(ring, t) # <<>> /\ Append(ring, t)[1] = Idle /\ NoTwice(Append(ring, t))
          /\ Range(Append(ring, t)) = Range(ring) \cup {t}
      BY <1>2, <3>1, <3>2, AppendList, Zenon
    <3> QED
      BY <2>1, <3>1, <3>3, Zenon DEF Linked, NoTwice
  <2>2. CASE head_prev \notin Linked
    BY <1>1, <2>2, Zenon DEF Shape, Linked, NoTwice
  <2> QED
    BY <2>1, <2>2, Zenon
<1>7. Shape'
  BY <1>1, <1>3, <1>4, <1>5, <1>6 DEF Shape
<1>8. OneRunning'
  BY <1>1, <1>2, <1>6, Zenon DEF OneRunning
<1> QED
  BY <1>7, <1>8, Zenon

(* task_reap: the idle task is never marked DYING, so the head stays.      *)
LEMMA ReapList ==
  ASSUME TypeOK, Shape, OneRunning, task_reap
  PROVE  Shape' /\ OneRunning'
<1> USE SchedulerAssumption
<1> DEFINE D == {t \in Tasks : state[t] = "DYING" /\ t # current}
<1>1. ring \in Seq(Tasks) /\ state \in [Tasks -> States] /\ Linked \subseteq Tasks
  BY LinkedTasks, Zenon DEF TypeOK
<1>2. ring[1] \notin D
  BY Zenon DEF Shape
<1>3. /\ ring' = Without(ring, D) /\ head_prev' = head_prev /\ current' = current
      /\ state' = [t \in Tasks |-> IF t \in Linked \ Range(ring') THEN "FREED" ELSE state[t]]
  BY <1>2, Zenon DEF task_reap
<1>4. \A t \in D : state[t] = "DYING" /\ t # current
  BY Zenon
<1> HIDE DEF D
<1>5. /\ ring' # <<>> /\ ring'[1] = Idle /\ NoTwice(ring)'
      /\ Range(ring') = Range(ring) \ D
  <2>1. /\ Without(ring, D) # <<>> /\ Without(ring, D)[1] = Idle /\ NoTwice(Without(ring, D))
        /\ Range(Without(ring, D)) = Range(ring) \ D
    BY <1>1, <1>2, WithoutKeeps, Zenon DEF Shape
  <2> QED
    BY <1>3, <2>1, Zenon DEF NoTwice
<1>6. Linked' = Linked \ D
  BY <1>5, Zenon DEF Linked
<1>7. \A t \in Tasks : state'[t] = IF t \in Linked \cap D THEN "FREED" ELSE state[t]
  BY <1>3, <1>5, Zenon DEF Linked
<1>8. Existing' = Existing \ (Linked \cap D)
  BY <1>7, Zenon DEF Existing
<1>9. state'[Idle] = state[Idle]
  BY <1>4, <1>7, Zenon DEF Shape
<1>10. Shape'
  BY <1>3, <1>5, <1>6, <1>8, <1>9 DEF Shape
<1>11. OneRunning'
  BY <1>3, <1>4, <1>6, <1>7 DEF OneRunning
<1> QED
  BY <1>10, <1>11, Zenon

(* The timer interrupt: sleepers wake up, and that is all it does to the   *)
(* states of the tasks.                                                    *)
LEMMA Ticked ==
  ASSUME TypeOK, task_timer_tick
  PROVE  \A t \in Tasks : \/ state'[t] = state[t]
                          \/ state[t] = "SLEEPING" /\ state'[t] = "READY"
<1>1. CASE halted'
  <2>1. state' = state
    BY <1>1, Zenon DEF task_timer_tick
  <2> QED
    BY <2>1, Zenon
<1>2. CASE ~halted'
  <2>1. task_wake_expired
    BY <1>2, Zenon DEF task_timer_tick
  <2>2. PICK fired : state' = [t \in Tasks |->
          IF t \in Linked /\ state[t] = "SLEEPING" /\ \E e \in fired : e.task = t
          THEN "READY" ELSE state[t]]
    BY <2>1, Zenon DEF task_wake_expired
  <2> QED
    BY <2>2, Zenon
<1> QED
  BY <1>1, <1>2, Zenon

(* Every step keeps the list, and the processor in a linked task.          *)
LEMMA ListStep ==
  ASSUME TypeOK, Shape, OneRunning, Next
  PROVE  Shape' /\ OneRunning'
<1> USE SchedulerAssumption
<1>a. state \in [Tasks -> States] /\ current \in Tasks /\ current \in Linked
  BY Zenon DEF TypeOK, OneRunning
<1>b. \A t \in Tasks : state[t] = "RUNNING" => t = current
  BY Zenon DEF OneRunning
<1>c. state[current] \notin {"NONE", "FREED"}
  BY <1>a, Zenon DEF Shape, Existing
<1>d. state[Idle] \in {"READY", "RUNNING", "BLOCKED"}
  BY Zenon DEF Shape
<1>1. CASE task_yield
  <2>1. ring' = ring /\ head_prev' = head_prev /\ Yield(state)
    BY <1>1, Zenon DEF task_yield
  <2>2. /\ current' \in Linked
        /\ \A t \in Tasks :
              \/ state'[t] = state[t] /\ (current' # current => t # current /\ t # current')
              \/ state[t] = "SLEEPING" /\ state'[t] = "READY"
              \/ t = current /\ current' # current /\ state'[t] = "READY"
              \/ /\ t = current' /\ state'[t] = "RUNNING"
                 /\ state[t] \in {"READY", "RUNNING", "SLEEPING"}
    BY <1>a, <2>1, Yielding, Zenon
  <2>3. state'[Idle] \in {"READY", "RUNNING", "BLOCKED"}
    BY <1>d, <2>2, Zenon
  <2>4. \A t \in Tasks : state'[t] = "RUNNING" => t = current'
    BY <1>b, <2>2, Zenon
  <2>5. \A t \in Tasks :
          state'[t] \in {"NONE", "FREED"} <=> state[t] \in {"NONE", "FREED"}
    BY <1>c, <2>2, Zenon
  <2> QED
    BY <2>1, <2>2, <2>3, <2>4, <2>5, SameList
<1>2. CASE task_reap
  BY <1>2, ReapList, Zenon
<1>3. CASE task_trampoline \/ task_block
  <2>1. /\ ring' = ring /\ head_prev' = head_prev /\ current' = current /\ current # Idle
        /\ \E s \in {"DYING", "BLOCKED"} : state' = [state EXCEPT ![current] = s]
    BY <1>3, Zenon DEF task_trampoline, task_block, Calls
  <2>2. PICK s \in {"DYING", "BLOCKED"} : state' = [state EXCEPT ![current] = s]
    BY <2>1, Zenon
  <2>3. state'[Idle] = state[Idle]
    BY <1>a, <2>1, <2>2, Zenon
  <2>4. \A t \in Tasks :
          /\ state'[t] \in {"NONE", "FREED"} <=> state[t] \in {"NONE", "FREED"}
          /\ state'[t] = "RUNNING" => t = current
    BY <1>a, <1>b, <1>c, <2>2, Zenon
  <2> QED
    BY <1>a, <1>d, <2>1, <2>3, <2>4, SameList
<1>4. CASE \/ AddTimer \/ tasking_init \/ \E n \in load.delays : SetWakeTick(n)
           \/ \E t \in Tasks : \E p \in load.prios : task_set_priority(t, p)
  <2>1. UNCHANGED <<ring, head_prev, current, state>>
    BY <1>4, Zenon DEF AddTimer, tasking_init, SetWakeTick, task_set_priority
  <2> QED
    BY <1>a, <1>b, <1>d, <2>1, SameList, Zenon
<1>5. CASE task_timer_tick
  <2>1. ring' = ring /\ head_prev' = head_prev /\ current' = current
    BY <1>5, Zenon DEF task_timer_tick
  <2>2. \A t \in Tasks : \/ state'[t] = state[t]
                         \/ state[t] = "SLEEPING" /\ state'[t] = "READY"
    BY <1>5, Ticked, Zenon
  <2>3. state'[Idle] = state[Idle]
    BY <1>d, <2>2, Zenon
  <2>4. \A t \in Tasks :
          /\ state'[t] \in {"NONE", "FREED"} <=> state[t] \in {"NONE", "FREED"}
          /\ state'[t] = "RUNNING" => t = current
    BY <1>b, <2>2, Zenon
  <2> QED
    BY <1>a, <1>d, <2>1, <2>3, <2>4, SameList
<1>6. ASSUME NEW t \in Tasks, NEW s \in {"READY", "BLOCKED", "SLEEPING", "DYING"},
             state[t] \notin {"NONE", "FREED"}, state' = [state EXCEPT ![t] = s],
             UNCHANGED <<ring, head_prev, current>>, t = Idle => s \in {"READY", "BLOCKED"}
      PROVE  Shape' /\ OneRunning'
  <2>1. state'[Idle] \in {"READY", "RUNNING", "BLOCKED"}
    BY <1>a, <1>d, <1>6, Zenon
  <2>2. \A u \in Tasks :
          /\ state'[u] \in {"NONE", "FREED"} <=> state[u] \in {"NONE", "FREED"}
          /\ state'[u] = "RUNNING" => u = current
    BY <1>a, <1>b, <1>6, Zenon
  <2> QED
    BY <1>a, <1>6, <2>1, <2>2, SameList
<1>7. ASSUME NEW t \in Tasks,
             ArmSleep(t) \/ task_unblock(t) \/ task_wake(t) \/ task_suspend(t) \/ task_terminate(t)
      PROVE  Shape' /\ OneRunning'
  <2>1. /\ state[t] \notin {"NONE", "FREED"} /\ UNCHANGED <<ring, head_prev, current>>
        /\ \E s \in {"READY", "BLOCKED", "SLEEPING", "DYING"} :
             state' = [state EXCEPT ![t] = s] /\ (t = Idle => s \in {"READY", "BLOCKED"})
    BY <1>7, Zenon DEF ArmSleep, task_unblock, task_wake, task_suspend, task_terminate, Assign,
                Runnable, Existing
  <2> QED
    BY <1>6, <2>1, Zenon
<1>8. ASSUME NEW t \in Tasks, NEW p, task_create(t, p) PROVE Shape' /\ OneRunning'
  BY <1>8, CreateList, Zenon
<1> QED
  BY <1>1, <1>2, <1>3, <1>4, <1>5, <1>7, <1>8 DEF Next

(* Every step keeps the clock ahead.                                       *)
LEMMA AheadStep ==
  ASSUME TypeOK, Ahead, Next
  PROVE  Ahead'
<1>a. current \in Tasks /\ vruntime \in [Tasks -> Nat] /\ g_min_vruntime \in Nat
  BY Zenon DEF TypeOK
<1>1. CASE task_timer_tick
  <2>1. Step(current) \in Nat
    BY <1>a, Charges
  <2>2. /\ vruntime' = [vruntime EXCEPT ![current] = vruntime[current] + Step(current)]
        /\ g_min_vruntime' = IF vruntime'[current] > g_min_vruntime
                             THEN vruntime'[current] ELSE g_min_vruntime
    BY <1>1, Zenon DEF task_timer_tick
  <2>3. vruntime'[current] \in Nat /\ \A t \in Tasks \ {current} : vruntime'[t] = vruntime[t]
    BY <1>a, <2>1, <2>2
  <2>4. g_min_vruntime' >= g_min_vruntime /\ vruntime'[current] <= g_min_vruntime'
    BY <1>a, <2>2, <2>3
  <2>5. g_min_vruntime' \in Nat
    BY <1>a, <2>2, <2>3, Zenon
  <2> SUFFICES ASSUME NEW t \in Tasks PROVE vruntime'[t] <= g_min_vruntime'
    BY Zenon DEF Ahead
  <2> QED
    BY <1>a, <2>3, <2>4, <2>5 DEF Ahead
<1>2. ASSUME NEW t \in Tasks, NEW p, task_create(t, p) PROVE Ahead'
  <2>1. /\ vruntime' = [vruntime EXCEPT ![t] = g_min_vruntime]
        /\ g_min_vruntime' = g_min_vruntime
    BY <1>2, Zenon DEF task_create, clock
  <2> QED
    BY <1>a, <2>1 DEF Ahead
<1>3. CASE UNCHANGED <<vruntime, g_min_vruntime>>
  BY <1>3, Zenon DEF Ahead
<1> QED
  BY <1>1, <1>2, <1>3 DEF Next, task_yield, task_reap, task_trampoline, task_block, AddTimer,
     tasking_init, SetWakeTick, ArmSleep, task_unblock, task_wake, task_suspend, task_terminate,
     Assign, task_set_priority, tcb, clock

-----------------------------------------------------------------------------
(* The pick.                                                               *)

(* A set has a member no other comes before, by three measures ...         *)
LEMMA Lex3 ==
  ASSUME NEW S, S # {}, NEW f \in [S -> Nat], NEW g \in [S -> Nat], NEW h \in [S -> Nat]
  PROVE  \E x \in S : \A y \in S : ~Smaller(<<f[y], g[y], h[y]>>, <<f[x], g[x], h[x]>>)
<1>1. PICK a \in S : \A y \in S : f[a] <= f[y]
  BY LeastMeasure, Zenon
<1> DEFINE A == {y \in S : f[y] = f[a]}
<1>2. PICK b \in A : \A y \in A : g[b] <= g[y]
  <2> DEFINE m == [y \in A |-> g[y]]
  <2>1. A # {} /\ m \in [A -> Nat]
    BY Zenon
  <2>2. \E x \in A : \A y \in A : m[x] <= m[y]
    <3> HIDE DEF A, m
    <3> QED
      BY <2>1, LeastMeasure, Zenon
  <2> QED
    BY <2>2, Zenon
<1> DEFINE B == {y \in A : g[y] = g[b]}
<1>3. PICK c \in B : \A y \in B : h[c] <= h[y]
  <2> DEFINE m == [y \in B |-> h[y]]
  <2>1. B # {} /\ m \in [B -> Nat]
    BY Zenon
  <2>2. \E x \in B : \A y \in B : m[x] <= m[y]
    <3> HIDE DEF B, m
    <3> QED
      BY <2>1, LeastMeasure, Zenon
  <2> QED
    BY <2>2, Zenon
<1>4. ASSUME NEW y \in S, Smaller(<<f[y], g[y], h[y]>>, <<f[c], g[c], h[c]>>) PROVE FALSE
  <2>1. /\ f[c] \in Nat /\ g[c] \in Nat /\ h[c] \in Nat
        /\ f[y] \in Nat /\ g[y] \in Nat /\ h[y] \in Nat
        /\ f[c] = f[a] /\ g[c] = g[b] /\ f[a] <= f[y]
    BY <1>1, Zenon
  <2>2. f[y] = f[a] => g[b] <= g[y]
    BY <1>2, Zenon
  <2>3. f[y] = f[a] /\ g[y] = g[b] => h[c] <= h[y]
    BY <1>3, Zenon
  <2>4. \/ f[y] < f[c]
        \/ f[y] = f[c] /\ g[y] < g[c]
        \/ f[y] = f[c] /\ g[y] = g[c] /\ h[y] < h[c]
    BY <1>4 DEF Smaller
  <2> QED
    BY <2>1, <2>2, <2>3, <2>4
<1> QED
  BY <1>4, Zenon

(* ... and by four.                                                        *)
LEMMA Lex4 ==
  ASSUME NEW S, S # {}, NEW e \in [S -> Nat],
         NEW f \in [S -> Nat], NEW g \in [S -> Nat], NEW h \in [S -> Nat]
  PROVE  \E x \in S : \A y \in S :
           ~Smaller(<<e[y], f[y], g[y], h[y]>>, <<e[x], f[x], g[x], h[x]>>)
<1>1. PICK a \in S : \A y \in S : e[a] <= e[y]
  BY LeastMeasure, Zenon
<1> DEFINE A == {y \in S : e[y] = e[a]}
           F == [y \in A |-> f[y]]
           G == [y \in A |-> g[y]]
           H == [y \in A |-> h[y]]
<1>2. A # {} /\ F \in [A -> Nat] /\ G \in [A -> Nat] /\ H \in [A -> Nat]
  BY Zenon
<1>3. PICK c \in A : \A y \in A : ~Smaller(<<F[y], G[y], H[y]>>, <<F[c], G[c], H[c]>>)
  <2> HIDE DEF A, F, G, H
  <2> QED
    BY <1>2, Lex3, Zenon
<1>4. ASSUME NEW y \in S,
             Smaller(<<e[y], f[y], g[y], h[y]>>, <<e[c], f[c], g[c], h[c]>>) PROVE FALSE
  <2>1. /\ e[c] \in Nat /\ e[y] \in Nat /\ e[c] = e[a] /\ e[a] <= e[y]
    BY <1>1, Zenon
  <2>2. \/ e[y] < e[c]
        \/ /\ e[y] = e[c]
           /\ \/ f[y] < f[c]
              \/ f[y] = f[c] /\ g[y] < g[c]
              \/ f[y] = f[c] /\ g[y] = g[c] /\ h[y] < h[c]
    BY <1>4 DEF Smaller
  <2>3. y \in A
    BY <2>1, <2>2
  <2>4. ~Smaller(<<f[y], g[y], h[y]>>, <<f[c], g[c], h[c]>>)
    BY <1>3, <2>3
  <2>5. /\ f[c] \in Nat /\ g[c] \in Nat /\ h[c] \in Nat
        /\ f[y] \in Nat /\ g[y] \in Nat /\ h[y] \in Nat
    BY Zenon
  <2>6. ~ \/ f[y] < f[c]
          \/ f[y] = f[c] /\ g[y] < g[c]
          \/ f[y] = f[c] /\ g[y] = g[c] /\ h[y] < h[c]
    BY <2>4, <2>5 DEF Smaller
  <2> QED
    BY <2>1, <2>2, <2>6
<1> QED
  BY <1>4, Zenon

(* How soon task_schedule_next meets a linked task is a number.            *)
LEMMA DistanceType ==
  ASSUME TypeOK, ring # <<>>, current \in Linked, NEW t \in Linked
  PROVE  Distance(t) \in Nat
<1> DEFINE I(u) == CHOOSE k \in DOMAIN ring : ring[k] = u
<1>1. DOMAIN ring = 1..Len(ring) /\ Len(ring) \in Nat \ {0}
  BY EmptySeq, LenProperties, Zenon DEF TypeOK
<1>2. ASSUME NEW u \in Linked PROVE I(u) \in 1..Len(ring)
  <2>1. \E k \in DOMAIN ring : ring[k] = u
    BY Zenon DEF Linked, Range
  <2> QED
    BY <1>1, <2>1, Zenon
<1>3. I(t) \in Int /\ I(current) \in Int
  BY <1>1, <1>2
<1>4. Distance(t) = (I(t) - I(current) - 1) % Len(ring)
  BY Zenon DEF Distance
<1> HIDE DEF I
<1> QED
  BY <1>1, <1>3, <1>4

(* While a task with a weight is ready, task_schedule_next finds a task,   *)
(* and unless it is a real-time one it has no later deadline.              *)
LEMMA PickEarliest ==
  ASSUME TypeOK, Ahead, ring # <<>>, current \in Linked,
         NEW st, NEW t \in Linked, st[t] \in Runnable, prio[t] \in 1..3
  PROVE  /\ task_schedule_next(st) # {}
         /\ \A n \in task_schedule_next(st) :
              prio[n] # REALTIME => prio[n] # IDLE /\ Deadline(n) <= Deadline(t)
<1> DEFINE ready == {u \in Linked : st[u] \in Runnable}
           eligible == {u \in ready : vruntime[u] <= g_min_vruntime}
           Key(u) == CASE prio[u] = REALTIME -> <<vruntime[u], ticks[u], Distance(u)>>
                       [] prio[u] = IDLE -> <<vruntime[u], Distance(u)>>
                       [] OTHER -> <<Deadline(u), vruntime[u], ticks[u], Distance(u)>>
           rt == {u \in eligible : prio[u] = REALTIME}
           work == {u \in eligible : prio[u] \notin {IDLE, REALTIME}}
           C == IF rt # {} THEN rt ELSE IF work # {} THEN work ELSE eligible
<1>1. /\ Linked \subseteq Tasks /\ vruntime \in [Tasks -> Nat] /\ ticks \in [Tasks -> Nat]
  BY LinkedTasks, Zenon DEF TypeOK
<1>2. t \in work /\ eligible # {}
  BY <1>1 DEF Ahead, IDLE, REALTIME
<1>3. task_schedule_next(st) = {n \in C : \A u \in C : ~Smaller(Key(u), Key(n))}
  BY <1>2, Zenon DEF task_schedule_next, TopClass, Least
<1>4. \A u \in Linked : /\ vruntime[u] \in Nat /\ ticks[u] \in Nat
                        /\ Distance(u) \in Nat /\ Deadline(u) \in Nat
  BY <1>1, DistanceType, Charges, SMTT(30) DEF Deadline
<1>5. CASE rt # {}
  <2> DEFINE f == [u \in rt |-> vruntime[u]]
             g == [u \in rt |-> ticks[u]]
             h == [u \in rt |-> Distance(u)]
  <2>1. f \in [rt -> Nat] /\ g \in [rt -> Nat] /\ h \in [rt -> Nat]
    BY <1>4, Zenon
  <2>2. PICK n \in rt : \A u \in rt : ~Smaller(<<f[u], g[u], h[u]>>, <<f[n], g[n], h[n]>>)
    <3> HIDE DEF rt, f, g, h
    <3> QED
      BY <1>5, <2>1, Lex3, Zenon
  <2>3. ASSUME NEW u \in rt PROVE Key(u) = <<f[u], g[u], h[u]>>
    <3>1. prio[u] = REALTIME /\ REALTIME # IDLE
      BY DEF REALTIME, IDLE
    <3>2. Key(u) = <<vruntime[u], ticks[u], Distance(u)>>
      BY <3>1, Zenon
    <3>3. f[u] = vruntime[u] /\ g[u] = ticks[u] /\ h[u] = Distance(u)
      BY Zenon
    <3> HIDE DEF Key, f, g, h, rt
    <3> QED
      BY <3>2, <3>3, Zenon
  <2>4. C = rt
    BY <1>5, Zenon
  <2>5. \A u \in rt : prio[u] = REALTIME
    BY Zenon
  <2> HIDE DEF Key, C, rt, f, g, h
  <2> QED
    BY <1>3, <2>2, <2>3, <2>4, <2>5, Zenon
<1>6. CASE rt = {}
  <2> DEFINE e == [u \in work |-> Deadline(u)]
             f == [u \in work |-> vruntime[u]]
             g == [u \in work |-> ticks[u]]
             h == [u \in work |-> Distance(u)]
  <2>1. /\ e \in [work -> Nat] /\ f \in [work -> Nat]
        /\ g \in [work -> Nat] /\ h \in [work -> Nat]
    BY <1>4, Zenon
  <2>2. PICK n \in work : \A u \in work :
          ~Smaller(<<e[u], f[u], g[u], h[u]>>, <<e[n], f[n], g[n], h[n]>>)
    <3>1. work # {}
      BY <1>2, Zenon
    <3> HIDE DEF work, e, f, g, h
    <3> QED
      BY <2>1, <3>1, Lex4, Zenon
  <2>3. \A u \in work : Key(u) = <<e[u], f[u], g[u], h[u]>>
    BY Zenon
  <2>4. C = work
    BY <1>2, <1>6, Zenon
  <2>5. \A u \in work : prio[u] # IDLE /\ Deadline(u) \in Nat /\ e[u] = Deadline(u)
    BY <1>4, Zenon
  <2>6. ASSUME NEW m \in work, ~Smaller(Key(t), Key(m)) PROVE Deadline(m) <= Deadline(t)
    <3>1. ~(e[t] < e[m])
      <4> HIDE DEF Key, work, e, f, g, h
      <4>1. ~Smaller(<<e[t], f[t], g[t], h[t]>>, <<e[m], f[m], g[m], h[m]>>)
        BY <1>2, <2>3, <2>6, Zenon
      <4> QED
        BY <4>1 DEF Smaller
    <3>2. /\ e[t] = Deadline(t) /\ e[m] = Deadline(m)
          /\ Deadline(t) \in Nat /\ Deadline(m) \in Nat
      <4>1. t \in work /\ m \in work
        BY <1>2, Zenon
      <4> HIDE DEF work, e
      <4> QED
        BY <2>5, <4>1, Zenon
    <3> HIDE DEF work, e
    <3> QED
      BY <3>1, <3>2
  <2> HIDE DEF Key, C, work, rt, e, f, g, h
  <2>7. task_schedule_next(st) # {}
    BY <1>3, <2>2, <2>3, <2>4, Zenon
  <2> QED
    BY <1>2, <1>3, <2>4, <2>5, <2>6, <2>7
<1> QED
  BY <1>5, <1>6, Zenon

-----------------------------------------------------------------------------
(* The lag.                                                                *)

(* A step that leaves the accounts alone.                                  *)
LEMMA QuietLag ==
  ASSUME TypeOK, Lag, UNCHANGED <<prio, wprio, vruntime, g_min_vruntime, current, stall, load>>,
         Linked' \subseteq Linked, steady' \subseteq steady,
         \A t \in steady' : state'[t] \in Runnable
  PROVE  Lag'
<1>1. Waiting' \subseteq Waiting
  BY Zenon DEF Waiting
<1>2. /\ KeepsPriorities' = KeepsPriorities /\ Step(Idle)' = Step(Idle)
      /\ \A t : Slice(t)' = Slice(t)
  BY DEF KeepsPriorities, Step, Slice
<1> QED
  BY <1>1, <1>2, Zenon DEF Lag

(* task_yield: what it takes has no later deadline than who waits.         *)
LEMMA YieldLag ==
  ASSUME TypeOK, Ahead, Lag, ring # <<>>, current \in Linked, task_yield
  PROVE  Lag'
<1> DEFINE woken == Woken(state)
           pick == task_schedule_next(woken)
<1>1. /\ UNCHANGED <<ring, prio, wprio, vruntime, g_min_vruntime, load>> /\ stall' = 0
      /\ steady' = {t \in steady : state'[t] \in Runnable}
  BY Zenon DEF task_yield, Yield, tcb, clock, Unsteady
<1>2. current' \in pick \/ pick = {}
  <2>1. CASE pick \subseteq {current}
    BY <2>1, Zenon DEF task_yield, Yield
  <2>2. CASE ~(pick \subseteq {current})
    BY <2>2, Zenon DEF task_yield, Yield
  <2> QED
    BY <2>1, <2>2, Zenon
<1>3. Waiting' \subseteq Waiting
  BY <1>1, Zenon DEF Waiting, Linked
<1>4. /\ KeepsPriorities' = KeepsPriorities /\ Step(Idle)' = Step(Idle)
      /\ \A t : Slice(t)' = Slice(t)
  BY <1>1 DEF KeepsPriorities, Step, Slice
<1>5. ASSUME NEW t \in Waiting, prio[current'] # REALTIME
      PROVE  vruntime[current'] <= vruntime[t] + Slice(t) + Step(Idle) * 0
  <2>1. t \in Linked /\ t \in Tasks /\ state[t] \in Runnable /\ prio[t] \in 1..3
    BY LinkedTasks, Zenon DEF Waiting, Lag
  <2>2. woken[t] \in Runnable
    BY <2>1, Zenon DEF Woken, Runnable
  <2> HIDE DEF woken
  <2>3. /\ pick # {}
        /\ \A n \in pick : prio[n] # REALTIME => Deadline(n) <= Deadline(t)
    BY <2>1, <2>2, PickEarliest, Zenon
  <2>4. Deadline(current') <= Deadline(t)
    BY <1>2, <1>5, <2>3, Zenon
  <2>5. current' \in Tasks
    <3>1. current' \in Linked
      BY <1>2, <2>3, PickReady, Zenon
    <3> QED
      BY <3>1, LinkedTasks, Zenon
  <2>6. /\ vruntime[current'] \in Nat /\ Slice(current') \in Nat
        /\ vruntime[t] \in Nat /\ Slice(t) \in Nat /\ Step(Idle) \in Nat
    <3>1. vruntime \in [Tasks -> Nat] /\ Idle \in Tasks
      BY SchedulerAssumption, Zenon DEF TypeOK
    <3> QED
      BY <2>1, <2>5, <3>1, Charges, SMTT(30)
  <2> HIDE DEF pick
  <2> QED
    BY <2>4, <2>6 DEF Deadline
<1>6. \A t \in steady' : state'[t] \in Runnable
  BY <1>1, Zenon
<1>7. /\ prio'[Idle] = IDLE /\ wprio'[Idle] = IDLE
      /\ KeepsPriorities => wprio' = prio'
  BY <1>1, Zenon DEF Lag
<1>8. ASSUME KeepsPriorities, NEW t \in Waiting'
      PROVE  /\ g_min_vruntime' <= vruntime'[t] + Slice(t)' + Step(Idle)' * (StallLimit + 2)
             /\ prio'[current'] # REALTIME =>
                  vruntime'[current'] <= vruntime'[t] + Slice(t)' + Step(Idle)' * stall'
  <2>1. t \in Waiting
    BY <1>3, Zenon
  <2>2. g_min_vruntime <= vruntime[t] + Slice(t) + Step(Idle) * (StallLimit + 2)
    BY <1>8, <2>1, Zenon DEF Lag
  <2> HIDE DEF woken, pick
  <2> QED
    BY <1>1, <1>4, <1>5, <2>1, <2>2
<1> QED
  BY <1>4, <1>6, <1>7, <1>8, Zenon DEF Lag

(* The timer interrupt: a tick of a task that was taken before the others. *)
LEMMA TickLag ==
  ASSUME Types, Shape, Ahead, Lag, current \in Linked, task_timer_tick
  PROVE  Lag'
<1> USE SchedulerAssumption
<1>a. /\ TypeOK /\ ~halted /\ current \in Tasks /\ vruntime \in [Tasks -> Nat]
      /\ g_min_vruntime \in Nat /\ stall \in Nat /\ stall <= StallLimit + 1
  <2>1. TypeOK /\ ~halted /\ stall <= StallLimit + 1
    BY Zenon DEF Types, task_timer_tick
  <2>2. /\ current \in Tasks /\ vruntime \in [Tasks -> Nat]
        /\ g_min_vruntime \in Nat /\ stall \in Nat
    BY <2>1 DEF TypeOK
  <2> QED
    BY <2>1, <2>2, Zenon
<1>b. Linked \subseteq Tasks
  BY <1>a, LinkedTasks, Zenon
<1>1. /\ UNCHANGED <<ring, prio, wprio, current, steady, load>>
      /\ vruntime' = [vruntime EXCEPT ![current] = vruntime[current] + Step(current)]
      /\ g_min_vruntime' = (IF vruntime'[current] > g_min_vruntime
                            THEN vruntime'[current] ELSE g_min_vruntime)
      /\ stall' = stall + 1
  BY Zenon DEF task_timer_tick
<1>2. /\ Waiting' = Waiting /\ KeepsPriorities' = KeepsPriorities
      /\ \A t : Slice(t)' = Slice(t) /\ Step(t)' = Step(t)
  BY <1>1 DEF Waiting, Linked, KeepsPriorities, Slice, Step
<1>3. \A t \in steady' : state'[t] \in Runnable
  <2>1. \A t \in Tasks : \/ state'[t] = state[t]
                         \/ state[t] = "SLEEPING" /\ state'[t] = "READY"
    BY <1>a, Ticked, Zenon
  <2>2. steady \subseteq Tasks
    BY <1>a, Zenon DEF TypeOK
  <2> QED
    BY <1>1, <2>1, <2>2, Zenon DEF Lag, Runnable
<1>4. /\ Step(Idle) = 8 /\ Step(current) \in 0..8 /\ StallLimit \in Nat
      /\ KeepsPriorities /\ prio[current] = REALTIME => Step(current) = 0
  BY <1>a, Charges, Zenon DEF Lag
<1>5. ASSUME KeepsPriorities, NEW t \in Waiting
      PROVE  /\ g_min_vruntime' <= vruntime'[t] + Slice(t) + 8 * (StallLimit + 2)
             /\ prio[current] # REALTIME =>
                  vruntime'[current] <= vruntime'[t] + Slice(t) + 8 * stall'
  <2>1. t \in Tasks /\ Slice(t) \in Nat /\ vruntime[t] \in Nat /\ vruntime[current] \in Nat
    BY <1>a, <1>b, Charges DEF Waiting
  <2>2. /\ vruntime'[current] = vruntime[current] + Step(current)
        /\ vruntime'[t] \in Nat /\ vruntime'[t] >= vruntime[t]
    BY <1>a, <1>1, <1>4, <2>1
  <2>3. /\ g_min_vruntime <= vruntime[t] + Slice(t) + 8 * (StallLimit + 2)
        /\ prio[current] # REALTIME => vruntime[current] <= vruntime[t] + Slice(t) + 8 * stall
    BY <1>4, <1>5, Zenon DEF Lag
  <2>4. prio[current] # REALTIME => vruntime'[current] <= vruntime'[t] + Slice(t) + 8 * stall'
    BY <1>a, <1>1, <1>4, <2>1, <2>2, <2>3
  <2>5. CASE prio[current] # REALTIME
    <3>1. 8 * stall' <= 8 * (StallLimit + 2)
      BY <1>a, <1>1, <1>4
    <3> QED
      BY <1>a, <1>1, <1>4, <2>1, <2>2, <2>3, <2>4, <2>5, <3>1
  <2>6. CASE prio[current] = REALTIME
    <3>1. vruntime'[current] <= g_min_vruntime
      BY <1>a, <1>4, <1>5, <2>1, <2>2, <2>6 DEF Ahead
    <3>2. vruntime'[current] \in Nat /\ g_min_vruntime \in Nat
      BY <1>a, <1>4, <2>1, <2>2
    <3>3. ~(vruntime'[current] > g_min_vruntime)
      BY ONLY <3>1, <3>2
    <3>4. g_min_vruntime' = g_min_vruntime
      BY ONLY <1>1, <3>3, Zenon
    <3> QED
      BY <1>a, <1>4, <2>1, <2>2, <2>3, <2>4, <3>4
  <2> QED
    BY <2>5, <2>6, Zenon
<1> QED
  BY <1>1, <1>2, <1>3, <1>4, <1>5 DEF Lag

(* task_create: the new task starts at the clock.                          *)
LEMMA CreateLag ==
  ASSUME TypeOK, Shape, Ahead, Lag, current \in Linked,
         NEW t \in Tasks, NEW p \in 0..4, task_create(t, p)
  PROVE  Lag'
<1> USE SchedulerAssumption
<1>a. /\ vruntime \in [Tasks -> Nat] /\ prio \in [Tasks -> 0..4] /\ wprio \in [Tasks -> 0..4]
      /\ state \in [Tasks -> States] /\ ring \in Seq(Tasks) /\ steady \subseteq Tasks
      /\ g_min_vruntime \in Nat /\ stall \in 0..(StallLimit + 2) /\ StallLimit \in Nat
  BY Zenon DEF TypeOK
<1>b. Linked \subseteq Tasks
  BY LinkedTasks, Zenon
<1>1. /\ UNCHANGED <<g_min_vruntime, current, stall, load>>
      /\ state[t] = "NONE" /\ state' = [state EXCEPT ![t] = "READY"]
      /\ prio' = [prio EXCEPT ![t] = p] /\ wprio' = [wprio EXCEPT ![t] = p]
      /\ vruntime' = [vruntime EXCEPT ![t] = g_min_vruntime]
      /\ steady' = steady \cup {t} /\ (ring' = ring \/ ring' = Append(ring, t))
  BY Zenon DEF task_create, Insert, clock
<1>2. t # Idle /\ t \notin Linked
  BY <1>1, Zenon DEF Shape, Existing
<1>3. Linked' \subseteq Linked \cup {t}
  <2>1. Range(ring') = Range(ring) \/ Range(ring') = Range(ring) \cup {t}
    BY <1>a, <1>1, AppendList, Zenon
  <2> QED
    BY <2>1, Zenon DEF Linked
<1>4. \A u \in steady' : state'[u] \in Runnable
  BY <1>a, <1>1, Zenon DEF Lag, Runnable
<1>5. prio'[Idle] = IDLE /\ wprio'[Idle] = IDLE
  BY <1>a, <1>1, <1>2 DEF Lag
<1>6. KeepsPriorities' = KeepsPriorities
  BY <1>1, Zenon DEF KeepsPriorities
<1>7. ASSUME KeepsPriorities PROVE wprio' = prio'
  BY <1>a, <1>1, <1>7 DEF Lag
<1>8. ASSUME NEW u \in Tasks, u # t
      PROVE /\ vruntime'[u] = vruntime[u] /\ prio'[u] = prio[u]
            /\ Slice(u)' = Slice(u) /\ Step(u)' = Step(u)
  BY <1>a, <1>1, <1>8 DEF Slice, Step
<1>9. Slice(t)' \in Nat /\ vruntime'[t] = g_min_vruntime
  <2>1. wprio'[t] = p /\ vruntime'[t] = g_min_vruntime
    BY <1>a, <1>1, Zenon
  <2> QED
    BY <2>1, Quotients DEF Slice
<1>10. ASSUME KeepsPriorities, NEW u \in Waiting'
       PROVE  /\ g_min_vruntime' <= vruntime'[u] + Slice(u)' + Step(Idle)' * (StallLimit + 2)
              /\ prio'[current'] # REALTIME =>
                   vruntime'[current'] <= vruntime'[u] + Slice(u)' + Step(Idle)' * stall'
  <2>1. Step(Idle) = 8 /\ Step(Idle)' = 8
    BY <1>2, <1>8, Charges, Zenon DEF Lag
  <2>2. /\ current \in Tasks
        /\ vruntime'[current] = vruntime[current] /\ prio'[current] = prio[current]
    BY <1>b, <1>2, <1>8
  <2>3. CASE u = t
    <3>1. vruntime[current] <= g_min_vruntime /\ vruntime[current] \in Nat
      BY <1>a, <2>2, Zenon DEF Ahead
    <3>2. 8 * (StallLimit + 2) \in Nat /\ 8 * stall \in Nat
      BY <1>a
    <3> QED
      BY <1>a, <1>1, <1>9, <2>1, <2>2, <2>3, <3>1, <3>2, SMTT(30)
  <2>4. CASE u # t
    <3>1. u \in Waiting /\ u \in Tasks
      BY <1>1, <1>3, <1>8, <1>b, <2>4 DEF Waiting
    <3>2. /\ g_min_vruntime <= vruntime[u] + Slice(u) + Step(Idle) * (StallLimit + 2)
          /\ prio[current] # REALTIME =>
               vruntime[current] <= vruntime[u] + Slice(u) + Step(Idle) * stall
      BY <1>10, <3>1, Zenon DEF Lag
    <3> QED
      BY <1>1, <1>8, <2>1, <2>2, <2>4, <3>1, <3>2, Zenon
  <2> QED
    BY <2>3, <2>4, Zenon
<1> QED
  BY <1>4, <1>5, <1>6, <1>7, <1>10 DEF Lag

(* Every step keeps the bound.                                             *)
LEMMA LagStep ==
  ASSUME Types, Shape, OneRunning, Ahead, Lag, Next
  PROVE  Lag'
<1> USE SchedulerAssumption
<1>a. TypeOK /\ current \in Linked /\ ring # <<>> /\ load.prios \subseteq 0..4
  BY Zenon DEF Types, OneRunning, Shape
<1>1. CASE task_yield
  BY <1>1, <1>a, YieldLag, Zenon
<1>2. CASE task_timer_tick
  BY <1>2, <1>a, TickLag, Zenon
<1>3. ASSUME NEW t \in Tasks, NEW p \in load.prios, task_create(t, p) PROVE Lag'
  BY <1>3, <1>a, CreateLag, Zenon
<1>4. CASE task_reap
  <2> DEFINE D == {t \in Tasks : state[t] = "DYING" /\ t # current}
  <2>1. /\ UNCHANGED <<prio, wprio, vruntime, g_min_vruntime, current, stall, load, steady>>
        /\ state' = [t \in Tasks |-> IF t \in Linked \ Range(ring') THEN "FREED" ELSE state[t]]
        /\ ring' = Without(ring, D)
    BY <1>4, Zenon DEF task_reap, tcb, clock, Shape
  <2>2. \A t \in D : state[t] = "DYING"
    BY Zenon
  <2> HIDE DEF D
  <2>3. Linked' = Linked \ D
    <3>1. Range(Without(ring, D)) = Range(ring) \ D
      <4>1. ring \in Seq(Tasks) /\ NoTwice(ring)
        BY <1>a, Zenon DEF TypeOK, Shape
      <4> QED
        BY <4>1, WithoutKeeps, Zenon
    <3> QED
      BY <2>1, <3>1, Zenon DEF Linked
  <2>4. steady \subseteq Tasks
    BY <1>a, Zenon DEF TypeOK
  <2>5. \A t \in steady : state'[t] \in Runnable
    <3> SUFFICES ASSUME NEW t \in steady PROVE state'[t] \in Runnable
      BY Zenon
    <3>1. state[t] \in Runnable /\ t \in Tasks
      BY <2>4, Zenon DEF Lag
    <3>2. t \notin D
      BY <2>2, <3>1, Zenon DEF Runnable
    <3>3. ~(t \in Linked \ Range(ring'))
      BY <2>3, <3>2, Zenon DEF Linked
    <3> QED
      BY <2>1, <3>1, <3>3, Zenon
  <2> QED
    BY <1>a, <2>1, <2>3, <2>5, QuietLag
<1>5. CASE \/ task_trampoline \/ task_block
           \/ \E t \in Tasks : \/ ArmSleep(t) \/ task_unblock(t) \/ task_wake(t)
                               \/ task_suspend(t) \/ task_terminate(t)
  <2>1. /\ UNCHANGED <<ring, prio, wprio, vruntime, g_min_vruntime, current, stall, load>>
        /\ Unsteady
    BY <1>5, Zenon DEF task_trampoline, task_block, ArmSleep, task_unblock, task_wake, task_suspend,
                task_terminate, Assign, tcb, clock
  <2> QED
    BY <1>a, <2>1, QuietLag DEF Unsteady, Linked
<1>6. CASE AddTimer \/ tasking_init \/ \E n \in load.delays : SetWakeTick(n)
  <2>1. UNCHANGED <<ring, prio, wprio, vruntime, g_min_vruntime, current, stall, load,
                    state, steady>>
    BY <1>6, Zenon DEF AddTimer, tasking_init, SetWakeTick, tcb, clock
  <2>2. \A t \in steady' : state'[t] \in Runnable
    BY <2>1, Zenon DEF Lag
  <2> QED
    BY <1>a, <2>1, <2>2, QuietLag DEF Linked
<1>7. ASSUME NEW t \in Tasks, NEW p \in load.prios, task_set_priority(t, p) PROVE Lag'
  <2>1. ~KeepsPriorities /\ load' = load /\ UNCHANGED <<state, steady>> /\ t # Idle
    BY <1>7, Zenon DEF task_set_priority, Calls, KeepsPriorities
  <2>2. /\ prio' = [prio EXCEPT ![t] = p]
        /\ wprio' = wprio \/ wprio' = [wprio EXCEPT ![t] = p]
    BY <1>7, Zenon DEF task_set_priority
  <2>3. prio'[Idle] = IDLE /\ wprio'[Idle] = IDLE
    <3>1. /\ wprio \in [Tasks -> 0..4] /\ prio \in [Tasks -> 0..4]
          /\ prio[Idle] = IDLE /\ wprio[Idle] = IDLE
      BY <1>a, Zenon DEF Lag, TypeOK
    <3> QED
      BY <2>1, <2>2, <3>1
  <2>4. ~KeepsPriorities'
    BY <2>1, Zenon DEF KeepsPriorities
  <2> QED
    BY <2>1, <2>3, <2>4, Zenon DEF Lag
<1> QED
  BY <1>1, <1>2, <1>3, <1>4, <1>5, <1>6, <1>7 DEF Next

-----------------------------------------------------------------------------
(* The theorems.                                                           *)

(* The invariant holds in every state the scheduler reaches.               *)
THEOREM Invariance == Spec => []Inv
<1>1. Inv /\ [Next]_vars => Inv'
  <2> SUFFICES ASSUME Inv, [Next]_vars PROVE Inv'
    BY Zenon
  <2>1. CASE Next
    <3>1. ring # <<>> /\ NoTwice(ring) /\ current \in Linked /\ TypeOK
      BY Zenon DEF Inv, Shape, OneRunning, Types
    <3>2. Types'
      BY <2>1, <3>1, TypesStep, Zenon DEF Inv
    <3>3. Shape' /\ OneRunning'
      BY <2>1, <3>1, ListStep, Zenon DEF Inv
    <3>4. Ahead'
      BY <2>1, <3>1, AheadStep, Zenon DEF Inv
    <3>5. Lag'
      BY <2>1, LagStep, Zenon DEF Inv
    <3> QED
      BY <3>2, <3>3, <3>4, <3>5 DEF Inv
  <2>2. CASE UNCHANGED vars
    <3> USE <2>2 DEF vars, tcb, timers, clock, call
    <3>1. Types'
      <4>1. TypeOK' <=> TypeOK
        BY Zenon DEF TypeOK
      <4> QED
        BY <4>1, Zenon DEF Inv, Types
    <3>2. Shape' /\ OneRunning'
      <4>1. Linked' = Linked /\ Existing' = Existing /\ (NoTwice(ring)' <=> NoTwice(ring))
        BY Zenon DEF Linked, Existing, NoTwice
      <4> QED
        BY <4>1, Zenon DEF Inv, Shape, OneRunning
    <3>3. Ahead'
      BY Zenon DEF Inv, Ahead
    <3>4. Lag'
      <4>1. Waiting' = Waiting /\ (KeepsPriorities' <=> KeepsPriorities)
        BY Zenon DEF Waiting, Linked, KeepsPriorities
      <4>2. \A t : Slice(t)' = Slice(t) /\ Step(t)' = Step(t)
        BY DEF Slice, Step
      <4>3. Lag' <=> Lag
        BY <4>1, <4>2, Zenon DEF Lag
      <4> QED
        BY <4>3, Zenon DEF Inv
    <3> QED
      BY <3>1, <3>2, <3>3, <3>4 DEF Inv
  <2> QED
    BY <2>1, <2>2, Zenon
<1> QED
  BY <1>1, InvInit, PTL DEF Spec

(* Only the current task is RUNNING, and it is linked.                     *)
THEOREM OneRunningHolds == Spec => []OneRunning
<1>1. Inv => OneRunning
  BY Zenon DEF Inv
<1> QED
  BY <1>1, Invariance, PTL

(* The list starts with the idle task, holds each task once, none that has *)
(* been freed, and all there are until the one created last is reaped.     *)
THEOREM ListExactHolds == Spec => []ListExact
<1>1. Inv => ListExact
  <2> SUFFICES ASSUME Inv PROVE ListExact
    BY Zenon
  <2>1. /\ ring \in Seq(Tasks) /\ ring # <<>> /\ ring[1] = Idle /\ NoTwice(ring)
    BY Zenon DEF Inv, Types, TypeOK, Shape
  <2>2. Len(ring) \in Nat /\ DOMAIN ring = 1..Len(ring)
    BY <2>1, LenProperties, Zenon
  <2>3. ring \in Bijection(1..Len(ring), Linked)
    BY <2>1, <2>2 DEF Bijection, Injection, Surjection, IsInjective, Linked, Range, NoTwice
  <2>4. Cardinality(Linked) = Len(ring)
    <3>1. IsFiniteSet(1..Len(ring)) /\ Cardinality(1..Len(ring)) = Len(ring)
      <4>1. Cardinality(1..Len(ring)) = IF 1 > Len(ring) THEN 0 ELSE Len(ring) - 1 + 1
        BY <2>2, FS_Interval, SMTT(30)
      <4> QED
        BY <2>2, <4>1, FS_Interval, SMTT(30)
    <3>2. ExistsBijection(1..Len(ring), Linked)
      BY <2>3, Zenon DEF ExistsBijection
    <3> QED
      BY <3>1, <3>2, FS_Bijection, Zenon
  <2> QED
    BY <2>1, <2>4, Zenon DEF ListExact, Inv, Shape
<1> QED
  BY <1>1, Invariance, PTL

(* Every linked task passes the eligibility test of task_schedule_next.    *)
THEOREM AlwaysEligibleHolds == Spec => []AlwaysEligible
<1>1. Inv => AlwaysEligible
  BY LinkedTasks, Zenon DEF Inv, Types, Ahead, AlwaysEligible
<1> QED
  BY <1>1, Invariance, PTL

(* While priorities stay, a task that stays runnable is behind the clock   *)
(* by no more than its slice and what the watchdog allows one task.        *)
THEOREM LagBoundedHolds == Spec => []LagBounded
<1>1. Inv => LagBounded
  BY Zenon DEF Inv, Lag, Waiting, LagBounded
<1> QED
  BY <1>1, Invariance, PTL

(* No step of one task, of the timer or of the scheduler makes another     *)
(* that is BLOCKED runnable but an explicit wake-up, or revives a DYING    *)
(* one.                                                                    *)
THEOREM OthersStayDownHolds == Spec => OthersStayDown
<1> DEFINE Stay ==
      \A t \in Tasks \ {current} :
         /\ state[t] = "BLOCKED" /\ state'[t] \in Runnable => task_unblock(t) \/ task_wake(t)
         /\ state[t] = "DYING" => state'[t] \in {"DYING", "FREED"}
<1>1. Inv /\ [Next]_vars => [Stay]_vars
  <2> SUFFICES ASSUME Inv, Next, NEW t \in Tasks, t # current
               PROVE  /\ state[t] = "BLOCKED" /\ state'[t] \in Runnable =>
                           task_unblock(t) \/ task_wake(t)
                      /\ state[t] = "DYING" => state'[t] \in {"DYING", "FREED"}
    BY Zenon
  <2>a. TypeOK /\ state \in [Tasks -> States] /\ current \in Linked
    BY Zenon DEF Inv, Types, TypeOK, OneRunning
  <2>1. CASE \/ state'[t] = state[t]
             \/ state[t] \notin {"BLOCKED", "DYING"}
             \/ state'[t] \in {"DYING", "FREED"}
    BY <2>1, Zenon DEF Runnable
  <2>2. CASE task_yield
    <3>1. Yield(state)
      BY <2>2, Zenon DEF task_yield
    <3> QED
      BY <2>a, <2>1, <3>1, Yielding, Zenon
  <2>3. CASE task_timer_tick
    BY <2>a, <2>1, <2>3, Ticked, Zenon
  <2>4. CASE task_reap
    <3>1. state'[t] = "FREED" \/ state'[t] = state[t]
      BY <2>4, Zenon DEF task_reap
    <3> QED
      BY <2>1, <3>1, Zenon
  <2>5. CASE \/ AddTimer \/ tasking_init \/ \E n \in load.delays : SetWakeTick(n)
             \/ \E u \in Tasks : \E p \in load.prios : task_set_priority(u, p)
    <3>1. state' = state
      BY <2>5, Zenon DEF AddTimer, tasking_init, SetWakeTick, task_set_priority
    <3> QED
      BY <2>1, <3>1, Zenon
  <2>6. CASE task_trampoline \/ task_block
    <3>1. \E s : state' = [state EXCEPT ![current] = s]
      BY <2>6, Zenon DEF task_trampoline, task_block
    <3> QED
      BY <2>a, <2>1, <3>1
  <2>7. ASSUME NEW u \in Tasks,
               \/ ArmSleep(u) \/ task_suspend(u) \/ task_terminate(u)
               \/ \E p \in load.prios : task_create(u, p)
        PROVE  \/ state'[t] = state[t]
               \/ state[t] \notin {"BLOCKED", "DYING"}
               \/ state'[t] \in {"DYING", "FREED"}
    <3>1. CASE u = t
      BY <2>a, <2>7, <3>1 DEF ArmSleep, task_suspend, task_terminate, task_create, Assign, Runnable
    <3>2. CASE u # t
      <4>1. \E s : state' = [state EXCEPT ![u] = s]
        BY <2>7, Zenon DEF ArmSleep, task_suspend, task_terminate, task_create, Assign
      <4> QED
        BY <2>a, <3>2, <4>1
    <3> QED
      BY <3>1, <3>2, Zenon
  <2>8. ASSUME NEW u \in Tasks, task_unblock(u) \/ task_wake(u), u # t
        PROVE  state'[t] = state[t]
    <3>1. state' = [state EXCEPT ![u] = "READY"]
      BY <2>8, Zenon DEF task_unblock, task_wake, Assign
    <3> QED
      BY <2>a, <2>8, <3>1
  <2>9. CASE task_unblock(t) \/ task_wake(t)
    <3>1. state[t] \in {"SLEEPING", "BLOCKED"}
      BY <2>9, Zenon DEF task_unblock, task_wake
    <3> QED
      BY <2>9, <3>1, Zenon
  <2> QED
    BY <2>1, <2>2, <2>3, <2>4, <2>5, <2>6, <2>7, <2>8, <2>9 DEF Next
<1>2. Stay <=> (\A t \in Tasks \ {current} :
         /\ state[t] = "BLOCKED" /\ state'[t] \in Runnable => task_unblock(t) \/ task_wake(t)
         /\ state[t] = "DYING" => state'[t] \in {"DYING", "FREED"})
  BY Zenon
<1> QED
  BY <1>1, Invariance, PTL DEF Spec, OthersStayDown

-----------------------------------------------------------------------------
(***************************************************************************)
(* For any number of replicas, threads, slots and reads, and any           *)
(* interleaving: wdh_reader_read returns what was put, provided the        *)
(* placement of the replicas keeps their cells apart; and the 256-byte     *)
(* heuristic placement does.                                               *)
(***************************************************************************)

(* The replicas of different slots never share a cell. *)
CellsApart ==
  \A h, j \in ReadSlots, r, q \in Replicas : Cell(h, r) = Cell(j, q) => h = j

(* Worker k has counted itself for the ticket that is out. *)
Finished == {k \in Workers : Resting(k)}

(* Worker k has copied the slot of the ticket that is out. *)
Holds(k) == winner_val[k] = mem[Cell(cur_idx, k)]

(* Where a worker may be while a read waits: it has not seen the ticket    *)
(* yet, it is copying, or it has finished.                                 *)
Serving(k) ==
  \/ wpc[k] \in {"top", "test", "latch"} /\ last[k] # ticket
  \/ wpc[k] = "index" /\ last[k] = ticket
  \/ wpc[k] = "copy" /\ last[k] = ticket /\ idx[k] = cur_idx
  \/ wpc[k] \in {"signal", "add"} /\ last[k] = ticket /\ Holds(k)
  \/ Resting(k) /\ Holds(k)

Handshake ==
  /\ upc \in {"idle", "reset", "publish", "wait", "fetch"} =>
       stop = 0 /\ n_workers > 0 /\ spawned = n_workers
  /\ upc = "stop" => stop = 0
  /\ \A k \in Workers : last[k] <= ticket
  /\ QuietBetweenReads
  /\ upc = "publish" => done = 0
  /\ upc = "wait" => done = Cardinality(Finished) /\ \A k \in Workers : Serving(k)
  /\ upc = "fetch" => \A k \in Workers : Resting(k) /\ Holds(k)

Coherent == \A h \in ReadSlots, r \in Replicas : mem[Cell(h, r)] = stored[h]

ReaderIInv == ReaderTypeOK /\ Handshake /\ Coherent

-----------------------------------------------------------------------------
(* Division with remainder determines quotient and remainder. *)
LEMMA QuotientUnique ==
  ASSUME NEW n \in Nat \ {0}, NEW a \in Nat, NEW b \in Nat,
         NEW r \in 0 .. (n - 1), NEW q \in 0 .. (n - 1),
         a * n + r = b * n + q
  PROVE  a = b
<1>1. ASSUME NEW c \in Nat, NEW d \in Nat, c < d
      PROVE  c * n + n <= d * n
  <2>1. PICK e \in Nat : d = c + 1 + e
    <3>1. d - c - 1 \in Nat /\ d = c + 1 + (d - c - 1)
      BY <1>1
    <3> QED BY <3>1, Zenon
  <2>2. d * n = c * n + n + e * n
    BY <2>1
  <2>3. e * n >= 0
    BY <2>1
  <2> QED BY <2>2, <2>3
<1>2. CASE a < b
  BY <1>1, <1>2
<1>3. CASE b < a
  BY <1>1, <1>3
<1> QED BY <1>2, <1>3

(* The heuristic placement, replicas one chunk apart in a stride of        *)
(* num_replicas chunks, keeps the replicas of different slots apart.       *)
THEOREM HeuristicApart ==
  ASSUME RepStep = 1
  PROVE  CellsApart
<1> SUFFICES ASSUME NEW h \in ReadSlots, NEW j \in ReadSlots, NEW r \in Replicas,
                    NEW q \in Replicas, Cell(h, r) = Cell(j, q)
             PROVE  h = j
  BY Zenon DEF CellsApart
<1> USE ReaderAssumption DEF ReadSlots, Replicas
<1>1. \A x \in Nat : x \div PerChunk \in Nat
  <2> TAKE x \in Nat
  <2>1. x = PerChunk * (x \div PerChunk) + (x % PerChunk) /\ x % PerChunk < PerChunk
    OBVIOUS
  <2>2. x \div PerChunk \in Int
    OBVIOUS
  <2>3. CASE x \div PerChunk <= -1
    <3>1. PerChunk * (x \div PerChunk) <= PerChunk * (-1)
      BY <2>2, <2>3
    <3> QED BY <2>1, <2>2, <3>1
  <2> QED BY <2>2, <2>3
<1>2. /\ (h \div PerChunk) * NumReplicas + r = (j \div PerChunk) * NumReplicas + q
      /\ h % PerChunk = j % PerChunk
  BY DEF Cell
<1>3. h \div PerChunk = j \div PerChunk
  BY <1>1, <1>2, QuotientUnique, SMTT(30)
<1>4. /\ h = PerChunk * (h \div PerChunk) + (h % PerChunk)
      /\ j = PerChunk * (j \div PerChunk) + (j % PerChunk)
  OBVIOUS
<1> QED BY <1>2, <1>3, <1>4, Zenon

-----------------------------------------------------------------------------
(* Every cell a slot maps to is a cell of the region. *)
LEMMA CellInCells ==
  \A h \in ReadSlots, r \in Replicas : Cell(h, r) \in Cells
BY DEF Cells

LEMMA ReaderTypeInit == ReaderInit => ReaderTypeOK
<1> SUFFICES ASSUME ReaderInit PROVE ReaderTypeOK
  BY Zenon
<1> USE ReaderAssumption DEF ReaderInit
<1>1. upc \in {"idle", "stop"}
  BY Zenon
<1>2. wpc \in [Replicas -> {"top", "test", "latch", "index", "copy", "signal", "add", "exit"}]
  BY Zenon
<1>3. /\ mem \in [Cells -> Values] /\ stored \in [ReadSlots -> Values]
      /\ winner_val \in [Replicas -> Values]
      /\ 0 \in ReadSlots /\ last \in [Replicas -> Nat] /\ idx \in [Replicas -> ReadSlots]
      /\ out \in [slot : ReadSlots, val : Values]
  BY DEF ReadSlots
<1> QED BY <1>1, <1>2, <1>3, Zenon DEF ReaderTypeOK

(* The threads that exist are among the replicas. *)
LEMMA WorkersInReplicas == ReaderTypeOK => Workers \subseteq Replicas
BY ReaderAssumption DEF ReaderTypeOK, Workers, Replicas

LEMMA ReaderTypeStep == ReaderTypeOK /\ [ReaderNext]_readerVars => ReaderTypeOK'
<1> SUFFICES ASSUME ReaderTypeOK, [ReaderNext]_readerVars PROVE ReaderTypeOK'
  BY Zenon
<1> USE ReaderAssumption
<1>1. CASE UNCHANGED readerVars
  BY <1>1, Zenon DEF ReaderTypeOK, readerVars, shared, locals
<1>2. CASE UserSteps \/ wdh_reader_destroy
  <2>1. CASE Fetch
    <3>1. 0 \in Replicas
      BY DEF Replicas
    <3> QED BY <2>1, <3>1, Zenon DEF Fetch, ReaderTypeOK, shared, locals
  <2>2. CASE ResetDone \/ PublishTicket \/ AllLoaded
    BY <2>2 DEF ResetDone, PublishTicket, AllLoaded, ReaderTypeOK, shared, locals
  <2>3. CASE Wake \/ Join \/ wdh_reader_destroy
    BY <2>3 DEF Wake, Join, wdh_reader_destroy, ReaderTypeOK, shared, locals
  <2> QED BY <1>2, <2>1, <2>2, <2>3, Zenon DEF UserSteps
<1>3. ASSUME NEW h \in ReadSlots, wdh_get(h) PROVE ReaderTypeOK'
  <2>1. mem[Cell(h, 0)] \in Values /\ h \in Nat
    BY CellInCells DEF ReadSlots, Replicas, ReaderTypeOK
  <2> QED BY <1>3, <2>1, Zenon DEF wdh_get, ReaderTypeOK, shared, locals
<1>4. ASSUME NEW h \in ReadSlots, wdh_reader_read(h) PROVE ReaderTypeOK'
  BY <1>4, Zenon DEF wdh_reader_read, ReaderTypeOK, locals, ReadSlots
<1>5. ASSUME NEW h \in ReadSlots, NEW v \in Values, wdh_put(h, v) PROVE ReaderTypeOK'
  BY <1>5, Zenon DEF wdh_put, ReaderTypeOK, shared, locals
<1>6. ASSUME NEW k \in Workers, wdh_worker(k) PROVE ReaderTypeOK'
  <2> k \in Replicas
    BY WorkersInReplicas, Zenon
  <2> USE <1>6 DEF wdh_worker, Advance
  <2>1. CASE Top(k) \/ Spin(k) \/ NewTicket(k) \/ Signal(k)
    BY <2>1 DEF Top, Spin, NewTicket, Signal, Go, ReaderTypeOK, shared
  <2>2. CASE Latch(k) \/ Index(k)
    BY <2>2 DEF Latch, Index, Go, ReaderTypeOK, shared
  <2>3. CASE Copy(k)
    <3>1. mem[Cell(idx[k], k)] \in Values
      BY CellInCells, Zenon DEF ReaderTypeOK
    <3> QED BY <2>3, <3>1, Zenon DEF Copy, Go, ReaderTypeOK
  <2>4. CASE Add(k)
    BY <2>4 DEF Add, Go, ReaderTypeOK
  <2> QED BY <2>1, <2>2, <2>3, <2>4, Zenon
<1> QED BY <1>1, <1>2, <1>3, <1>4, <1>5, <1>6, Zenon DEF ReaderNext

-----------------------------------------------------------------------------
(* Counting the finished workers. *)
LEMMA FinishedCount ==
  ASSUME ReaderTypeOK
  PROVE  /\ IsFiniteSet(Finished) /\ Cardinality(Finished) \in Nat
         /\ Cardinality(Finished) >= spawned => Finished = Workers
<1> USE ReaderAssumption
<1>1. IsFiniteSet(Workers) /\ Cardinality(Workers) = spawned
  BY FS_Interval, SMTT(30) DEF Workers, ReaderTypeOK
<1>2. Finished \subseteq Workers
  BY Zenon DEF Finished
<1>3. IsFiniteSet(Finished) /\ Cardinality(Finished) \in Nat
  BY <1>1, <1>2, FS_Subset, FS_CardinalityType, Zenon
<1>4. Cardinality(Finished) >= spawned => Finished = Workers
  BY <1>1, <1>2, <1>3, FS_Subset DEF ReaderTypeOK
<1> QED BY <1>3, <1>4, Zenon

LEMMA HandshakeInit == ReaderInit => Handshake
<1> SUFFICES ASSUME ReaderInit PROVE Handshake
  BY Zenon
<1>1. \A k \in Workers : k \in Replicas
  BY ReaderTypeInit, WorkersInReplicas, Zenon
<1>2. \A k \in Workers : Resting(k) /\ last[k] <= ticket
  BY <1>1 DEF ReaderInit, Resting
<1> QED BY <1>2, ReaderAssumption, Zenon DEF ReaderInit, Handshake, QuietBetweenReads

(* What a step of worker k leaves alone. *)
LEMMA WorkerFrame ==
  ASSUME ReaderTypeOK, NEW k \in Workers, wdh_worker(k)
  PROVE  /\ UNCHANGED <<mem, upc, out, stored, spawned, n_workers, ticket, cur_idx, stop>>
         /\ k \in Replicas /\ Workers' = Workers
         /\ \A j \in Workers \ {k} :
              /\ wpc'[j] = wpc[j] /\ last'[j] = last[j] /\ idx'[j] = idx[j]
              /\ winner_val'[j] = winner_val[j]
         /\ done' = done \/ Add(k)
<1>1. /\ UNCHANGED <<mem, upc, out, stored, spawned, n_workers, ticket, cur_idx, stop>>
      /\ k \in Replicas /\ (done' = done \/ Add(k))
  BY WorkersInReplicas, Zenon
     DEF wdh_worker, Advance, Top, Spin, NewTicket, Latch, Index, Copy, Signal, Add, shared
<1>2. Workers' = Workers
  BY <1>1, Zenon DEF Workers
<1>3. ASSUME NEW j \in Workers \ {k}
      PROVE  /\ wpc'[j] = wpc[j] /\ last'[j] = last[j] /\ idx'[j] = idx[j]
             /\ winner_val'[j] = winner_val[j]
  BY WorkersInReplicas, Zenon
     DEF wdh_worker, Advance, Top, Spin, NewTicket, Latch, Index, Copy, Signal, Add, Go, shared, ReaderTypeOK
<1> QED BY <1>1, <1>2, <1>3, Zenon

(* Where a step of worker k takes it while a read waits.  Only Add makes   *)
(* it rest.                                                                *)
LEMMA WorkerServes ==
  ASSUME ReaderTypeOK, NEW k \in Workers, wdh_worker(k), stop = 0, Serving(k)
  PROVE  /\ Serving(k)'
         /\ Add(k) => ~Resting(k) /\ Resting(k)'
         /\ ~Add(k) => Resting(k)' = Resting(k)
<1>f. UNCHANGED <<mem, ticket, cur_idx, stop>> /\ k \in Replicas
  BY WorkerFrame, Zenon
<1>t. /\ wpc \in [Replicas -> {"top", "test", "latch", "index", "copy", "signal", "add", "exit"}]
      /\ last \in [Replicas -> Nat] /\ idx \in [Replicas -> ReadSlots]
      /\ winner_val \in [Replicas -> Values]
  BY Zenon DEF ReaderTypeOK
<1> USE <1>f, <1>t DEF Serving, Resting, Holds, Go
<1>1. CASE Top(k)
  BY <1>1 DEF Top, shared, Add
<1>2. CASE Spin(k)
  BY <1>2, Zenon DEF Spin, shared, Add
<1>3. CASE NewTicket(k)
  BY <1>3, Zenon DEF NewTicket, shared, Add
<1>4. CASE Latch(k)
  BY <1>4, Zenon DEF Latch, shared, Add
<1>5. CASE Index(k)
  BY <1>5, Zenon DEF Index, shared, Add
<1>6. CASE Copy(k)
  BY <1>6, Zenon DEF Copy, Add
<1>7. CASE Signal(k)
  BY <1>7, Zenon DEF Signal, shared, Add
<1>8. CASE Add(k)
  BY <1>8, Zenon DEF Add
<1> QED BY <1>1, <1>2, <1>3, <1>4, <1>5, <1>6, <1>7, <1>8, Zenon DEF wdh_worker, Advance

(* A worker at rest stays at rest until a ticket is published. *)
LEMMA WorkerRests ==
  ASSUME ReaderTypeOK, NEW k \in Workers, wdh_worker(k), stop = 0, Resting(k)
  PROVE  Resting(k)' /\ winner_val'[k] = winner_val[k] /\ ~Add(k)
<1>1. ticket' = ticket /\ k \in Replicas
  BY WorkerFrame, Zenon
<1>2. wpc \in [Replicas -> {"top", "test", "latch", "index", "copy", "signal", "add", "exit"}]
  BY Zenon DEF ReaderTypeOK
<1>3. Top(k) \/ Spin(k)
  BY Zenon DEF wdh_worker, Advance, NewTicket, Latch, Index, Copy, Signal, Add, Go, Resting
<1>4. wpc[k] \in {"top", "test"} /\ wpc' = [wpc EXCEPT ![k] = IF wpc[k] = "top" THEN "test" ELSE "top"]
  BY <1>3 DEF Top, Spin, Go
<1>5. last' = last /\ winner_val' = winner_val
  BY <1>3, Zenon DEF Top, Spin, shared
<1> QED
  BY <1>1, <1>2, <1>4, <1>5, Zenon DEF Resting, Add, Go

(* A step of a worker keeps the handshake. *)
LEMMA HandshakeWorker ==
  ASSUME ReaderTypeOK, ReaderTypeOK', Handshake, NEW k \in Workers, wdh_worker(k)
  PROVE  Handshake'
<1>f. /\ UNCHANGED <<mem, upc, spawned, n_workers, ticket, cur_idx, stop>>
      /\ k \in Replicas /\ Workers' = Workers
  BY WorkerFrame, Zenon
<1>o. \A j \in Workers \ {k} :
        /\ wpc'[j] = wpc[j] /\ last'[j] = last[j] /\ idx'[j] = idx[j]
        /\ winner_val'[j] = winner_val[j]
  BY WorkerFrame, Zenon
<1>r. \A j \in Workers \ {k} :
        Resting(j)' = Resting(j) /\ Holds(j)' = Holds(j) /\ Serving(j)' = Serving(j)
  BY <1>f, <1>o DEF Resting, Holds, Serving
<1>1. \A j \in Workers' : last'[j] <= ticket'
  <2>1. last'[k] <= ticket'
    BY <1>f DEF Handshake, wdh_worker, Advance, Top, Spin, NewTicket, Latch, Index, Copy, Signal, Add,
                shared, ReaderTypeOK
  <2> QED BY <1>f, <1>o, <2>1, Zenon DEF Handshake
<1>2. QuietBetweenReads'
  BY <1>f, <1>r, WorkerRests, Zenon DEF QuietBetweenReads, Handshake
<1>3. ASSUME upc = "publish" PROVE done' = 0
  BY <1>3, <1>f, WorkerRests, WorkerFrame, Zenon DEF QuietBetweenReads, Handshake
<1>4. ASSUME upc = "wait"
      PROVE  done' = Cardinality(Finished') /\ \A j \in Workers' : Serving(j)'
  <2>1. stop = 0 /\ Serving(k) /\ done = Cardinality(Finished)
    BY <1>4, Zenon DEF Handshake
  <2>2. /\ Serving(k)' /\ (Add(k) => ~Resting(k) /\ Resting(k)')
        /\ (~Add(k) => Resting(k)' = Resting(k))
    BY <2>1, WorkerServes, Zenon
  <2>3. \A j \in Workers' : Serving(j)'
    BY <1>4, <1>f, <1>r, <2>2, Zenon DEF Handshake
  <2>4. CASE Add(k)
    <3>1. Finished' = Finished \cup {k} /\ k \notin Finished
      BY <1>f, <1>r, <2>2, <2>4, Zenon DEF Finished
    <3>2. done' = done + 1
      BY <2>4, Zenon DEF Add
    <3> QED BY <2>1, <2>3, <3>1, <3>2, FinishedCount, FS_AddElement, Zenon
  <2>5. CASE ~Add(k)
    <3>1. Finished' = Finished
      BY <1>f, <1>r, <2>2, <2>5, Zenon DEF Finished
    <3> QED BY <2>1, <2>3, <2>5, <3>1, WorkerFrame, Zenon
  <2> QED BY <2>4, <2>5, Zenon
<1>5. ASSUME upc = "fetch" PROVE \A j \in Workers' : Resting(j)' /\ Holds(j)'
  <2>1. stop = 0 /\ Resting(k) /\ Holds(k)
    BY <1>5, Zenon DEF Handshake
  <2>2. Resting(k)' /\ Holds(k)'
    BY <2>1, <1>f, WorkerRests, Zenon DEF Holds
  <2> QED BY <1>5, <1>f, <1>r, <2>2, Zenon DEF Handshake
<1> QED BY <1>f, <1>1, <1>2, <1>3, <1>4, <1>5, Zenon DEF Handshake

(* A step of the user thread keeps the handshake. *)
LEMMA HandshakeUser ==
  ASSUME ReaderTypeOK, Handshake,
         \/ UserSteps \/ wdh_reader_destroy \/ UNCHANGED readerVars
         \/ \E h \in ReadSlots : wdh_get(h) \/ wdh_reader_read(h)
         \/ \E h \in ReadSlots, v \in Values : wdh_put(h, v)
  PROVE  Handshake'
<1>f. UNCHANGED <<wpc, last, idx, winner_val, spawned, n_workers>> /\ Workers' = Workers
  BY Zenon DEF UserSteps, ResetDone, PublishTicket, AllLoaded, Fetch, Wake, Join, wdh_reader_destroy,
         wdh_get, wdh_reader_read, wdh_put, readerVars, shared, locals, Workers
<1>w. \A k \in Workers : last[k] \in Nat /\ last[k] <= ticket
  BY WorkersInReplicas, Zenon DEF ReaderTypeOK, Handshake
<1>1. CASE PublishTicket
  <2>1. upc = "publish" /\ ticket' = ticket + 1 /\ upc' = "wait" /\ done' = 0 /\ stop' = stop
    BY <1>1, Zenon DEF PublishTicket, Handshake
  <2>2. \A k \in Workers : Resting(k)
    BY <2>1, Zenon DEF Handshake, QuietBetweenReads
  <2>3. \A k \in Workers : Serving(k)' /\ ~Resting(k)' /\ last'[k] <= ticket'
    BY <1>f, <1>w, <2>1, <2>2 DEF Serving, Resting, ReaderTypeOK
  <2>4. Finished' = {}
    BY <1>f, <2>3, Zenon DEF Finished
  <2> QED BY <1>f, <2>1, <2>3, <2>4, FS_EmptySet, Zenon DEF Handshake, QuietBetweenReads
<1>2. CASE AllLoaded
  <2>1. /\ upc = "wait" /\ upc' = "fetch" /\ done >= n_workers
        /\ UNCHANGED <<mem, ticket, cur_idx, stop>>
    BY <1>2, Zenon DEF AllLoaded, shared
  <2>2. Finished = Workers
    BY <2>1, FinishedCount, Zenon DEF Handshake
  <2>3. \A k \in Workers : Resting(k) /\ Holds(k)
    BY <2>1, <2>2, Zenon DEF Handshake, Finished, Serving, Resting
  <2>4. \A k \in Workers : Resting(k)' /\ Holds(k)' /\ last'[k] <= ticket'
    BY <1>f, <1>w, <2>1, <2>3, Zenon DEF Resting, Holds
  <2> QED BY <1>f, <2>1, <2>4, Zenon DEF Handshake, QuietBetweenReads
<1>3. CASE ResetDone \/ Fetch \/ \E h \in ReadSlots : wdh_get(h) \/ wdh_reader_read(h)
  <2>1. /\ UNCHANGED <<ticket, stop>> /\ upc' \in {"idle", "reset", "publish"}
        /\ upc \in {"idle", "reset", "fetch"} /\ (upc' = "publish" => done' = 0)
    BY <1>3, Zenon DEF ResetDone, Fetch, wdh_get, wdh_reader_read, shared
  <2>2. \A k \in Workers : Resting(k)
    BY <2>1, Zenon DEF Handshake, QuietBetweenReads
  <2>3. \A k \in Workers : Resting(k)' /\ last'[k] <= ticket'
    BY <1>f, <1>w, <2>1, <2>2, Zenon DEF Resting
  <2> QED BY <1>f, <2>1, <2>3, Zenon DEF Handshake, QuietBetweenReads
<1>4. CASE \E h \in ReadSlots, v \in Values : wdh_put(h, v)
  <2>1. UNCHANGED <<ticket, stop, upc>> /\ upc = "idle"
    BY <1>4, Zenon DEF wdh_put, shared
  <2>2. \A k \in Workers : Resting(k)' /\ last'[k] <= ticket'
    BY <1>f, <1>w, <2>1, Zenon DEF Handshake, QuietBetweenReads, Resting
  <2> QED BY <1>f, <2>1, <2>2, Zenon DEF Handshake, QuietBetweenReads
<1>5. CASE wdh_reader_destroy \/ Wake \/ Join
  <2>1. upc' \in {"wake", "join", "gone"} /\ ticket' >= ticket
    BY <1>5 DEF wdh_reader_destroy, Wake, Join, shared, ReaderTypeOK
  <2>2. \A k \in Workers : last'[k] <= ticket'
    BY <1>5, <1>f, <1>w DEF wdh_reader_destroy, Wake, Join, shared, ReaderTypeOK
  <2> QED BY <1>f, <2>1, <2>2, Zenon DEF Handshake, QuietBetweenReads
<1>6. CASE UNCHANGED readerVars
  <2>1. UNCHANGED <<mem, n_workers, spawned, ticket, cur_idx, done, winner_val, stop, upc>>
    BY <1>6, Zenon DEF readerVars, shared
  <2>2. Finished' = Finished
    BY <2>1, <1>f, Zenon DEF Finished, Resting
  <2>3. \A k \in Workers : Resting(k)' = Resting(k) /\ Holds(k)' = Holds(k)
                          /\ Serving(k)' = Serving(k)
    BY <2>1, <1>f, Zenon DEF Resting, Holds, Serving
  <2> QED BY <1>f, <1>w, <2>1, <2>2, <2>3, Zenon DEF Handshake, QuietBetweenReads
<1> QED BY <1>1, <1>2, <1>3, <1>4, <1>5, <1>6, Zenon DEF UserSteps

LEMMA HandshakeStep == ReaderTypeOK /\ Handshake /\ [ReaderNext]_readerVars => (ReaderTypeOK /\ Handshake)'
BY ReaderTypeStep, HandshakeUser, HandshakeWorker, Zenon DEF ReaderNext

(* However the threads interleave, the pool is at rest between two reads   *)
(* of wdh_reader_read: no worker is copying while wdh_put writes, and none *)
(* is left that could add to the next read's done.                         *)
THEOREM PoolRests == ReaderSpec => []QuietBetweenReads
<1>1. ReaderInit => ReaderTypeOK /\ Handshake
  BY ReaderTypeInit, HandshakeInit, Zenon
<1>2. ReaderTypeOK /\ Handshake /\ [ReaderNext]_readerVars => (ReaderTypeOK /\ Handshake)'
  BY HandshakeStep, Zenon
<1>3. ReaderTypeOK /\ Handshake => QuietBetweenReads
  BY Zenon DEF Handshake
<1> QED BY <1>1, <1>2, <1>3, PTL DEF ReaderSpec

-----------------------------------------------------------------------------
LEMMA CoherentStep ==
  ASSUME CellsApart, ReaderTypeOK, Coherent, [ReaderNext]_readerVars
  PROVE  Coherent'
<1>1. ASSUME NEW h \in ReadSlots, NEW v \in Values, wdh_put(h, v)
      PROVE  Coherent'
  <2> SUFFICES ASSUME NEW j \in ReadSlots, NEW r \in Replicas
               PROVE  mem'[Cell(j, r)] = stored'[j]
    BY Zenon DEF Coherent
  <2>1. Cell(j, r) \in Cells
    BY CellInCells, Zenon
  <2>2. CASE j = h
    BY <1>1, <2>1, <2>2, Zenon DEF wdh_put, ReaderTypeOK
  <2>3. CASE j # h
    <3>1. ~ \E q \in Replicas : Cell(j, r) = Cell(h, q)
      BY <2>3, Zenon DEF CellsApart
    <3>2. mem'[Cell(j, r)] = mem[Cell(j, r)] /\ stored'[j] = stored[j]
      BY <1>1, <2>1, <2>3, <3>1, Zenon DEF wdh_put, ReaderTypeOK
    <3> QED BY <3>2, Zenon DEF Coherent
  <2> QED BY <2>2, <2>3, Zenon
<1>2. CASE UNCHANGED <<mem, stored>>
  BY <1>2, Zenon DEF Coherent
<1>3. ASSUME NEW k \in Workers, wdh_worker(k)
      PROVE  UNCHANGED <<mem, stored>>
  BY <1>3, Zenon DEF wdh_worker, Advance
<1>4. CASE UserSteps \/ wdh_reader_destroy \/ UNCHANGED readerVars
           \/ \E h \in ReadSlots : wdh_get(h) \/ wdh_reader_read(h)
  <2>1. UNCHANGED <<mem, stored>>
    BY <1>4, Zenon DEF UserSteps, ResetDone, PublishTicket, AllLoaded, Fetch, Wake, Join,
                wdh_reader_destroy, wdh_get, wdh_reader_read, readerVars
  <2> QED BY <2>1, <1>2, Zenon
<1> QED BY <1>1, <1>2, <1>3, <1>4, Zenon DEF ReaderNext

LEMMA CoherentInit == ReaderInit => Coherent
BY CellInCells DEF ReaderInit, Coherent

(* Where the placement keeps the replicas' cells apart, wdh_reader_read    *)
(* and wdh_get return what was last put into the slot.                     *)
THEOREM ReadReturns ==
  ASSUME CellsApart
  PROVE  ReaderSpec => ReadReturnsStored
<1>1. ReaderInit => ReaderIInv
  BY ReaderTypeInit, HandshakeInit, CoherentInit, Zenon DEF ReaderIInv
<1>2. ReaderIInv /\ [ReaderNext]_readerVars => ReaderIInv'
  BY HandshakeStep, CoherentStep, Zenon DEF ReaderIInv
<1>3. ReaderIInv /\ [ReaderNext]_readerVars =>
        [Fetch \/ (\E h \in ReadSlots : wdh_get(h)) => out'.val = stored[out'.slot]]_readerVars
  <2> SUFFICES ASSUME ReaderIInv, Fetch \/ \E h \in ReadSlots : wdh_get(h)
               PROVE  out'.val = stored[out'.slot]
    BY Zenon
  <2>0. 0 \in Replicas
    BY ReaderAssumption DEF Replicas
  <2>1. CASE Fetch
    <3>1. 0 \in Workers /\ cur_idx \in ReadSlots
      BY <2>1 DEF ReaderIInv, Handshake, ReaderTypeOK, Workers, Fetch
    <3>2. winner_val[0] = mem[Cell(cur_idx, 0)]
      BY <2>1, <3>1, Zenon DEF ReaderIInv, Handshake, Holds, Fetch
    <3> QED BY <2>0, <2>1, <3>1, <3>2, Zenon DEF ReaderIInv, Coherent, Fetch
  <2>2. ASSUME NEW h \in ReadSlots, wdh_get(h) PROVE out'.val = stored[out'.slot]
    BY <2>0, <2>2, Zenon DEF ReaderIInv, Coherent, wdh_get
  <2> QED BY <2>1, <2>2, Zenon
<1> QED BY <1>1, <1>2, <1>3, PTL DEF ReaderSpec, ReadReturnsStored
=============================================================================
