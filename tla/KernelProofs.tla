---------------------------- MODULE KernelProofs ----------------------------
(***************************************************************************)
(* Theorems about two structures of the kernel that an operation changes   *)
(* in several writes: the list of tasks (TaskRing) and the journal (Txfs). *)
(* The two share no state, and each part assumes the constants of its own  *)
(* only.                                                                   *)
(*                                                                         *)
(* TaskRing.  The walk from g_head is a sequence without repetitions that  *)
(* next leads around (Cycle).  With task_destroy as the only way out prev  *)
(* leads back (Doubly) and the sequence holds the tasks that are not freed *)
(* (DestroyInv); with task_reap, prev is stale, and all that holds of it   *)
(* is that g_head->prev is the last task if it is in the list (ReapInv).   *)
(***************************************************************************)
EXTENDS TaskRing, Txfs, FiniteSetTheorems, TLAPS

-----------------------------------------------------------------------------
LessNat == {ss \in Nat \X Nat : ss[1] < ss[2]}

(* A set of naturals has a least element.                                  *)
LEMMA LeastNat ==
  ASSUME NEW T \in SUBSET Nat, T # {}
  PROVE  \E n \in T : \A m \in T : n <= m
<1>1. LessNat = OpToRel(<, Nat)
  BY ZenonT(20) DEF OpToRel, LessNat
<1>2. IsWellFoundedOn(LessNat, Nat)
  BY <1>1, NatLessThanWellFounded, Zenon
<1>3. PICK n \in T : \A m \in T : ~(<<m, n>> \in LessNat)
  BY <1>2, WFMin, Zenon
<1>4. \A m \in T : ~(m < n)
  BY <1>3, Zenon DEF LessNat
<1> QED
  BY <1>4

(* Induction, for a set. *)
LEMMA Induct ==
  ASSUME NEW S, 0 \in S, \A n \in Nat : n \in S => n + 1 \in S
  PROVE  \A n \in Nat : n \in S
<1> SUFFICES ASSUME NEW x \in Nat, x \notin S
             PROVE  FALSE
  BY Zenon
<1> DEFINE T == {n \in Nat : n \notin S}
<1>1. PICK n \in T : \A m \in T : n <= m
  BY LeastNat, Zenon
<1>2. n - 1 \in Nat /\ n - 1 \notin T
  BY <1>1
<1> QED
  BY <1>1, <1>2

-----------------------------------------------------------------------------
(* The loops: each is what its definition says, step by step.              *)
LEMMA FollowSteps ==
  ASSUME NEW nx, NEW h
  PROVE  /\ Follow(nx, h)[0] = h
         /\ \A k \in 1 .. Cardinality(Blocks) : Follow(nx, h)[k] = Onward(nx, Follow(nx, h)[k - 1])
<1> DEFINE N == Cardinality(Blocks)
           S == {m \in Nat : \E g : g = [k \in 0 .. m |-> IF k = 0 THEN h ELSE Onward(nx, g[k - 1])]}
<1>0. N \in Nat
  BY TaskRingAssumption, FS_CardinalityType, Zenon
<1>1. 0 \in S
  <2>1. [k \in 0 .. 0 |-> h] = [k \in 0 .. 0 |-> IF k = 0 THEN h ELSE Onward(nx, [l \in 0 .. 0 |-> h][k - 1])]
    OBVIOUS
  <2> QED
    BY <2>1, Zenon
<1>2. ASSUME NEW m \in Nat, m \in S
      PROVE  m + 1 \in S
  <2>1. PICK g : g = [k \in 0 .. m |-> IF k = 0 THEN h ELSE Onward(nx, g[k - 1])]
    BY <1>2, Zenon
  <2> DEFINE w == [k \in 0 .. m + 1 |-> IF k = m + 1 THEN Onward(nx, g[m]) ELSE g[k]]
  <2>2. w = [k \in 0 .. m + 1 |-> IF k = 0 THEN h ELSE Onward(nx, w[k - 1])]
    <3>1. ASSUME NEW k \in 0 .. m + 1
          PROVE  w[k] = IF k = 0 THEN h ELSE Onward(nx, w[k - 1])
      <4>1. CASE k = m + 1
        BY <4>1
      <4>2. CASE k # m + 1
        <5>1. k \in 0 .. m /\ g[k] = IF k = 0 THEN h ELSE Onward(nx, g[k - 1])
          BY <2>1, <4>2
        <5> QED
          BY <5>1
      <4> QED
        BY <4>1, <4>2, Zenon
    <3> QED
      BY <3>1, Zenon
  <2> HIDE DEF w
  <2>3. m + 1 \in Nat
    OBVIOUS
  <2> QED
    BY <2>2, <2>3, Zenon
<1>3. N \in S
  <2> HIDE DEF S
  <2> QED
    BY <1>0, <1>1, <1>2, Induct, Zenon
<1>4. PICK g : g = [k \in 0 .. N |-> IF k = 0 THEN h ELSE Onward(nx, g[k - 1])]
  BY <1>3, Zenon
<1>5. Follow(nx, h) = [k \in 0 .. N |-> IF k = 0 THEN h ELSE Onward(nx, Follow(nx, h)[k - 1])]
  BY <1>4, Zenon DEF Follow
<1> QED
  BY <1>0, <1>5

(* What the loops over task_destroy have done after k tasks, from k - 1.   *)
LEMMA RemovingSteps ==
  ASSUME NEW s \in Seq(Blocks), NEW out
  PROVE  /\ Removing(s, out)[0] = Pointers
         /\ \A k \in 1 .. Len(s) : Removing(s, out)[k] = Meet(Removing(s, out)[k - 1], s[k], out)
<1> DEFINE S == {m \in Nat : \E g : g = [k \in 0 .. m |-> IF k = 0 THEN Pointers ELSE Meet(g[k - 1], s[k], out)]}
<1>0. Len(s) \in Nat
  OBVIOUS
<1>1. 0 \in S
  <2>1. [k \in 0 .. 0 |-> Pointers] =
          [k \in 0 .. 0 |-> IF k = 0 THEN Pointers ELSE Meet([l \in 0 .. 0 |-> Pointers][k - 1], s[k], out)]
    OBVIOUS
  <2> QED
    BY <2>1, Zenon
<1>2. ASSUME NEW m \in Nat, m \in S
      PROVE  m + 1 \in S
  <2>1. PICK g : g = [k \in 0 .. m |-> IF k = 0 THEN Pointers ELSE Meet(g[k - 1], s[k], out)]
    BY <1>2, Zenon
  <2> DEFINE w == [k \in 0 .. m + 1 |-> IF k = m + 1 THEN Meet(g[m], s[m + 1], out) ELSE g[k]]
  <2>2. w = [k \in 0 .. m + 1 |-> IF k = 0 THEN Pointers ELSE Meet(w[k - 1], s[k], out)]
    <3>1. ASSUME NEW k \in 0 .. m + 1
          PROVE  w[k] = IF k = 0 THEN Pointers ELSE Meet(w[k - 1], s[k], out)
      <4>1. CASE k = m + 1
        BY <4>1
      <4>2. CASE k # m + 1
        <5>1. k \in 0 .. m /\ g[k] = IF k = 0 THEN Pointers ELSE Meet(g[k - 1], s[k], out)
          BY <2>1, <4>2
        <5> QED
          BY <5>1
      <4> QED
        BY <4>1, <4>2, Zenon
    <3> QED
      BY <3>1, Zenon
  <2> HIDE DEF w
  <2>3. m + 1 \in Nat
    OBVIOUS
  <2> QED
    BY <2>2, <2>3, Zenon
<1>3. Len(s) \in S
  <2> HIDE DEF S
  <2> QED
    BY <1>0, <1>1, <1>2, Induct, Zenon
<1>4. PICK g : g = [k \in 0 .. Len(s) |-> IF k = 0 THEN Pointers ELSE Meet(g[k - 1], s[k], out)]
  BY <1>3, Zenon
<1>5. Removing(s, out) = [k \in 0 .. Len(s) |-> IF k = 0 THEN Pointers ELSE Meet(Removing(s, out)[k - 1], s[k], out)]
  BY <1>4, Zenon DEF Removing
<1> QED
  BY <1>0, <1>5

(* What task_reap's loop has done after k tasks, from k - 1.               *)
LEMMA UnlinkingSteps ==
  ASSUME NEW s \in Seq(Blocks), NEW out
  PROVE  /\ Unlinking(s, out)[0] = next
         /\ \A k \in 1 .. Len(s) : Unlinking(s, out)[k] = Pass(Unlinking(s, out)[k - 1], s[k], out)
<1> DEFINE S == {m \in Nat : \E g : g = [k \in 0 .. m |-> IF k = 0 THEN next ELSE Pass(g[k - 1], s[k], out)]}
<1>0. Len(s) \in Nat
  OBVIOUS
<1>1. 0 \in S
  <2>1. [k \in 0 .. 0 |-> next] =
          [k \in 0 .. 0 |-> IF k = 0 THEN next ELSE Pass([l \in 0 .. 0 |-> next][k - 1], s[k], out)]
    OBVIOUS
  <2> QED
    BY <2>1, Zenon
<1>2. ASSUME NEW m \in Nat, m \in S
      PROVE  m + 1 \in S
  <2>1. PICK g : g = [k \in 0 .. m |-> IF k = 0 THEN next ELSE Pass(g[k - 1], s[k], out)]
    BY <1>2, Zenon
  <2> DEFINE w == [k \in 0 .. m + 1 |-> IF k = m + 1 THEN Pass(g[m], s[m + 1], out) ELSE g[k]]
  <2>2. w = [k \in 0 .. m + 1 |-> IF k = 0 THEN next ELSE Pass(w[k - 1], s[k], out)]
    <3>1. ASSUME NEW k \in 0 .. m + 1
          PROVE  w[k] = IF k = 0 THEN next ELSE Pass(w[k - 1], s[k], out)
      <4>1. CASE k = m + 1
        BY <4>1
      <4>2. CASE k # m + 1
        <5>1. k \in 0 .. m /\ g[k] = IF k = 0 THEN next ELSE Pass(g[k - 1], s[k], out)
          BY <2>1, <4>2
        <5> QED
          BY <5>1
      <4> QED
        BY <4>1, <4>2, Zenon
    <3> QED
      BY <3>1, Zenon
  <2> HIDE DEF w
  <2>3. m + 1 \in Nat
    OBVIOUS
  <2> QED
    BY <2>2, <2>3, Zenon
<1>3. Len(s) \in S
  <2> HIDE DEF S
  <2> QED
    BY <1>0, <1>1, <1>2, Induct, Zenon
<1>4. PICK g : g = [k \in 0 .. Len(s) |-> IF k = 0 THEN next ELSE Pass(g[k - 1], s[k], out)]
  BY <1>3, Zenon
<1>5. Unlinking(s, out) = [k \in 0 .. Len(s) |-> IF k = 0 THEN next ELSE Pass(Unlinking(s, out)[k - 1], s[k], out)]
  BY <1>4, Zenon DEF Unlinking
<1> QED
  BY <1>0, <1>5

-----------------------------------------------------------------------------
(* Sequences of blocks as rings: the place after e and the place before it *)
(* among n, and the sequence without its j-th block.                       *)
After(n, e) == IF e = n THEN 1 ELSE e + 1
Ahead(n, e) == IF e = 1 THEN n ELSE e - 1
Without(s, j) == [e \in 1 .. (Len(s) - 1) |-> IF e < j THEN s[e] ELSE s[e + 1]]
Rotated(s, j) ==
  [e \in 1 .. Len(s) |-> IF e + j - 1 <= Len(s) THEN s[e + j - 1] ELSE s[e + j - 1 - Len(s)]]
Distinct(s) == s \in Seq(Blocks) /\ \A e, j \in 1 .. Len(s) : s[e] = s[j] => e = j

(* nx leads around s; pv leads around it the other way.                    *)
Cycle(nx, s) == \A e \in 1 .. Len(s) : nx[s[e]] = s[After(Len(s), e)]
Reverse(pv, s) == \A e \in 1 .. Len(s) : pv[s[After(Len(s), e)]] = s[e]

(* Where a walk ends that is back first after n blocks.                    *)
LEMMA LengthOf ==
  ASSUME NEW s, NEW n \in Nat, s \in [1 .. n -> Blocks]
  PROVE  s \in Seq(Blocks) /\ Len(s) = n /\ DOMAIN s = 1 .. n
  OBVIOUS

(* There are no more distinct blocks than blocks.                          *)
LEMMA ShortEnough ==
  ASSUME NEW s, Distinct(s)
  PROVE  Len(s) \in Nat /\ Cardinality(Blocks) \in Nat /\ Len(s) <= Cardinality(Blocks)
<1>1. Len(s) \in Nat /\ s \in [1 .. Len(s) -> Blocks]
  BY DEF Distinct
<1>2. IsFiniteSet(1 .. Len(s)) /\ Cardinality(1 .. Len(s)) = Len(s)
  BY <1>1, FS_Interval
<1>3. s \in Injection(1 .. Len(s), Blocks)
  BY <1>1, Zenon DEF Distinct, Injection, IsInjective
<1> QED
  BY <1>1, <1>2, <1>3, TaskRingAssumption, FS_Injection, FS_CardinalityType

(* A walk around a ring meets its blocks, in order.                        *)
LEMMA WalkCycle ==
  ASSUME NEW nx, NEW s, Distinct(s), Cycle(nx, s), s # <<>>
  PROVE  Walk(nx, s[1]) = s
<1> DEFINE n == Len(s)
           N == Cardinality(Blocks)
           at == Follow(nx, s[1])
<1>1. n \in Nat /\ n >= 1 /\ s \in [1 .. n -> Blocks] /\ N \in Nat /\ n <= N
  BY ShortEnough DEF Distinct
<1>2. at[0] = s[1] /\ \A k \in 1 .. N : at[k] = Onward(nx, at[k - 1])
  BY FollowSteps
<1> HIDE DEF at, n, N
<1>3. \A e \in 1 .. n : s[e] # NULL /\ nx[s[e]] = s[After(n, e)]
  BY <1>1, TaskRingAssumption, Zenon DEF Cycle, n
<1>4. \A k \in Nat : k < n => at[k] = s[k + 1]
  <2> DEFINE S == {k \in Nat : k < n => at[k] = s[k + 1]}
  <2>1. 0 \in S
    BY <1>2
  <2>2. ASSUME NEW k \in Nat, k \in S
        PROVE  k + 1 \in S
    <3> SUFFICES ASSUME k + 1 < n
                 PROVE  at[k + 1] = s[k + 2]
      OBVIOUS
    <3>1. at[k] = s[k + 1] /\ k + 1 \in 1 .. N /\ k + 1 \in 1 .. n /\ (k + 1) - 1 = k
      BY <1>1, <2>2
    <3>2. at[k + 1] = Onward(nx, s[k + 1])
      BY <1>2, <3>1, Zenon
    <3>3. nx[s[k + 1]] = s[k + 2] /\ s[k + 1] # NULL
      BY <1>1, <1>3, <3>1 DEF After
    <3> QED
      BY <3>2, <3>3, Zenon DEF Onward
  <2> HIDE DEF S
  <2>3. \A k \in Nat : k \in S
    BY <2>1, <2>2, Induct, Zenon
  <2> QED
    BY <2>3, Zenon DEF S
<1>5. at[n] = s[1]
  <2>1. n - 1 \in Nat /\ n - 1 < n /\ n \in 1 .. N /\ n \in 1 .. n /\ (n - 1) + 1 = n
    BY <1>1
  <2>2. at[n] = Onward(nx, at[n - 1]) /\ at[n - 1] = s[n]
    BY <1>2, <1>4, <2>1, Zenon
  <2> QED
    BY <1>3, <2>1, <2>2, Zenon DEF Onward, After
<1>6. Back(at) = {n} \cup {k \in Back(at) : k > n}
  <2>1. n \in Back(at)
    BY <1>1, <1>2, <1>5 DEF Back, N
  <2>2. ASSUME NEW k \in Back(at), ~(k > n), k # n
        PROVE  FALSE
    <3>1. k \in Nat /\ k < n /\ k >= 1 /\ at[k] \in {s[1], NULL}
      BY <1>1, <1>2, <2>2 DEF Back, N
    <3>2. at[k] = s[k + 1] /\ k + 1 \in 1 .. n /\ 1 \in 1 .. n /\ k + 1 # 1
      BY <1>1, <1>4, <3>1
    <3> QED
      BY <1>3, <3>1, <3>2, Zenon DEF Distinct, n
  <2> QED
    BY <2>1, <2>2, Zenon
<1>7. Length(at) = n
  <2>1. n \in Back(at) /\ \A j \in Back(at) : n <= j
    <3>1. \A j \in Back(at) : j \in Nat
      BY <1>1 DEF Back, N
    <3> QED
      BY <1>1, <1>6, <3>1
  <2>2. \A k \in Back(at) : (\A j \in Back(at) : k <= j) => k = n
    BY <1>1, <2>1 DEF Back, N
  <2> QED
    BY <2>1, <2>2, Zenon DEF Length
<1>8. [k \in 1 .. n |-> at[k - 1]] = s
  <2>1. ASSUME NEW k \in 1 .. n
        PROVE  at[k - 1] = s[k]
    BY <1>1, <1>4
  <2> QED
    BY <1>1, <2>1, Zenon
<1>9. s[1] # NULL
  BY <1>1, <1>3
<1> QED
  BY <1>7, <1>8, <1>9, Zenon DEF Walk, at

(* The walk from any block of the ring ends at the one before it.          *)
LEMMA WalkAround ==
  ASSUME NEW nx, NEW s, Distinct(s), Cycle(nx, s), NEW j \in 1 .. Len(s)
  PROVE  LET w == Walk(nx, s[j]) IN w[Len(w)] = s[Ahead(Len(s), j)]
<1> DEFINE n == Len(s)
           q == Rotated(s, j)
<1>1. n \in Nat /\ n >= 1 /\ s \in [1 .. n -> Blocks] /\ j \in 1 .. n
  BY DEF Distinct
<1> HIDE DEF n
<1> DEFINE p(e) == IF e + j - 1 <= n THEN e + j - 1 ELSE e + j - 1 - n
<1>2. \A e \in 1 .. n : p(e) \in 1 .. n /\ q[e] = s[p(e)]
  BY <1>1 DEF Rotated, n
<1>3. q \in [1 .. n -> Blocks]
  BY <1>1 DEF Rotated, n
<1>4. q \in Seq(Blocks) /\ Len(q) = n
  BY <1>1, <1>3, LengthOf, Zenon
<1>5. Distinct(q)
  <2>1. ASSUME NEW e \in 1 .. n, NEW k \in 1 .. n, q[e] = q[k]
        PROVE  e = k
    <3>1. p(e) = p(k)
      <4> HIDE DEF p, q
      <4> QED
        BY <1>2, <2>1 DEF Distinct, n
    <3> QED
      BY <1>1, <3>1
  <2> HIDE DEF q
  <2> QED
    BY <1>4, <2>1, Zenon DEF Distinct
<1>6. Cycle(nx, q)
  <2>1. ASSUME NEW e \in 1 .. n
        PROVE  nx[q[e]] = q[After(n, e)]
    <3>1. After(n, e) \in 1 .. n /\ After(n, p(e)) = p(After(n, e))
      BY <1>1 DEF After
    <3> HIDE DEF p, q
    <3>2. nx[s[p(e)]] = s[After(n, p(e))]
      BY <1>2, Zenon DEF Cycle, n
    <3> QED
      BY <1>2, <3>1, <3>2, Zenon
  <2> HIDE DEF q
  <2> QED
    BY <1>4, <2>1, Zenon DEF Cycle
<1>7. q[1] = s[j] /\ q[n] = s[Ahead(n, j)] /\ q # <<>>
  <2>1. p(1) = j /\ p(n) = Ahead(n, j) /\ 1 \in 1 .. n /\ n \in 1 .. n
    BY <1>1 DEF Ahead
  <2>2. q # <<>>
    <3> HIDE DEF q
    <3> QED
      BY <1>1, <1>4
  <2> HIDE DEF p, q
  <2> QED
    BY <1>2, <2>1, <2>2, Zenon
<1> HIDE DEF q
<1>8. Walk(nx, s[j]) = q
  BY <1>5, <1>6, <1>7, WalkCycle, Zenon
<1> QED
  BY <1>4, <1>7, <1>8, Zenon DEF n

(* Places in a sequence and in the sequence without its j-th block.        *)
Place(j, e) == IF e < j THEN e ELSE e + 1
Placed(s, j) ==
  \A e \in 1 .. (Len(s) - 1) : /\ Place(j, e) \in 1 .. Len(s) /\ Place(j, e) # j
                               /\ Without(s, j)[e] = s[Place(j, e)]
(* A sequence without its j-th element.                                    *)
LEMMA WithoutPlaces ==
  ASSUME NEW s, Distinct(s), NEW j \in 1 .. Len(s)
  PROVE  /\ Distinct(Without(s, j)) /\ Len(Without(s, j)) = Len(s) - 1
         /\ Placed(s, j)
         /\ Range(Without(s, j)) = Range(s) \ {s[j]}
<1> DEFINE n == Len(s)
           q == Without(s, j)
<1>1. n \in Nat /\ n >= 1 /\ s \in [1 .. n -> Blocks] /\ j \in 1 .. n /\ n - 1 \in Nat
  BY DEF Distinct
<1> HIDE DEF n
<1>2. \A e \in 1 .. (n - 1) : Place(j, e) \in 1 .. n /\ Place(j, e) # j /\ q[e] = s[Place(j, e)]
  BY <1>1 DEF Without, n, Place
<1>3. q \in [1 .. (n - 1) -> Blocks]
  BY <1>1 DEF Without, n
<1>4. q \in Seq(Blocks) /\ Len(q) = n - 1 /\ DOMAIN q = 1 .. (n - 1)
  BY <1>1, <1>3, LengthOf, Zenon
<1>5. \A e, k \in 1 .. (n - 1) : Place(j, e) = Place(j, k) => e = k
  BY <1>1 DEF Place
<1>6. \A k \in 1 .. n : k # j => \E e \in 1 .. (n - 1) : Place(j, e) = k
  <2>1. ASSUME NEW k \in 1 .. n, k # j
        PROVE  \E e \in 1 .. (n - 1) : Place(j, e) = k
    <3>1. CASE k < j
      <4>1. k \in 1 .. (n - 1) /\ Place(j, k) = k
        BY <1>1, <3>1 DEF Place
      <4> QED
        BY <4>1, Zenon
    <3>2. CASE ~(k < j)
      <4>1. k - 1 \in 1 .. (n - 1) /\ Place(j, k - 1) = k
        BY <1>1, <2>1, <3>2 DEF Place
      <4> QED
        BY <4>1, Zenon
    <3> QED
      BY <3>1, <3>2, Zenon
  <2> QED
    BY <2>1, Zenon
<1> HIDE DEF q
<1>d. \A e, k \in 1 .. n : s[e] = s[k] => e = k
  BY Zenon DEF Distinct, n
<1>7. Distinct(q)
  <2>1. ASSUME NEW e \in 1 .. (n - 1), NEW k \in 1 .. (n - 1), q[e] = q[k]
        PROVE  e = k
    <3>1. Place(j, e) = Place(j, k)
      BY <1>2, <1>d, <2>1, Zenon
    <3> QED
      BY <1>5, <3>1, Zenon
  <2> QED
    BY <1>4, <2>1, Zenon DEF Distinct
<1>8. Range(q) = Range(s) \ {s[j]}
  <2>1. DOMAIN s = 1 .. n
    BY <1>1, Zenon
  <2>2. ASSUME NEW b \in Range(q)
        PROVE  b \in Range(s) /\ b # s[j]
    <3>1. PICK e \in 1 .. (n - 1) : b = q[e]
      BY <1>4, Zenon DEF Range
    <3>2. Place(j, e) \in 1 .. n /\ Place(j, e) # j /\ b = s[Place(j, e)]
      BY <1>2, <3>1, Zenon
    <3>3. b # s[j]
      BY <1>1, <1>d, <3>2, Zenon
    <3> QED
      BY <2>1, <3>2, <3>3, Zenon DEF Range
  <2>3. ASSUME NEW b \in Range(s), b # s[j]
        PROVE  b \in Range(q)
    <3>1. PICK k \in 1 .. n : b = s[k]
      BY <2>1, Zenon DEF Range
    <3>2. PICK e \in 1 .. (n - 1) : Place(j, e) = k
      BY <1>6, <2>3, <3>1, Zenon
    <3>3. q[e] = b
      BY <1>2, <3>1, <3>2, Zenon
    <3> QED
      BY <1>4, <3>3, Zenon DEF Range
  <2> QED
    BY <2>2, <2>3, Zenon
<1> QED
  BY <1>2, <1>4, <1>7, <1>8, Zenon DEF n, q, Placed

(* The places around j without it.                                         *)
Around(n, j, e) ==
  /\ After(n - 1, e) \in 1 .. (n - 1)
  /\ Place(j, After(n - 1, e)) =
       IF Place(j, e) = Ahead(n, j) THEN After(n, j) ELSE After(n, Place(j, e))
  /\ (Place(j, e) = Ahead(n, j)) = (Place(j, After(n - 1, e)) = After(n, j))
(* What follows what once the j-th element is left out.                    *)
LEMMA AfterWithout ==
  ASSUME NEW n \in Nat, n > 1, NEW j \in 1 .. n, NEW e \in 1 .. (n - 1)
  PROVE  Around(n, j, e)
<1>1. CASE e < j
  BY <1>1 DEF Around, After, Ahead, Place
<1>2. CASE e >= j
  BY <1>2 DEF Around, After, Ahead, Place
<1> QED
  BY <1>1, <1>2

(* Taking the j-th block out of a ring: the block before it leads to the   *)
(* one after it, and no other block of the ring changes.                   *)
LEMMA CycleWithout ==
  ASSUME NEW nx, NEW mx, NEW s, Distinct(s), Cycle(nx, s), NEW j \in 1 .. Len(s), Len(s) > 1,
         mx[s[Ahead(Len(s), j)]] = s[After(Len(s), j)],
         \A e \in 1 .. Len(s) : e \notin {j, Ahead(Len(s), j)} => mx[s[e]] = nx[s[e]]
  PROVE  Cycle(mx, Without(s, j))
<1> DEFINE n == Len(s)
           q == Without(s, j)
<1>1. n \in Nat /\ n > 1 /\ j \in 1 .. n /\ Len(q) = n - 1
  BY WithoutPlaces DEF Distinct
<1>2. \A e \in 1 .. (n - 1) : Place(j, e) \in 1 .. n /\ Place(j, e) # j /\ q[e] = s[Place(j, e)]
  <2>1. Placed(s, j)
    BY WithoutPlaces, Zenon
  <2> QED
    BY <2>1, Zenon DEF Placed
<1> HIDE DEF n, q
<1>3. ASSUME NEW e \in 1 .. (n - 1)
      PROVE  mx[q[e]] = q[After(n - 1, e)]
  <2>1. /\ After(n - 1, e) \in 1 .. (n - 1)
        /\ Place(j, After(n - 1, e)) =
             IF Place(j, e) = Ahead(n, j) THEN After(n, j) ELSE After(n, Place(j, e))
    BY <1>1, AfterWithout, Zenon DEF Around
  <2>2. q[e] = s[Place(j, e)] /\ q[After(n - 1, e)] = s[Place(j, After(n - 1, e))]
        /\ Place(j, e) \in 1 .. n /\ Place(j, e) # j
    BY <1>2, <2>1, Zenon
  <2>3. CASE Place(j, e) = Ahead(n, j)
    BY <2>1, <2>2, <2>3, Zenon DEF n
  <2>4. CASE Place(j, e) # Ahead(n, j)
    BY <2>1, <2>2, <2>4, Zenon DEF n, Cycle
  <2> QED
    BY <2>3, <2>4, Zenon
<1> QED
  BY <1>1, <1>3, Zenon DEF Cycle, q

(* The same for the pointers back.                                         *)
LEMMA ReverseWithout ==
  ASSUME NEW pv, NEW mv, NEW s, Distinct(s), Reverse(pv, s), NEW j \in 1 .. Len(s), Len(s) > 1,
         mv[s[After(Len(s), j)]] = s[Ahead(Len(s), j)],
         \A e \in 1 .. Len(s) : e \notin {j, After(Len(s), j)} => mv[s[e]] = pv[s[e]]
  PROVE  Reverse(mv, Without(s, j))
<1> DEFINE n == Len(s)
           q == Without(s, j)
<1>1. n \in Nat /\ n > 1 /\ j \in 1 .. n /\ Len(q) = n - 1
  BY WithoutPlaces DEF Distinct
<1>2. \A e \in 1 .. (n - 1) : Place(j, e) \in 1 .. n /\ Place(j, e) # j /\ q[e] = s[Place(j, e)]
  <2>1. Placed(s, j)
    BY WithoutPlaces, Zenon
  <2> QED
    BY <2>1, Zenon DEF Placed
<1> HIDE DEF n, q
<1>3. ASSUME NEW e \in 1 .. (n - 1)
      PROVE  mv[q[After(n - 1, e)]] = q[e]
  <2>1. /\ After(n - 1, e) \in 1 .. (n - 1)
        /\ Place(j, After(n - 1, e)) =
             IF Place(j, e) = Ahead(n, j) THEN After(n, j) ELSE After(n, Place(j, e))
        /\ (Place(j, e) = Ahead(n, j)) = (Place(j, After(n - 1, e)) = After(n, j))
    BY <1>1, AfterWithout, Zenon DEF Around
  <2>2. q[e] = s[Place(j, e)] /\ q[After(n - 1, e)] = s[Place(j, After(n - 1, e))]
        /\ Place(j, e) \in 1 .. n
        /\ Place(j, After(n - 1, e)) \in 1 .. n /\ Place(j, After(n - 1, e)) # j
    BY <1>2, <2>1, Zenon
  <2>3. CASE Place(j, e) = Ahead(n, j)
    BY <2>1, <2>2, <2>3, Zenon DEF n
  <2>4. CASE Place(j, e) # Ahead(n, j)
    <3>1. mv[q[After(n - 1, e)]] = pv[s[Place(j, After(n - 1, e))]]
      BY <2>1, <2>2, <2>4 DEF n
    <3> QED
      BY <2>1, <2>2, <2>4, <3>1, Zenon DEF n, Reverse
  <2> QED
    BY <2>3, <2>4, Zenon
<1> QED
  BY <1>1, <1>3, Zenon DEF Reverse, q

-----------------------------------------------------------------------------
(* The pointers r are a doubly linked ring of the blocks of s.             *)
Maps(nx) == nx \in [Blocks -> Blocks \cup {NULL}]
Doubly(r, s) ==
  /\ Maps(r.next) /\ Maps(r.prev)
  /\ Distinct(s) /\ Cycle(r.next, s) /\ Reverse(r.prev, s)
  /\ r.head = IF s = <<>> THEN NULL ELSE s[1]

(* Places before and after one in a ring.                                  *)
LEMMA AroundPlaces ==
  ASSUME NEW n \in Nat, NEW j \in 1 .. n
  PROVE  /\ After(n, j) \in 1 .. n /\ Ahead(n, j) \in 1 .. n /\ After(n, Ahead(n, j)) = j
         /\ n > 1 => After(n, j) # j /\ Ahead(n, j) # j
  BY DEF After, Ahead

(* The pointers at a block name its neighbours in the ring.                *)
LEMMA Neighbours ==
  ASSUME NEW s, Distinct(s), NEW j \in 1 .. Len(s)
  PROVE  /\ Len(s) \in Nat /\ s \in [1 .. Len(s) -> Blocks] /\ s # <<>>
         /\ After(Len(s), j) \in 1 .. Len(s) /\ Ahead(Len(s), j) \in 1 .. Len(s)
         /\ After(Len(s), Ahead(Len(s), j)) = j
         /\ Len(s) > 1 => After(Len(s), j) # j /\ Ahead(Len(s), j) # j
<1>1. Len(s) \in Nat /\ s \in [1 .. Len(s) -> Blocks]
  BY DEF Distinct
<1>2. s # <<>>
  <2>1. Len(s) >= 1
    BY <1>1
  <2> QED
    BY <2>1
<1> QED
  BY <1>1, <1>2, AroundPlaces, Zenon

(* task_remove takes one block out of the ring.                            *)
LEMMA RemoveRing ==
  ASSUME NEW r, NEW s, Doubly(r, s), NEW j \in 1 .. Len(s)
  PROVE  Doubly(task_remove(r, s[j]), Without(s, j))
<1> DEFINE n == Len(s)
           t == s[j]
           u == task_remove(r, t)
           q == Without(s, j)
<1>1. Distinct(s) /\ Cycle(r.next, s) /\ Reverse(r.prev, s) /\ Maps(r.next) /\ Maps(r.prev)
  BY Zenon DEF Doubly
<1>2. /\ n \in Nat /\ s \in [1 .. n -> Blocks] /\ s # <<>> /\ j \in 1 .. n
      /\ After(n, j) \in 1 .. n /\ Ahead(n, j) \in 1 .. n /\ After(n, Ahead(n, j)) = j
      /\ n > 1 => After(n, j) # j /\ Ahead(n, j) # j
  BY <1>1, Neighbours, Zenon
<1>3. r.head = s[1] /\ t \in Blocks
  BY <1>2, Zenon DEF Doubly
<1>4. r.next[t] = s[After(n, j)] /\ r.prev[t] = s[Ahead(n, j)]
  BY <1>1, <1>2, Zenon DEF Cycle, Reverse
<1>5. Distinct(q) /\ Len(q) = n - 1 /\ Placed(s, j)
  BY <1>1, WithoutPlaces, Zenon
<1>6. \A e, k \in 1 .. n : s[e] = s[k] => e = k
  BY <1>1, Zenon DEF Distinct
<1> HIDE DEF n, q
<1>7. CASE n = 1
  <2>1. j = 1 /\ After(n, j) = 1
    BY <1>2, <1>7 DEF After
  <2>2. r.next[t] = t
    BY <1>4, <2>1, Zenon
  <2>3. u = [next |-> [r.next EXCEPT ![t] = NULL], prev |-> [r.prev EXCEPT ![t] = NULL], head |-> NULL]
    BY <2>2, Zenon DEF task_remove
  <2>4. Maps(u.next) /\ Maps(u.prev) /\ u.head = NULL
    <3>1. u.next = [r.next EXCEPT ![t] = NULL] /\ u.prev = [r.prev EXCEPT ![t] = NULL] /\ u.head = NULL
      BY <2>3
    <3> HIDE DEF u
    <3> QED
      BY <1>1, <1>3, <3>1 DEF Maps
  <2>5. q = <<>> /\ Len(q) = 0
    BY <1>5, <1>7 DEF Distinct
  <2>6. Cycle(u.next, q) /\ Reverse(u.prev, q)
    <3> HIDE DEF u
    <3> QED
      BY <2>5 DEF Cycle, Reverse
  <2> QED
    BY <1>5, <2>4, <2>5, <2>6, Zenon DEF Doubly, q
<1>8. CASE n # 1
  <2>1. n > 1 /\ After(n, j) # j /\ Ahead(n, j) # j
    BY <1>2, <1>8
  <2>2. r.next[t] # t
    BY <1>2, <1>4, <1>6, <2>1, Zenon
  <2>3. u = [next |-> [b \in Blocks |-> IF b = t THEN NULL ELSE IF b = r.prev[t] THEN r.next[t]
                                        ELSE r.next[b]],
             prev |-> [b \in Blocks |-> IF b = t THEN NULL ELSE IF b = r.next[t] THEN r.prev[t]
                                        ELSE r.prev[b]],
             head |-> IF r.head = t THEN r.next[t] ELSE r.head]
    BY <2>2, Zenon DEF task_remove
  <2>4. /\ \A b \in Blocks : u.next[b] = IF b = t THEN NULL ELSE IF b = r.prev[t] THEN r.next[t]
                                         ELSE r.next[b]
        /\ \A b \in Blocks : u.prev[b] = IF b = t THEN NULL ELSE IF b = r.next[t] THEN r.prev[t]
                                         ELSE r.prev[b]
        /\ u.head = IF r.head = t THEN r.next[t] ELSE r.head
    BY <2>3
  <2>5. Maps(u.next) /\ Maps(u.prev)
    BY <1>1, <1>3, <2>3 DEF Maps
  <2> HIDE DEF u
  <2>6. Cycle(u.next, q)
    <3>1. s[Ahead(n, j)] \in Blocks /\ s[Ahead(n, j)] # t
      BY <1>2, <1>6, <2>1, Zenon
    <3>2. u.next[s[Ahead(n, j)]] = s[After(n, j)]
      BY <1>4, <2>4, <3>1, Zenon
    <3>3. ASSUME NEW e \in 1 .. n, e \notin {j, Ahead(n, j)}
          PROVE  u.next[s[e]] = r.next[s[e]]
      <4>1. s[e] \in Blocks /\ s[e] # t /\ s[e] # s[Ahead(n, j)]
        BY <1>2, <1>6, <3>3
      <4> QED
        BY <1>4, <2>4, <4>1, Zenon
    <3> QED
      BY <1>1, <2>1, <3>2, <3>3, CycleWithout, Zenon DEF n, q
  <2>7. Reverse(u.prev, q)
    <3>1. s[After(n, j)] \in Blocks /\ s[After(n, j)] # t
      BY <1>2, <1>6, <2>1, Zenon
    <3>2. u.prev[s[After(n, j)]] = s[Ahead(n, j)]
      BY <1>4, <2>4, <3>1, Zenon
    <3>3. ASSUME NEW e \in 1 .. n, e \notin {j, After(n, j)}
          PROVE  u.prev[s[e]] = r.prev[s[e]]
      <4>1. s[e] \in Blocks /\ s[e] # t /\ s[e] # s[After(n, j)]
        BY <1>2, <1>6, <3>3
      <4> QED
        BY <1>4, <2>4, <4>1
    <3> QED
      BY <1>1, <2>1, <3>2, <3>3, ReverseWithout, Zenon DEF n, q
  <2>8. q # <<>> /\ q[1] = s[Place(j, 1)]
    <3>1. 1 \in 1 .. (n - 1) /\ q # <<>>
      BY <1>5, <2>1, <1>2 DEF Distinct
    <3> QED
      BY <1>5, <3>1, Zenon DEF Placed, n, q
  <2>9. u.head = q[1]
    <3>1. CASE j = 1
      <4>1. Place(j, 1) = 2 /\ After(n, j) = 2
        BY <3>1, <2>1 DEF Place, After
      <4>2. r.head = t
        BY <1>3, <3>1, Zenon
      <4>3. r.next[t] = s[2]
        BY <1>4, <4>1, Zenon
      <4>4. u.head = r.next[t]
        BY <2>4, <4>2, Zenon
      <4>5. q[1] = s[2]
        BY <2>8, <4>1, Zenon
      <4> QED
        BY <4>3, <4>4, <4>5, Zenon
    <3>2. CASE j # 1
      <4>1. Place(j, 1) = 1 /\ 1 \in 1 .. n
        BY <3>2, <1>2, <2>1 DEF Place
      <4>2. s[1] # t
        BY <1>2, <1>6, <3>2, <4>1, Zenon
      <4> QED
        BY <1>3, <2>4, <2>8, <4>1, <4>2, Zenon
    <3> QED
      BY <3>1, <3>2, Zenon
  <2> QED
    BY <1>5, <2>5, <2>6, <2>7, <2>8, <2>9, Zenon DEF Doubly, u, q
<1> QED
  BY <1>7, <1>8, Zenon

(* A block put behind the last of a ring.                                  *)
LEMMA AppendRing ==
  ASSUME NEW nx, NEW mx, NEW s, Distinct(s), Cycle(nx, s), s # <<>>,
         NEW t \in Blocks, t \notin Range(s),
         mx[t] = s[1], mx[s[Len(s)]] = t,
         \A e \in 1 .. (Len(s) - 1) : mx[s[e]] = nx[s[e]]
  PROVE  /\ Cycle(mx, Append(s, t)) /\ Distinct(Append(s, t)) /\ Append(s, t)[1] = s[1]
         /\ Len(Append(s, t)) = Len(s) + 1 /\ Append(s, t)[Len(s) + 1] = t
         /\ (\A e \in 1 .. Len(s) : Append(s, t)[e] = s[e])
         /\ Append(s, t) # <<>> /\ Range(Append(s, t)) = Range(s) \cup {t}
<1> DEFINE n == Len(s)
           q == Append(s, t)
<1>1. n \in Nat /\ n >= 1 /\ s \in [1 .. n -> Blocks] /\ DOMAIN s = 1 .. n
  BY DEF Distinct
<1>2. /\ q \in Seq(Blocks) /\ Len(q) = n + 1 /\ q[n + 1] = t /\ DOMAIN q = 1 .. (n + 1)
      /\ \A e \in 1 .. n : q[e] = s[e]
  BY DEF Distinct
<1>d. \A e, k \in 1 .. n : s[e] = s[k] => e = k
  BY Zenon DEF Distinct
<1>c. \A e \in 1 .. n : nx[s[e]] = s[After(n, e)]
  BY Zenon DEF Cycle
<1>t. \A e \in 1 .. n : s[e] # t
  BY <1>1, Zenon DEF Range
<1> HIDE DEF n, q
<1>3. Distinct(q)
  <2>1. ASSUME NEW e \in 1 .. (n + 1), NEW k \in 1 .. (n + 1), q[e] = q[k]
        PROVE  e = k
    <3>1. e \in 1 .. n \/ e = n + 1
      BY <1>1
    <3>2. k \in 1 .. n \/ k = n + 1
      BY <1>1
    <3> QED
      BY <1>2, <1>d, <1>t, <2>1, <3>1, <3>2, Zenon
  <2> QED
    BY <1>2, <2>1, Zenon DEF Distinct
<1>4. Cycle(mx, q)
  <2>1. ASSUME NEW e \in 1 .. (n + 1)
        PROVE  mx[q[e]] = q[After(n + 1, e)]
    <3>1. CASE e = n + 1
      <4>1. After(n + 1, e) = 1 /\ 1 \in 1 .. n
        BY <1>1, <3>1 DEF After
      <4> QED
        BY <1>2, <3>1, <4>1, Zenon
    <3>2. CASE e = n
      <4>1. After(n + 1, e) = n + 1 /\ e \in 1 .. n
        BY <1>1, <3>2 DEF After
      <4> QED
        BY <1>2, <3>2, <4>1, Zenon DEF n
    <3>3. CASE e < n
      <4>1. After(n + 1, e) = e + 1 /\ After(n, e) = e + 1 /\ e \in 1 .. n /\ e + 1 \in 1 .. n
            /\ e \in 1 .. (n - 1)
        BY <1>1, <3>3 DEF After
      <4> QED
        BY <1>2, <1>c, <4>1, Zenon DEF n
    <3> QED
      BY <1>1, <3>1, <3>2, <3>3
  <2> QED
    BY <1>2, <2>1, Zenon DEF Cycle
<1>5. Range(q) = Range(s) \cup {t}
  <2>1. \A e \in 1 .. (n + 1) : e \in 1 .. n \/ e = n + 1
    BY <1>1
  <2>2. n + 1 \in 1 .. (n + 1) /\ \A e \in 1 .. n : e \in 1 .. (n + 1)
    BY <1>1
  <2>3. ASSUME NEW b \in Range(q)
        PROVE  b \in Range(s) \cup {t}
    <3>1. PICK e \in 1 .. (n + 1) : b = q[e]
      BY <1>2, Zenon DEF Range
    <3> QED
      BY <1>1, <1>2, <2>1, <3>1, Zenon DEF Range
  <2>4. ASSUME NEW b \in Range(s) \cup {t}
        PROVE  b \in Range(q)
    <3>1. CASE b = t
      BY <1>2, <2>2, <3>1, Zenon DEF Range
    <3>2. CASE b \in Range(s)
      <4>1. PICK e \in 1 .. n : b = s[e]
        BY <1>1, <3>2, Zenon DEF Range
      <4> QED
        BY <1>2, <2>2, <4>1, Zenon DEF Range
    <3> QED
      BY <2>4, <3>1, <3>2, Zenon
  <2> QED
    BY <2>3, <2>4, Zenon
<1>6. 1 \in 1 .. n /\ q # <<>>
  BY <1>1, <1>2
<1> QED
  BY <1>2, <1>3, <1>4, <1>5, <1>6, Zenon DEF n, q

(* The walk of task_kill, task_exit and task_kill_all takes those of the   *)
(* tasks m that are in out from the ring.                                  *)
LEMMA DestroyRing ==
  ASSUME NEW s, Doubly(Pointers, s), NEW m, Distinct(m), Range(m) \subseteq Range(s), NEW out
  PROVE  \E q : /\ Doubly(Removing(m, out)[Len(m)], q)
                /\ Range(q) = {b \in Range(s) : b \notin Range(m) \/ b \notin out}
<1> DEFINE n == Len(m)
           r == Removing(m, out)
           Met(k) == {b \in Range(s) : b \notin out \/ \A e \in 1 .. k : b # m[e]}
           S == {k \in Nat : k <= n => \E q : Doubly(r[k], q) /\ Range(q) = Met(k)}
<1>1. n \in Nat /\ m \in Seq(Blocks) /\ DOMAIN m = 1 .. n
  BY DEF Distinct
<1>2. r[0] = Pointers /\ \A k \in 1 .. n : r[k] = Meet(r[k - 1], m[k], out)
  BY <1>1, RemovingSteps, Zenon
<1>d. \A e, k \in 1 .. n : m[e] = m[k] => e = k
  BY Zenon DEF Distinct
<1> HIDE DEF n, r
<1>3. 0 \in S
  <2>1. Met(0) = Range(s)
    OBVIOUS
  <2> HIDE DEF Met
  <2>2. Doubly(r[0], s) /\ Range(s) = Met(0)
    BY <1>2, <2>1, Zenon
  <2> QED
    BY <2>2, Zenon
<1>4. ASSUME NEW k \in Nat, k \in S
      PROVE  k + 1 \in S
  <2> SUFFICES ASSUME k + 1 <= n
               PROVE  \E q : Doubly(r[k + 1], q) /\ Range(q) = Met(k + 1)
    OBVIOUS
  <2>1. k <= n /\ k + 1 \in 1 .. n /\ (k + 1) - 1 = k /\ \A e \in 1 .. (k + 1) : e \in 1 .. k \/ e = k + 1
    BY <1>1
  <2>2. PICK q : Doubly(r[k], q) /\ Range(q) = Met(k)
    BY <1>4, <2>1, Zenon
  <2>3. r[k + 1] = Meet(r[k], m[k + 1], out)
    BY <1>2, <2>1, Zenon
  <2>m. \A e \in 1 .. k : e \in 1 .. n /\ e # k + 1 /\ e \in 1 .. (k + 1)
    BY <1>1, <2>1
  <2>n. k + 1 \in 1 .. (k + 1)
    OBVIOUS
  <2>4. CASE m[k + 1] \notin out
    <3>1. r[k + 1] = r[k]
      BY <2>3, <2>4, Zenon DEF Meet
    <3>2. Met(k + 1) = Met(k)
      BY <2>1, <2>4, <2>m, Zenon
    <3> QED
      BY <2>2, <3>1, <3>2, Zenon
  <2>5. CASE m[k + 1] \in out
    <3>1. r[k + 1] = task_remove(r[k], m[k + 1])
      BY <2>3, <2>5, Zenon DEF Meet
    <3>2. m[k + 1] \in Met(k)
      <4>1. m[k + 1] \in Range(s)
        BY <1>1, <2>1, Zenon DEF Range
      <4> QED
        BY <1>d, <2>1, <2>m, <4>1, Zenon
    <3>3. Distinct(q) /\ DOMAIN q = 1 .. Len(q)
      BY <2>2 DEF Doubly, Distinct
    <3>4. PICK j \in 1 .. Len(q) : q[j] = m[k + 1]
      <4> HIDE DEF Met
      <4> QED
        BY <2>2, <3>2, <3>3, Zenon DEF Range
    <3>5. Doubly(r[k + 1], Without(q, j))
      BY <2>2, <3>1, <3>4, RemoveRing, Zenon
    <3>6. Range(Without(q, j)) = Range(q) \ {m[k + 1]}
      BY <3>3, <3>4, WithoutPlaces, Zenon
    <3>7. Met(k + 1) = Met(k) \ {m[k + 1]}
      BY <2>1, <2>5, <2>m, <2>n, Zenon
    <3> HIDE DEF Met
    <3>8. Range(Without(q, j)) = Met(k + 1)
      BY <2>2, <3>6, <3>7, Zenon
    <3> QED
      BY <3>5, <3>8, Zenon
  <2> QED
    BY <2>4, <2>5, Zenon
<1>5. n \in S
  <2> HIDE DEF S
  <2> QED
    BY <1>1, <1>3, <1>4, Induct, Zenon
<1>6. PICK q : Doubly(r[n], q) /\ Range(q) = Met(n)
  <2> HIDE DEF Met
  <2>1. n <= n
    BY <1>1
  <2> QED
    BY <1>5, <2>1, Zenon
<1>7. Met(n) = {b \in Range(s) : b \notin Range(m) \/ b \notin out}
  BY <1>1, Zenon DEF Range
<1> QED
  BY <1>6, <1>7, Zenon DEF n, r

-----------------------------------------------------------------------------
(* The invariant while task_destroy is the only way out of the list, and   *)
(* while task_reap is.                                                     *)
Tasks == {b \in Blocks : task_state[b] # "free"}
StatesOK == task_state \in [Blocks -> {"free", "live", "dying"}]
DestroyInv ==
  /\ StatesOK /\ current \in Tasks \cup {NULL}
  /\ Doubly(Pointers, List) /\ Range(List) = Tasks
ReapInv ==
  /\ StatesOK /\ Maps(next) /\ Maps(prev) /\ head = Idle /\ task_state[Idle] = "live"
  /\ Distinct(List) /\ Cycle(next, List) /\ List # <<>> /\ List[1] = Idle
  /\ Range(List) \subseteq Tasks
  /\ prev[Idle] \in Range(List) => prev[Idle] = List[Len(List)]
RingInv ==
  /\ "task_reap" \notin ops => DestroyInv
  /\ ops \cap Destroys = {} => ReapInv

(* What a walk from the head of a ring meets.                              *)
LEMMA WalkDoubly ==
  ASSUME NEW r, NEW s, Doubly(r, s)
  PROVE  Walk(r.next, r.head) = s
<1>1. CASE s = <<>>
  <2>1. r.head = NULL
    BY <1>1, Zenon DEF Doubly
  <2> QED
    BY <1>1, <2>1, Zenon DEF Walk
<1>2. CASE s # <<>>
  <2>1. r.head = s[1] /\ Distinct(s) /\ Cycle(r.next, s)
    BY <1>2, Zenon DEF Doubly
  <2> QED
    BY <1>2, <2>1, WalkCycle, Zenon
<1> QED
  BY <1>1, <1>2, Zenon

(* The list after a step that leaves its pointers in a ring.               *)
LEMMA NewList ==
  ASSUME NEW s, Doubly(Pointers', s)
  PROVE  List' = s /\ Doubly(Pointers, List)'
<1>1. Walk(Pointers'.next, Pointers'.head) = s
  BY WalkDoubly, Zenon
<1>2. List' = s
  BY <1>1, Zenon DEF List, Pointers
<1> QED
  BY <1>2, Zenon

(* The tasks destroyed leave the list and no other does.                   *)
LEMMA DestroyStep ==
  ASSUME DestroyInv, NEW m, Distinct(m), NEW out, out \subseteq Range(m), Range(m) \subseteq Tasks,
         Destroy(m, out)
  PROVE  StatesOK' /\ Doubly(Pointers, List)' /\ Range(List') = Tasks' /\ Tasks' = Tasks \ out
<1> DEFINE r == Removing(m, out)[Len(m)]
<1>1. /\ Doubly(Pointers, List) /\ Range(List) = Tasks /\ StatesOK
  BY Zenon DEF DestroyInv
<1>2. PICK q : /\ Doubly(r, q)
               /\ Range(q) = {b \in Range(List) : b \notin Range(m) \/ b \notin out}
  <2>1. Range(m) \subseteq Range(List)
    BY <1>1, Zenon
  <2> QED
    BY <1>1, <2>1, DestroyRing
<1>3. next' = r.next /\ prev' = r.prev /\ head' = r.head /\ task_state' = Freed(out)
  BY Zenon DEF Destroy
<1> HIDE DEF r
<1>4. Doubly(Pointers', q)
  <2>1. Pointers'.next = r.next /\ Pointers'.prev = r.prev /\ Pointers'.head = r.head
    BY <1>3, Zenon DEF Pointers
  <2> QED
    BY <1>2, <2>1, Zenon DEF Doubly
<1>5. List' = q /\ Doubly(Pointers, List)'
  BY <1>4, NewList, Zenon
<1>6. Tasks' = Tasks \ out
  <2>1. \A b \in Blocks : task_state'[b] # "free" <=> task_state[b] # "free" /\ b \notin out
    BY <1>3, Zenon DEF Freed
  <2> QED
    BY <2>1, Zenon DEF Tasks
<1>7. Range(q) = Tasks \ out
  BY <1>1, <1>2, Zenon
<1>8. StatesOK'
  BY <1>1, <1>3, Zenon DEF StatesOK, Freed
<1> QED
  BY <1>5, <1>6, <1>7, <1>8, Zenon

(* The sequence of one block.                                              *)
LEMMA Single ==
  ASSUME NEW t \in Blocks
  PROVE  Distinct(<<t>>) /\ Range(<<t>>) = {t}
<1>1. <<t>> \in Seq(Blocks) /\ Len(<<t>>) = 1 /\ DOMAIN <<t>> = {1} /\ <<t>>[1] = t
  OBVIOUS
<1>2. Distinct(<<t>>)
  BY <1>1 DEF Distinct
<1>3. Range(<<t>>) = {t}
  BY <1>1, Zenon DEF Range
<1> QED
  BY <1>2, <1>3, Zenon

(* task_create in a kernel whose tasks are destroyed.                      *)
LEMMA CreateStep ==
  ASSUME DestroyInv, NEW t \in Blocks, task_create(t)
  PROVE  DestroyInv'
<1> DEFINE s == List
           q == Append(List, t)
<1>1. /\ Doubly(Pointers, s) /\ Range(s) = Tasks /\ StatesOK /\ current \in Tasks \cup {NULL}
  BY Zenon DEF DestroyInv
<1>2. /\ task_state[t] = "free" /\ head # NULL
      /\ next' = [b \in Blocks |-> IF b = prev[head] THEN t ELSE IF b = t THEN head ELSE next[b]]
      /\ prev' = [b \in Blocks |-> IF b = head THEN t ELSE IF b = t THEN prev[head] ELSE prev[b]]
      /\ task_state' = [task_state EXCEPT ![t] = "live"]
      /\ head' = head /\ current' = current
  BY Zenon DEF task_create
<1>3. t \notin Range(s)
  BY <1>1, <1>2, Zenon DEF Tasks
<1>4. /\ Maps(next) /\ Maps(prev) /\ Distinct(s) /\ Cycle(next, s) /\ Reverse(prev, s)
      /\ s # <<>> /\ head = s[1]
  <2>1. /\ Maps(next) /\ Maps(prev) /\ Distinct(s) /\ Cycle(next, s) /\ Reverse(prev, s)
        /\ head = IF s = <<>> THEN NULL ELSE s[1]
    BY <1>1, Zenon DEF Doubly, Pointers
  <2> QED
    BY <1>2, <2>1, Zenon
<1> DEFINE n == Len(s)
<1> HIDE DEF s
<1>5. /\ n \in Nat /\ n >= 1 /\ s \in [1 .. n -> Blocks] /\ DOMAIN s = 1 .. n /\ After(n, n) = 1
      /\ \A e, k \in 1 .. n : s[e] = s[k] => e = k
  BY <1>4 DEF Distinct, After
<1> HIDE DEF n
<1>6. prev[head] = s[n] /\ s[n] \in Blocks /\ head \in Blocks
  <2>1. n \in 1 .. n /\ 1 \in 1 .. n
    BY <1>5
  <2> QED
    BY <1>4, <1>5, <2>1, Zenon DEF Reverse, n
<1>t. \A e \in 1 .. n : s[e] \in Blocks /\ s[e] # t
  BY <1>3, <1>5, Zenon DEF Range
<1>7. next'[t] = s[1] /\ next'[s[n]] = t /\ \A e \in 1 .. (n - 1) : next'[s[e]] = next[s[e]]
  <2>1. \A e \in 1 .. (n - 1) : e \in 1 .. n /\ e # n
    BY <1>5
  <2>2. n \in 1 .. n
    BY <1>5
  <2>3. next'[t] = s[1]
    BY <1>2, <1>4, <1>6, <1>t, <2>2
  <2>4. next'[s[n]] = t
    BY <1>2, <1>6, Zenon
  <2>5. ASSUME NEW e \in 1 .. (n - 1)
        PROVE  next'[s[e]] = next[s[e]]
    <3>1. s[e] # s[n] /\ s[e] # t /\ s[e] \in Blocks
      BY <1>5, <1>t, <2>1, <2>2, Zenon
    <3> QED
      BY <1>2, <1>6, <3>1, Zenon
  <2> QED
    BY <2>3, <2>4, <2>5, Zenon
<1>8. /\ Cycle(next', q) /\ Distinct(q) /\ q[1] = s[1] /\ Len(q) = n + 1 /\ q[n + 1] = t
      /\ (\A e \in 1 .. n : q[e] = s[e]) /\ q # <<>> /\ Range(q) = Range(s) \cup {t}
  <2>1. next'[t] = s[1] /\ next'[s[Len(s)]] = t
        /\ \A e \in 1 .. (Len(s) - 1) : next'[s[e]] = next[s[e]]
    BY <1>7, Zenon DEF n
  <2>2. q = Append(s, t)
    BY Zenon DEF s
  <2> HIDE DEF q
  <2> QED
    BY <1>3, <1>4, <2>1, <2>2, AppendRing DEF n
<1> HIDE DEF q
<1>9. Reverse(prev', q)
  <2>1. ASSUME NEW e \in 1 .. (n + 1)
        PROVE  prev'[q[After(n + 1, e)]] = q[e]
    <3>1. CASE e = n + 1
      <4>1. After(n + 1, e) = 1
        BY <3>1, Zenon DEF After
      <4> QED
        BY <1>2, <1>4, <1>6, <1>8, <3>1, <4>1, Zenon
    <3>2. CASE e = n
      <4>1. After(n + 1, e) = n + 1 /\ n \in 1 .. n /\ 1 \in 1 .. n
        BY <1>5, <3>2 DEF After
      <4>2. t # head /\ prev'[t] = prev[head]
        BY <1>2, <1>4, <1>t, <4>1, Zenon
      <4> QED
        BY <1>6, <1>8, <3>2, <4>1, <4>2, Zenon
    <3>3. CASE e < n
      <4>1. /\ After(n + 1, e) = e + 1 /\ After(n, e) = e + 1 /\ e \in 1 .. n /\ e + 1 \in 1 .. n
            /\ 1 \in 1 .. n /\ e + 1 # 1
        BY <1>5, <3>3 DEF After
      <4>2. s[e + 1] # head /\ s[e + 1] # t /\ s[e + 1] \in Blocks
        BY <1>4, <1>5, <1>t, <4>1, Zenon
      <4>3. prev'[s[e + 1]] = prev[s[e + 1]]
        BY <1>2, <4>2, Zenon
      <4>4. prev[s[e + 1]] = s[e]
        BY <1>4, <4>1, Zenon DEF Reverse, n
      <4> QED
        BY <1>8, <4>1, <4>3, <4>4, Zenon
    <3> QED
      BY <1>5, <3>1, <3>2, <3>3
  <2> QED
    BY <1>8, <2>1, Zenon DEF Reverse
<1>10. Maps(next') /\ Maps(prev')
  BY <1>2, <1>4, <1>6, Zenon DEF Maps
<1>11. Doubly(Pointers', q)
  <2>1. Pointers'.next = next' /\ Pointers'.prev = prev' /\ Pointers'.head = head'
    BY Zenon DEF Pointers
  <2> QED
    BY <1>2, <1>4, <1>8, <1>9, <1>10, <2>1, Zenon DEF Doubly
<1>12. List' = q /\ Doubly(Pointers, List)'
  BY <1>11, NewList, Zenon
<1>13. Tasks' = Tasks \cup {t} /\ StatesOK'
  BY <1>1, <1>2, Zenon DEF Tasks, StatesOK
<1> QED
  BY <1>1, <1>2, <1>8, <1>12, <1>13, Zenon DEF DestroyInv, s

(* Every step of such a kernel keeps the ring.                             *)
LEMMA SameList ==
  ASSUME DestroyInv, UNCHANGED <<next, prev, head>>, StatesOK', Tasks' = Tasks,
         current' \in Tasks \cup {NULL}
  PROVE  DestroyInv'
<1>1. List' = List /\ Pointers' = Pointers
  BY Zenon DEF List, Pointers
<1>2. Doubly(Pointers, List) /\ Range(List) = Tasks
  BY Zenon DEF DestroyInv
<1> QED
  BY <1>1, <1>2, Zenon DEF DestroyInv

(* Every step keeps the invariant while task_reap is not called.           *)
LEMMA DestroyInvStep ==
  ASSUME DestroyInv, "task_reap" \notin ops, [RingNext]_ringVars
  PROVE  DestroyInv'
<1>0. /\ StatesOK /\ current \in Tasks \cup {NULL} /\ Range(List) = Tasks
      /\ Distinct(List) /\ Tasks \subseteq Blocks
  BY Zenon DEF DestroyInv, Doubly, Tasks
<1>1. CASE UNCHANGED ringVars
  <2>1. UNCHANGED <<next, prev, head, task_state, current>>
    BY <1>1, Zenon DEF ringVars, list
  <2>2. StatesOK' /\ Tasks' = Tasks
    BY <1>0, <2>1, Zenon DEF StatesOK, Tasks
  <2> QED
    BY <1>0, <2>1, <2>2, SameList, Zenon
<1>2. CASE task_exit
  <2>1. current \in Tasks /\ current # head /\ Destroy(<<current>>, {current}) /\ current' = head
    BY <1>0, <1>2, Zenon DEF task_exit
  <2>2. Distinct(<<current>>) /\ Range(<<current>>) = {current}
    BY <1>0, <2>1, Single, Zenon
  <2>3. /\ StatesOK' /\ Doubly(Pointers, List)' /\ Range(List') = Tasks' /\ Tasks' = Tasks \ {current}
    <3>1. {current} \subseteq Range(<<current>>) /\ Range(<<current>>) \subseteq Tasks
      BY <2>1, <2>2, Zenon
    <3> QED
      BY <2>1, <2>2, <3>1, DestroyStep, Zenon
  <2>4. head \in Tasks \cup {NULL}
    <3>1. head = IF List = <<>> THEN NULL ELSE List[1]
      BY Zenon DEF DestroyInv, Doubly, Pointers
    <3>2. CASE List # <<>>
      <4>1. 1 \in DOMAIN List
        BY <1>0, <3>2 DEF Distinct
      <4> QED
        BY <1>0, <3>1, <3>2, <4>1, Zenon DEF Range
    <3> QED
      BY <3>1, <3>2, Zenon
  <2>5. current' \in (Tasks \ {current}) \cup {NULL}
    BY <2>1, <2>4, Zenon
  <2> QED
    BY <2>3, <2>5, Zenon DEF DestroyInv
<1>3. CASE task_kill_all
  <2>1. /\ head # NULL /\ Destroy(List, Killed)
        /\ current' = IF current \in Killed THEN NULL ELSE current
    BY <1>3, Zenon DEF task_kill_all
  <2>2. Killed \subseteq Range(List)
    <3>1. head = IF List = <<>> THEN NULL ELSE List[1]
      BY Zenon DEF DestroyInv, Doubly, Pointers
    <3>2. List # <<>> /\ head = List[1]
      BY <2>1, <3>1, Zenon
    <3>3. 1 \in DOMAIN List
      BY <1>0, <3>2 DEF Distinct
    <3>4. head \in Range(List)
      BY <3>2, <3>3, Zenon DEF Range
    <3> QED
      BY <3>4, Zenon DEF Killed
  <2>3. /\ StatesOK' /\ Doubly(Pointers, List)' /\ Range(List') = Tasks' /\ Tasks' = Tasks \ Killed
    BY <1>0, <2>1, <2>2, DestroyStep, Zenon
  <2>4. current' \in (Tasks \ Killed) \cup {NULL}
    BY <1>0, <2>1, Zenon
  <2> QED
    BY <2>3, <2>4, Zenon DEF DestroyInv
<1>4. CASE task_reap
  BY <1>4, Zenon DEF task_reap
<1>5. ASSUME NEW t \in Blocks, task_create(t)
      PROVE  DestroyInv'
  BY <1>5, CreateStep, Zenon
<1>6. ASSUME NEW t \in Blocks, task_terminate(t)
      PROVE  DestroyInv'
  <2>1. /\ task_state[t] # "free" /\ task_state' = [task_state EXCEPT ![t] = "dying"]
        /\ UNCHANGED <<next, prev, head, current>>
    BY <1>6, Zenon DEF task_terminate
  <2>2. StatesOK' /\ Tasks' = Tasks
    BY <1>0, <2>1 DEF StatesOK, Tasks
  <2> QED
    BY <1>0, <2>1, <2>2, SameList, Zenon
<1>7. ASSUME NEW t \in Blocks, task_kill(t)
      PROVE  DestroyInv'
  <2>1. t \in Tasks /\ Destroy(<<t>>, {t}) /\ current' = IF t = current THEN NULL ELSE current
    BY <1>0, <1>7, Zenon DEF task_kill
  <2>2. Distinct(<<t>>) /\ Range(<<t>>) = {t}
    BY Single, Zenon
  <2>3. /\ StatesOK' /\ Doubly(Pointers, List)' /\ Range(List') = Tasks' /\ Tasks' = Tasks \ {t}
    <3>1. {t} \subseteq Range(<<t>>) /\ Range(<<t>>) \subseteq Tasks
      BY <2>1, <2>2, Zenon
    <3> QED
      BY <2>1, <2>2, <3>1, DestroyStep, Zenon
  <2>4. current' \in (Tasks \ {t}) \cup {NULL}
    BY <1>0, <2>1, Zenon
  <2> QED
    BY <2>3, <2>4, Zenon DEF DestroyInv
<1>8. ASSUME NEW t \in Blocks, Switch(t)
      PROVE  DestroyInv'
  <2>1. UNCHANGED <<next, prev, head, task_state>> /\ current' \in Tasks
    BY <1>0, <1>8, Zenon DEF Switch
  <2>2. StatesOK' /\ Tasks' = Tasks
    BY <1>0, <2>1, Zenon DEF StatesOK, Tasks
  <2> QED
    BY <2>1, <2>2, SameList, Zenon
<1> QED
  BY <1>1, <1>2, <1>3, <1>4, <1>5, <1>6, <1>7, <1>8, Zenon DEF RingNext

-----------------------------------------------------------------------------
(* task_reap's loop: Unlink takes one block from the ring.                 *)
LEMMA UnlinkRing ==
  ASSUME NEW nx, Maps(nx), NEW q, Distinct(q), Cycle(nx, q), NEW j \in 1 .. Len(q), Len(q) > 1
  PROVE  Maps(Unlink(nx, q[j])) /\ Cycle(Unlink(nx, q[j]), Without(q, j))
<1> DEFINE n == Len(q)
           mx == Unlink(nx, q[j])
<1>1. /\ n \in Nat /\ q \in [1 .. n -> Blocks] /\ j \in 1 .. n
      /\ After(n, j) \in 1 .. n /\ Ahead(n, j) \in 1 .. n /\ After(n, Ahead(n, j)) = j
      /\ After(n, j) # j /\ Ahead(n, j) # j
  BY Neighbours, Zenon
<1>2. mx = [nx EXCEPT ![q[Ahead(n, j)]] = nx[q[j]]]
  BY WalkAround, Zenon DEF Unlink
<1>3. nx[q[j]] = q[After(n, j)]
  BY <1>1, Zenon DEF Cycle
<1>d. \A e, k \in 1 .. n : q[e] = q[k] => e = k
  BY Zenon DEF Distinct
<1> HIDE DEF mx, n
<1>4. q[Ahead(n, j)] \in Blocks /\ q[After(n, j)] \in Blocks
  BY <1>1, Zenon
<1>5. Maps(mx)
  BY <1>2, <1>3, <1>4, Zenon DEF Maps
<1>6. mx[q[Ahead(n, j)]] = q[After(n, j)]
  BY <1>2, <1>3, <1>4, Zenon DEF Maps
<1>7. ASSUME NEW e \in 1 .. n, e \notin {j, Ahead(n, j)}
      PROVE  mx[q[e]] = nx[q[e]]
  <2>1. q[e] # q[Ahead(n, j)] /\ q[e] \in Blocks
    BY <1>1, <1>d, <1>7, Zenon
  <2> QED
    BY <1>2, <2>1, Zenon DEF Maps
<1>8. Cycle(mx, Without(q, j))
  BY <1>6, <1>7, CycleWithout DEF n
<1> QED
  BY <1>5, <1>8, Zenon DEF mx

(* q is s without the blocks whose places are not in I; f says where each  *)
(* of its blocks was.                                                      *)
Picks(q, f, s, I) ==
  /\ Len(q) <= Len(s) /\ f \in [1 .. Len(q) -> I] /\ Range(f) = I
  /\ \A e, k \in 1 .. Len(q) : e < k => f[e] < f[k]
  /\ \A e \in 1 .. Len(q) : q[e] = s[f[e]]

(* No place but the j-th is left out.                                      *)
LEMMA PlaceOnto ==
  ASSUME NEW n \in Nat, NEW j \in 1 .. n, NEW k \in 1 .. n, k # j
  PROVE  \E e \in 1 .. (n - 1) : Place(j, e) = k
<1>1. CASE k < j
  <2>1. k \in 1 .. (n - 1) /\ Place(j, k) = k
    BY <1>1 DEF Place
  <2> QED
    BY <2>1, Zenon
<1>2. CASE ~(k < j)
  <2>1. k - 1 \in 1 .. (n - 1) /\ Place(j, k - 1) = k
    BY <1>2 DEF Place
  <2> QED
    BY <2>1, Zenon
<1> QED
  BY <1>1, <1>2, Zenon

(* One block fewer is picked when it is left out.                          *)
LEMMA PicksFewer ==
  ASSUME NEW s \in Seq(Blocks), NEW I \in SUBSET (1 .. Len(s)), NEW q, Distinct(q), NEW f,
         Picks(q, f, s, I), NEW j \in 1 .. Len(q)
  PROVE  \E g : Picks(Without(q, j), g, s, I \ {f[j]})
<1> DEFINE n == Len(q)
           w == Without(q, j)
           J == I \ {f[j]}
           g == [e \in 1 .. (n - 1) |-> f[Place(j, e)]]
<1>1. n \in Nat /\ n >= 1 /\ n - 1 \in Nat /\ j \in 1 .. n /\ Len(s) \in Nat
  BY DEF Distinct
<1>2. Len(w) = n - 1 /\ Placed(q, j)
  BY WithoutPlaces, Zenon
<1>3. /\ n <= Len(s) /\ f \in [1 .. n -> I] /\ Range(f) = I
      /\ \A e, k \in 1 .. n : e < k => f[e] < f[k]
      /\ \A e \in 1 .. n : q[e] = s[f[e]]
  BY Zenon DEF Picks
<1> HIDE DEF n, w
<1>4. \A e \in 1 .. (n - 1) : Place(j, e) \in 1 .. n /\ Place(j, e) # j /\ w[e] = q[Place(j, e)]
  BY <1>2, Zenon DEF Placed, n, w
<1>5. \A e, k \in 1 .. (n - 1) : e < k => Place(j, e) < Place(j, k)
  BY <1>1 DEF Place
<1>6. \A e, k \in 1 .. n : e # k => f[e] # f[k]
  <2> SUFFICES ASSUME NEW e \in 1 .. n, NEW k \in 1 .. n, e # k
               PROVE  f[e] # f[k]
    BY Zenon
  <2>1. f[e] \in I /\ f[k] \in I /\ (e < k => f[e] < f[k]) /\ (k < e => f[k] < f[e])
    BY <1>3, Zenon
  <2>2. f[e] \in 1 .. Len(s) /\ f[k] \in 1 .. Len(s)
    BY <2>1, Zenon
  <2> HIDE DEF n
  <2> QED
    BY <1>1, <2>1, <2>2
<1>7. g \in [1 .. (n - 1) -> J]
  BY <1>1, <1>3, <1>4, <1>6, Zenon
<1>8. Range(g) = J
  <2>1. Range(g) \subseteq J
    BY <1>7, Zenon DEF Range
  <2>2. ASSUME NEW x \in J
        PROVE  x \in Range(g)
    <3>1. PICK k \in 1 .. n : f[k] = x
      BY <1>3, Zenon DEF Range
    <3>2. PICK e \in 1 .. (n - 1) : Place(j, e) = k
      BY <1>1, <3>1, PlaceOnto, Zenon
    <3> QED
      BY <3>1, <3>2, Zenon DEF Range
  <2> HIDE DEF g
  <2> QED
    BY <2>1, <2>2, Zenon
<1>9. \A e, k \in 1 .. (n - 1) : e < k => g[e] < g[k]
  <2> SUFFICES ASSUME NEW e \in 1 .. (n - 1), NEW k \in 1 .. (n - 1), e < k
               PROVE  g[e] < g[k]
    BY Zenon
  <2>1. Place(j, e) < Place(j, k) /\ Place(j, e) \in 1 .. n /\ Place(j, k) \in 1 .. n
    BY <1>4, <1>5, Zenon
  <2> QED
    BY <1>3, <2>1, Zenon
<1>10. \A e \in 1 .. (n - 1) : w[e] = s[g[e]]
  BY <1>3, <1>4, Zenon
<1>11. n - 1 <= Len(s)
  BY <1>1, <1>3
<1> HIDE DEF g
<1>12. Picks(w, g, s, J)
  BY <1>2, <1>7, <1>8, <1>9, <1>10, <1>11, Zenon DEF Picks
<1> QED
  BY <1>12, Zenon DEF w

(* The whole walk.                                                         *)
LEMMA ReapRing ==
  ASSUME Maps(next), NEW s, Distinct(s), Cycle(next, s), s # <<>>, NEW out, s[1] \notin out
  PROVE  \E q, f : /\ Maps(Unlinking(s, out)[Len(s)])
                   /\ Distinct(q) /\ Cycle(Unlinking(s, out)[Len(s)], q)
                   /\ Picks(q, f, s, {e \in 1 .. Len(s) : s[e] \notin out})
<1> DEFINE n == Len(s)
           nx == Unlinking(s, out)
           Left(k) == {e \in 1 .. n : s[e] \notin out \/ k < e}
           Good(k) == \E q, f : Maps(nx[k]) /\ Distinct(q) /\ Cycle(nx[k], q) /\ Picks(q, f, s, Left(k))
           S == {k \in Nat : k <= n => Good(k)}
<1>1. n \in Nat /\ n >= 1 /\ s \in Seq(Blocks) /\ s \in [1 .. n -> Blocks]
  BY DEF Distinct
<1>2. nx[0] = next /\ \A k \in 1 .. n : nx[k] = Pass(nx[k - 1], s[k], out)
  BY <1>1, UnlinkingSteps, Zenon
<1>d. \A e, k \in 1 .. n : s[e] = s[k] => e = k
  BY Zenon DEF Distinct
<1> HIDE DEF nx
<1>3. 0 \in S
  <2> DEFINE f == [e \in 1 .. n |-> e]
  <2>1. Left(0) = 1 .. n
    BY <1>1
  <2>2. Picks(s, f, s, 1 .. n)
    <3>1. f \in [1 .. n -> 1 .. n] /\ Range(f) = 1 .. n
      BY Zenon DEF Range
    <3>2. n <= n /\ (\A e, k \in 1 .. n : e < k => f[e] < f[k]) /\ \A e \in 1 .. n : s[e] = s[f[e]]
      BY <1>1
    <3> HIDE DEF f
    <3> QED
      BY <3>1, <3>2, Zenon DEF Picks
  <2> HIDE DEF f, Left
  <2>3. Good(0)
    BY <1>2, <2>1, <2>2, Zenon
  <2> QED
    BY <2>3, Zenon
<1>4. ASSUME NEW k \in Nat, k \in S
      PROVE  k + 1 \in S
  <2>0. k + 1 \in Nat
    OBVIOUS
  <2> SUFFICES ASSUME k + 1 <= n
               PROVE  Good(k + 1)
    BY <2>0, Zenon
  <2>1. k <= n /\ k + 1 \in 1 .. n /\ (k + 1) - 1 = k
    BY <1>1
  <2>2. PICK q, f : Maps(nx[k]) /\ Distinct(q) /\ Cycle(nx[k], q) /\ Picks(q, f, s, Left(k))
    <3> HIDE DEF Left
    <3> QED
      BY <1>4, <2>1, Zenon
  <2>3. nx[k + 1] = Pass(nx[k], s[k + 1], out)
    BY <1>2, <2>1
  <2>4. CASE s[k + 1] \notin out
    <3>1. nx[k + 1] = nx[k]
      BY <2>3, <2>4, Zenon DEF Pass
    <3>2. Left(k + 1) = Left(k)
      BY <1>1, <2>1, <2>4
    <3> HIDE DEF Left
    <3> QED
      BY <2>2, <3>1, <3>2, Zenon
  <2>5. CASE s[k + 1] \in out
    <3>1. nx[k + 1] = Unlink(nx[k], s[k + 1])
      BY <2>3, <2>5, Zenon DEF Pass
    <3>2. k + 1 \in Left(k) /\ 1 \in Left(k) /\ k + 1 # 1 /\ Left(k + 1) = Left(k) \ {k + 1}
      BY <1>1, <2>1, <2>5
    <3>3. Left(k) \in SUBSET (1 .. n)
      BY Zenon
    <3> HIDE DEF Left
    <3>4. /\ f \in [1 .. Len(q) -> Left(k)] /\ Range(f) = Left(k) /\ \A e \in 1 .. Len(q) : q[e] = s[f[e]]
      BY <2>2, Zenon DEF Picks
    <3>5. PICK j \in 1 .. Len(q) : f[j] = k + 1
      BY <3>2, <3>4, Zenon DEF Range
    <3>6. PICK h \in 1 .. Len(q) : f[h] = 1
      BY <3>2, <3>4, Zenon DEF Range
    <3>7. Len(q) > 1 /\ q[j] = s[k + 1]
      <4>1. Len(q) \in Nat
        BY <2>2 DEF Distinct
      <4> QED
        BY <3>2, <3>4, <3>5, <3>6, <4>1
    <3>8. Maps(Unlink(nx[k], q[j])) /\ Cycle(Unlink(nx[k], q[j]), Without(q, j))
      <4>1. Maps(nx[k]) /\ Distinct(q) /\ Cycle(nx[k], q) /\ Len(q) > 1
        BY <2>2, <3>7, Zenon
      <4> QED
        BY <4>1, UnlinkRing, Zenon
    <3>10. Maps(nx[k + 1]) /\ Cycle(nx[k + 1], Without(q, j)) /\ Distinct(Without(q, j))
      BY <2>2, <3>1, <3>7, <3>8, WithoutPlaces, Zenon
    <3>9. \E g : Picks(Without(q, j), g, s, Left(k) \ {k + 1})
      BY <1>1, <2>2, <3>3, <3>5, PicksFewer, Zenon
    <3> QED
      BY <3>2, <3>10, <3>9, Zenon
  <2> QED
    BY <2>4, <2>5, Zenon
<1>5. n \in S
  <2> HIDE DEF S, Good
  <2> QED
    BY <1>1, <1>3, <1>4, Induct, Zenon
<1>6. Good(n)
  <2>1. n <= n
    BY <1>1
  <2> HIDE DEF Good
  <2> QED
    BY <1>5, <2>1, Zenon
<1>7. Left(n) = {e \in 1 .. n : s[e] \notin out}
  BY <1>1
<1> HIDE DEF Left
<1> QED
  BY <1>6, <1>7, Zenon DEF nx

(* What a step makes of the list while next leads around q from the idle   *)
(* task, which stays the head.                                             *)
LEMMA AroundAgain ==
  ASSUME NEW q, Distinct(q), Cycle(next', q), q # <<>>, q[1] = Idle, head' = Idle
  PROVE  List' = q
BY WalkCycle, Zenon DEF List

(* The idle task is a block, and NULL is none.                             *)
LEMMA RingBlocks == Idle \in Blocks /\ NULL \notin Blocks
BY TaskRingAssumption, Zenon

(* Range in TaskList is the same operator.                                 *)
LEMMA SameRange == \A f : TheList!Range(f) = Range(f)
BY Zenon DEF TheList!Range, Range

(* Writes to blocks outside the list leave the list as it is.              *)
LEMMA SameRing ==
  ASSUME ReapInv, head' = head, \A b \in Range(List) : next'[b] = next[b]
  PROVE  List' = List /\ Cycle(next', List)
<1>1. Distinct(List) /\ Cycle(next, List) /\ List # <<>> /\ List[1] = Idle /\ head = Idle
  BY Zenon DEF ReapInv
<1>2. \A e \in 1 .. Len(List) : List[e] \in Range(List)
  <2>1. DOMAIN List = 1 .. Len(List)
    BY <1>1 DEF Distinct
  <2> QED
    BY <2>1, Zenon DEF Range
<1>3. Cycle(next', List)
  BY <1>1, <1>2, Zenon DEF Cycle
<1> QED
  BY <1>1, <1>3, AroundAgain, Zenon

(* task_create in a kernel whose tasks are reaped: g_head->prev may point  *)
(* to a task that has been unlinked.                                       *)
LEMMA ReapCreate ==
  ASSUME ReapInv, NEW t \in Blocks, task_create(t)
  PROVE  ReapInv' /\ TheList!Insert(t)
<1> DEFINE s == List
           n == Len(s)
           q == Append(s, t)
<1>1. /\ StatesOK /\ Maps(next) /\ Maps(prev) /\ head = Idle /\ task_state[Idle] = "live"
      /\ Distinct(s) /\ Cycle(next, s) /\ s # <<>> /\ s[1] = Idle /\ Range(s) \subseteq Tasks
      /\ prev[Idle] \in Range(s) => prev[Idle] = s[n]
  BY Zenon DEF ReapInv
<1>2. /\ task_state[t] = "free"
      /\ next' = [b \in Blocks |-> IF b = prev[head] THEN t ELSE IF b = t THEN head ELSE next[b]]
      /\ prev' = [b \in Blocks |-> IF b = head THEN t ELSE IF b = t THEN prev[head] ELSE prev[b]]
      /\ task_state' = [task_state EXCEPT ![t] = "live"]
      /\ head' = head /\ current' = current
  BY Zenon DEF task_create
<1>3. t \notin Range(s) /\ t # Idle
  BY <1>1, <1>2 DEF Tasks
<1>4. prev'[head'] = t /\ head' = Idle
  BY <1>1, <1>2, RingBlocks, Zenon
<1>5. Maps(next') /\ Maps(prev')
  <2>1. head \in Blocks
    BY <1>1, RingBlocks, Zenon
  <2> QED
    BY <1>1, <1>2, <2>1, Zenon DEF Maps
<1>6. StatesOK' /\ task_state'[Idle] = "live" /\ Tasks' = Tasks \cup {t}
  BY <1>1, <1>2, <1>3 DEF StatesOK, Tasks
<1>7. /\ n \in Nat /\ n >= 1 /\ s \in [1 .. n -> Blocks] /\ DOMAIN s = 1 .. n
      /\ \A e, k \in 1 .. n : s[e] = s[k] => e = k
  BY <1>1 DEF Distinct
<1>u. TheList!Insert(t) <=> (List' = IF prev[head] \in Range(List) THEN Append(List, t) ELSE List)
  BY <1>2, <1>4, SameRange, Zenon DEF TheList!Insert
<1> HIDE DEF s, n
<1>8. CASE prev[Idle] \in Range(s)
  <2>1. prev[head] = s[n]
    BY <1>1, <1>8, Zenon
  <2>2. \A e \in 1 .. n : s[e] \in Blocks /\ s[e] # t
    BY <1>3, <1>7, Zenon DEF Range
  <2>3. n \in 1 .. n /\ \A e \in 1 .. (n - 1) : e \in 1 .. n /\ e # n
    BY <1>7
  <2>4. next'[t] = s[1] /\ next'[s[n]] = t
    BY <1>1, <1>2, <2>1, <2>2, <2>3, Zenon
  <2>5. ASSUME NEW e \in 1 .. (n - 1)
        PROVE  next'[s[e]] = next[s[e]]
    <3>1. s[e] # s[n] /\ s[e] # t /\ s[e] \in Blocks
      BY <1>7, <2>2, <2>3, Zenon
    <3> QED
      BY <1>2, <2>1, <3>1, Zenon
  <2>6. /\ Cycle(next', q) /\ Distinct(q) /\ q[1] = s[1] /\ Len(q) = n + 1 /\ q[n + 1] = t
        /\ q # <<>> /\ Range(q) = Range(s) \cup {t}
    <3>1. next'[t] = s[1] /\ next'[s[Len(s)]] = t
          /\ \A e \in 1 .. (Len(s) - 1) : next'[s[e]] = next[s[e]]
      BY <2>4, <2>5, Zenon DEF n
    <3> QED
      BY <1>1, <1>3, <3>1, AppendRing DEF n
  <2> HIDE DEF q
  <2>7. List' = q
    BY <1>1, <1>4, <2>6, AroundAgain, Zenon
  <2>8. Range(q) \subseteq Tasks' /\ prev'[Idle] = q[Len(q)]
    BY <1>1, <1>4, <1>6, <2>6, Zenon
  <2>9. ReapInv'
    BY <1>1, <1>4, <1>5, <1>6, <2>6, <2>7, <2>8, Zenon DEF ReapInv
  <2> QED
    BY <1>1, <1>u, <1>8, <2>7, <2>9, Zenon DEF q, s
<1>9. CASE prev[Idle] \notin Range(s)
  <2>1. ASSUME NEW b \in Range(s)
        PROVE  next'[b] = next[b]
    <3>1. b \in Blocks /\ b # t /\ b # prev[head]
      BY <1>1, <1>3, <1>9, Zenon DEF Tasks
    <3> QED
      BY <1>2, <3>1, Zenon
  <2>2. List' = s /\ Cycle(next', s)
    BY <1>2, <2>1, SameRing, Zenon DEF s
  <2>3. ReapInv'
    BY <1>1, <1>3, <1>4, <1>5, <1>6, <2>2, Zenon DEF ReapInv
  <2> QED
    BY <1>1, <1>u, <1>9, <2>2, <2>3, Zenon DEF s
<1> QED
  BY <1>8, <1>9, Zenon

(* The kernel's task_reap, whose walk unlinks the tasks it finds DYING.    *)
LEMMA ReapReap ==
  ASSUME ReapInv, task_reap
  PROVE  ReapInv' /\ TheList!Reap
<1> DEFINE s == List
           n == Len(s)
           out == {t \in Range(s) : Dying(t)}
           I == {e \in 1 .. n : s[e] \notin out}
<1>1. /\ StatesOK /\ Maps(next) /\ Maps(prev) /\ head = Idle /\ task_state[Idle] = "live"
      /\ Distinct(s) /\ Cycle(next, s) /\ s # <<>> /\ s[1] = Idle /\ Range(s) \subseteq Tasks
      /\ prev[Idle] \in Range(s) => prev[Idle] = s[n]
  BY Zenon DEF ReapInv
<1>2. ~Dying(Idle) /\ Reaped = out
  <2>1. ~Dying(Idle)
    BY <1>1, Zenon DEF Dying
  <2> QED
    BY <1>1, <2>1, Zenon DEF Reaped
<1>3. /\ next' = Unlinking(s, out)[n] /\ head' = Idle /\ task_state' = Freed(out)
      /\ prev' = prev /\ current' = current
  BY <1>1, <1>2, Zenon DEF task_reap
<1>4. /\ n \in Nat /\ n >= 1 /\ s \in [1 .. n -> Blocks] /\ DOMAIN s = 1 .. n
      /\ \A e, k \in 1 .. n : s[e] = s[k] => e = k
  BY <1>1 DEF Distinct
<1>5. s[1] \notin out
  BY <1>1, <1>2, Zenon
<1>o. \A t : t \in out <=> t \in Range(s) /\ task_state[t] = "dying" /\ t # current
  BY Zenon DEF Dying
<1> HIDE DEF s, n, out
<1>6. PICK q, f : Maps(next') /\ Distinct(q) /\ Cycle(next', q) /\ Picks(q, f, s, I)
  <2>1. /\ Maps(next) /\ Distinct(s) /\ Cycle(next, s) /\ s # <<>> /\ s[1] \notin out
        /\ next' = Unlinking(s, out)[Len(s)] /\ I = {e \in 1 .. Len(s) : s[e] \notin out}
    BY <1>1, <1>3, <1>5, Zenon DEF n
  <2> HIDE DEF I
  <2> QED
    BY <2>1, ReapRing, Zenon
<1>7. /\ Len(q) <= n /\ f \in [1 .. Len(q) -> I] /\ Range(f) = I
      /\ \A e, k \in 1 .. Len(q) : e < k => f[e] < f[k]
      /\ \A e \in 1 .. Len(q) : q[e] = s[f[e]]
  BY <1>6, Zenon DEF Picks, n
<1>p. \A e \in 1 .. Len(q) : q[e] = s[f[e]]
  BY <1>7, Zenon
<1>f. f \in [1 .. Len(q) -> I] /\ Range(f) = I
  BY <1>7, Zenon
<1>a. \A e, k \in 1 .. Len(q) : e < k => f[e] < f[k]
  BY <1>7, Zenon
<1>8. q \in Seq(Blocks) /\ Len(q) \in Nat /\ DOMAIN q = 1 .. Len(q)
  BY <1>6 DEF Distinct
<1>9. \A e \in 1 .. Len(q) : f[e] \in 1 .. n /\ s[f[e]] \notin out
  BY <1>7, Zenon
<1>10. q # <<>> /\ q[1] = Idle /\ Len(q) >= 1
  <2>1. 1 \in I
    BY <1>4, <1>5
  <2>2. PICK h \in 1 .. Len(q) : f[h] = 1
    <3> HIDE DEF I
    <3> QED
      BY <1>f, <2>1, Zenon DEF Range
  <2>3. Len(q) >= 1 /\ 1 \in 1 .. Len(q)
    BY <1>8, <2>2
  <2>4. h = 1
    <3>1. (1 < h => f[1] < f[h]) /\ f[1] \in 1 .. n
      BY <1>a, <1>9, <2>2, <2>3, Zenon
    <3> QED
      BY <1>4, <1>8, <2>2, <3>1
  <2>5. q[1] = Idle
    <3>1. q[1] = s[f[1]] /\ f[1] = 1
      BY <1>p, <2>2, <2>4, Zenon
    <3> QED
      BY <1>1, <3>1, Zenon
  <2> QED
    BY <1>8, <2>3, <2>5
<1>11. List' = q
  BY <1>3, <1>6, <1>10, AroundAgain, Zenon
<1>12. Range(q) \subseteq Range(s) /\ Range(q) \cap out = {}
  <2>1. \A e \in 1 .. Len(q) : q[e] \in Range(s) /\ q[e] \notin out
    BY <1>4, <1>p, <1>9, Zenon DEF Range
  <2> QED
    BY <1>8, <2>1, Zenon DEF Range
<1>13. Tasks' = Tasks \ out /\ StatesOK' /\ task_state'[Idle] = "live"
  <2>1. \A b \in Blocks : task_state'[b] = IF b \in out THEN "free" ELSE task_state[b]
    BY <1>3, Zenon DEF Freed
  <2>2. Tasks' = Tasks \ out
    BY <2>1, Zenon DEF Tasks
  <2>3. StatesOK'
    BY <1>1, <1>3, Zenon DEF StatesOK, Freed
  <2> QED
    BY <1>1, <1>5, <2>1, <2>2, <2>3, RingBlocks, Zenon
<1>14. prev'[Idle] \in Range(q) => prev'[Idle] = q[Len(q)]
  <2> SUFFICES ASSUME prev[Idle] \in Range(q)
               PROVE  prev[Idle] = q[Len(q)]
    BY <1>3, Zenon
  <2>1. prev[Idle] = s[n]
    BY <1>1, <1>12, Zenon
  <2>2. PICK e \in 1 .. Len(q) : prev[Idle] = q[e]
    BY <1>8, Zenon DEF Range
  <2>3. f[e] = n
    <3>1. n \in 1 .. n
      BY <1>4
    <3> QED
      <4>1. f[e] \in 1 .. n /\ q[e] = s[f[e]]
        BY <1>p, <1>9, Zenon
      <4>2. s[f[e]] = s[n]
        BY <2>1, <2>2, <4>1, Zenon
      <4> QED
        BY <1>4, <3>1, <4>1, <4>2, Zenon
  <2>4. e = Len(q)
    <3>1. Len(q) \in 1 .. Len(q)
      BY <1>8, <1>10
    <3>2. (e < Len(q) => f[e] < f[Len(q)]) /\ f[Len(q)] \in 1 .. n
      BY <1>a, <1>9, <3>1, Zenon
    <3>3. Len(q) \in Nat /\ n \in Nat
      BY <1>4, <1>8, Zenon
    <3> QED
      BY <2>3, <3>2, <3>3
  <2> QED
    BY <2>2, <2>4, Zenon
<1>15. ReapInv'
  <2>1. Maps(prev') /\ Range(q) \subseteq Tasks'
    BY <1>1, <1>3, <1>12, <1>13, Zenon
  <2> QED
    BY <1>3, <1>6, <1>10, <1>11, <1>13, <1>14, <2>1, Zenon DEF ReapInv
<1>16. TheList!Reap
  <2>1. TheList!Kept = I
    <3>1. \A e \in 1 .. n : s[e] \in Range(s)
      BY <1>4, Zenon DEF Range
    <3>2. TheList!Kept = {e \in 1 .. n : task_state[s[e]] # "dying" \/ s[e] = current}
      BY Zenon DEF TheList!Kept, n, s
    <3> QED
      BY <1>o, <3>1, <3>2, Zenon
  <2>2. task_state' = [t \in Blocks |-> IF t \in Range(List) /\ task_state[t] = "dying" /\ t # current
                                        THEN "free" ELSE task_state[t]]
    BY <1>3, <1>o, Zenon DEF Freed, s
  <2>3. Len(q) \in 0 .. Len(List) /\ List' = [e \in 1 .. Len(q) |-> List[f[e]]]
    <3>1. Len(q) \in 0 .. n
      BY <1>4, <1>7, <1>8
    <3>2. q = [e \in 1 .. Len(q) |-> s[f[e]]]
      BY <1>7, <1>8
    <3> QED
      BY <1>11, <3>1, <3>2, Zenon DEF n, s
  <2>4. prev'[head'] = prev[head] /\ current' = current
    BY <1>1, <1>3, Zenon
  <2> HIDE DEF I
  <2> QED
    BY <1>7, <2>1, <2>2, <2>3, <2>4, SameRange, Zenon DEF TheList!Reap
<1> QED
  BY <1>15, <1>16, Zenon

(* Every step of a kernel whose tasks are reaped.                          *)
LEMMA ReapInvStep ==
  ASSUME ReapInv, ops \cap Destroys = {}, [RingNext]_ringVars
  PROVE  ReapInv' /\ (TheList!Next \/ UNCHANGED list)
<1>0. \A a \in Destroys : a \notin ops
  BY Zenon
<1>d. "task_kill" \notin ops /\ "task_exit" \notin ops /\ "task_kill_all" \notin ops
  BY <1>0, Zenon DEF Destroys
<1>s. /\ StatesOK /\ Maps(next) /\ Maps(prev) /\ head = Idle /\ task_state[Idle] = "live"
      /\ Distinct(List) /\ Cycle(next, List) /\ List # <<>> /\ List[1] = Idle
      /\ Range(List) \subseteq Tasks
      /\ prev[Idle] \in Range(List) => prev[Idle] = List[Len(List)]
  BY Zenon DEF ReapInv
<1>1. CASE UNCHANGED ringVars
  <2>1. UNCHANGED list /\ UNCHANGED <<next, prev, head, task_state, current>>
    BY <1>1, Zenon DEF ringVars, list
  <2>2. List' = List /\ Tasks' = Tasks
    BY <2>1, Zenon DEF List, Tasks
  <2> QED
    BY <1>s, <2>1, <2>2, Zenon DEF ReapInv, StatesOK
<1>2. CASE task_reap
  BY <1>2, ReapReap, Zenon DEF TheList!Next
<1>3. ASSUME NEW t \in Blocks, task_create(t)
      PROVE  ReapInv' /\ TheList!Next
  BY <1>3, ReapCreate, Zenon DEF TheList!Next
<1>4. ASSUME NEW t \in Blocks, task_terminate(t)
      PROVE  ReapInv' /\ TheList!Next
  <2>1. /\ task_state[t] # "free" /\ t # Idle /\ task_state' = [task_state EXCEPT ![t] = "dying"]
        /\ UNCHANGED <<next, prev, head, current>>
    BY <1>4, Zenon DEF task_terminate
  <2>2. StatesOK' /\ Tasks' = Tasks /\ task_state'[Idle] = "live"
    BY <1>s, <2>1, RingBlocks DEF StatesOK, Tasks
  <2>3. List' = List
    BY <2>1, Zenon DEF List
  <2>4. ReapInv'
    BY <1>s, <2>1, <2>2, <2>3, Zenon DEF ReapInv
  <2>5. TheList!Terminate(t)
    BY <1>s, <2>1, <2>3, Zenon DEF TheList!Terminate
  <2> QED
    BY <2>4, <2>5, Zenon DEF TheList!Next
<1>5. ASSUME NEW t \in Blocks, Switch(t)
      PROVE  ReapInv' /\ TheList!Next
  <2>1. UNCHANGED <<next, prev, head, task_state>> /\ current' = t /\ t \in Range(List)
    BY <1>5, Zenon DEF Switch
  <2>2. List' = List /\ Tasks' = Tasks
    BY <2>1, Zenon DEF List, Tasks
  <2>3. ReapInv'
    BY <1>s, <2>1, <2>2, Zenon DEF ReapInv, StatesOK
  <2>4. TheList!Switch
    BY <2>1, <2>2, SameRange, Zenon DEF TheList!Switch
  <2> QED
    BY <2>3, <2>4, Zenon DEF TheList!Next
<1>6. ~task_exit /\ ~task_kill_all /\ \A t : ~task_kill(t)
  BY <1>d, Zenon DEF task_exit, task_kill_all, task_kill
<1> QED
  BY <1>1, <1>2, <1>3, <1>4, <1>5, <1>6, Zenon DEF RingNext

(* The ring of the idle task alone.                                        *)
LEMMA RingInvInit ==
  ASSUME RingInit
  PROVE  RingInv
<1> DEFINE s == <<Idle>>
<1>1. Distinct(s) /\ Range(s) = {Idle}
  BY RingBlocks, Single, Zenon
<1>2. s # <<>> /\ s[1] = Idle /\ Len(s) = 1 /\ After(1, 1) = 1 /\ 1 .. 1 = {1}
  BY DEF After
<1>3. /\ next \in [Blocks -> Blocks \cup {NULL}] /\ next[Idle] = Idle /\ prev = next
      /\ head = Idle /\ current = Idle
  BY RingBlocks, Zenon DEF RingInit
<1>4. StatesOK /\ Tasks = {Idle} /\ task_state[Idle] = "live"
  BY RingBlocks, Zenon DEF RingInit, StatesOK, Tasks
<1> HIDE DEF s
<1>5. Cycle(next, s) /\ Reverse(prev, s)
  BY <1>2, <1>3, Zenon DEF Cycle, Reverse
<1>6. List = s
  BY <1>1, <1>2, <1>3, <1>5, WalkCycle, Zenon DEF List
<1>7. Pointers.next = next /\ Pointers.prev = prev /\ Pointers.head = head
  BY Zenon DEF Pointers
<1>8. DestroyInv
  BY <1>1, <1>2, <1>3, <1>4, <1>5, <1>6, <1>7, Zenon DEF DestroyInv, Doubly, Maps
<1>9. ReapInv
  BY <1>1, <1>2, <1>3, <1>4, <1>5, <1>6, Zenon DEF ReapInv, Maps
<1> QED
  BY <1>8, <1>9, Zenon DEF RingInv

(* No operation is taken up or dropped in a kernel's life.                 *)
LEMMA SameOps ==
  ASSUME [RingNext]_ringVars
  PROVE  ops' = ops
BY Zenon DEF RingNext, ringVars, task_exit, task_kill_all, task_reap, task_create, task_terminate,
             task_kill, Switch

(* Every step keeps the invariant.                                         *)
LEMMA RingInvStep ==
  ASSUME RingInv, [RingNext]_ringVars
  PROVE  RingInv'
<1>1. ops' = ops
  BY SameOps, Zenon
<1>2. Destroys' = Destroys
  BY Zenon DEF Destroys
<1>3. "task_reap" \notin ops => DestroyInv'
  BY DestroyInvStep, Zenon DEF RingInv
<1>4. ops \cap Destroys = {} => ReapInv'
  BY ReapInvStep, Zenon DEF RingInv
<1> QED
  BY <1>1, <1>2, <1>3, <1>4, Zenon DEF RingInv

(* The invariant gives what the run checks.                                *)
LEMMA RingInvSound ==
  ASSUME RingInv
  PROVE  RingSound
<1> SUFFICES ASSUME "task_reap" \notin ops
             PROVE  /\ Range(List) = {b \in Blocks : task_state[b] # "free"}
                    /\ \A b \in Range(List) : next[b] # NULL /\ prev[next[b]] = b /\ next[prev[b]] = b
  BY Zenon DEF RingSound
<1> DEFINE s == List
           n == Len(s)
<1>1. /\ Range(s) = Tasks /\ Distinct(s) /\ Cycle(next, s) /\ Reverse(prev, s)
  BY Zenon DEF RingInv, DestroyInv, Doubly, Pointers
<1> HIDE DEF s
<1>2. n \in Nat /\ DOMAIN s = 1 .. n /\ s \in [1 .. n -> Blocks]
  BY <1>1 DEF Distinct
<1>3. ASSUME NEW b \in Range(s)
      PROVE  next[b] # NULL /\ prev[next[b]] = b /\ next[prev[b]] = b
  <2>1. PICK e \in 1 .. n : b = s[e]
    BY <1>2, Zenon DEF Range
  <2>2. /\ After(n, e) \in 1 .. n /\ Ahead(n, e) \in 1 .. n /\ After(n, Ahead(n, e)) = e
    BY <1>2, AroundPlaces, Zenon
  <2>3. next[b] = s[After(n, e)] /\ prev[s[After(n, e)]] = s[e]
    BY <1>1, <2>1, Zenon DEF Cycle, Reverse
  <2>4. prev[s[e]] = s[Ahead(n, e)] /\ next[s[Ahead(n, e)]] = s[e]
    BY <1>1, <2>2, Zenon DEF Cycle, Reverse
  <2>5. s[After(n, e)] # NULL
    BY <1>2, <2>2, RingBlocks, Zenon
  <2> QED
    BY <2>1, <2>3, <2>4, <2>5, Zenon
<1>4. Range(List) = Tasks
  BY <1>1, Zenon DEF s
<1>5. \A b \in Range(List) : next[b] # NULL /\ prev[next[b]] = b /\ next[prev[b]] = b
  BY <1>3, Zenon DEF s
<1> QED
  BY <1>4, <1>5, Zenon DEF Tasks

(* In a kernel that never calls task_reap the list holds the tasks that    *)
(* are not freed, each once and in both directions, whichever of task_kill,*)
(* task_exit and task_kill_all its tasks use and whichever task is g_head. *)
THEOREM RingIsSound == RingSpec => []RingSound
<1>1. RingInit => RingInv
  BY RingInvInit, Zenon
<1>2. RingInv /\ [RingNext]_ringVars => RingInv'
  BY RingInvStep, Zenon
<1>3. RingInv => RingSound
  BY RingInvSound, Zenon
<1> QED
  BY <1>1, <1>2, <1>3, PTL DEF RingSpec

(* In a kernel whose tasks leave the list through task_reap alone, which   *)
(* writes next and leaves prev stale, every step on the pointers is a step *)
(* of TaskList on the sequence of tasks, with blocks reused freely.        *)
THEOREM RingImplementsList == RingSpec => ImplementsList
<1>1. RingInit => RingInv
  BY RingInvInit, Zenon
<1>2. RingInv /\ [RingNext]_ringVars => RingInv'
  BY RingInvStep, Zenon
<1>3. RingInv /\ [RingNext]_ringVars => [ops \cap Destroys = {} => TheList!Next]_list
  BY ReapInvStep, Zenon DEF RingInv
<1> QED
  BY <1>1, <1>2, <1>3, PTL DEF RingSpec, ImplementsList

-----------------------------------------------------------------------------
(***************************************************************************)
(* Proofs about the transaction journal of Txfs for every capacity, every  *)
(* transaction size and any number of transactions, crashes and damaged    *)
(* entries.                                                                *)
(***************************************************************************)

(* What the two headers have to do with each other.  The copy on disk is   *)
(* written only when nothing is pending between entries and committed.     *)
HeaderInv ==
  /\ disk.committed = disk.entries
  /\ disk.applied <= disk.committed
  /\ pc # "down" => /\ header.committed = disk.committed
                    /\ header.applied = disk.applied
                    /\ header.committed <= header.entries
                    /\ disk.next <= header.next

(* The active transaction has an identifier no committed entry carries. *)
TxnInv ==
  /\ pc \in {"idle", "journal", "apply"} /\ txn.active = 1 =>
       txn.id \in Ids /\ txn.id < header.next
  /\ pc \in {"idle", "journal"} /\ txn.active = 1 => disk.next <= txn.id
  /\ pc \in {"journal", "apply"} => txn.active = 1 /\ txn.ops > 0 /\ i <= txn.ops
  /\ pc = "journal" => intent[txn.id] = txn.ops
  /\ pc \in {"down", "recover"} => txn.active = 0
  /\ pc = "recover" => header.applied <= i /\ i <= header.committed

(* In phase 1 the entries past committed_count are exactly the i that this *)
(* commit has written, unless an earlier failed commit left the journal    *)
(* full, in which case this commit has written none.                       *)
PhaseInv ==
  /\ pc = "journal" =>
       \/ /\ header.entries = header.committed + i
          /\ \A m \in 1..i : journal[header.committed + m] =
                               [txn |-> txn.id, op |-> m - 1]
       \/ i = 0 /\ header.entries = Capacity
  /\ pc = "journal" /\ size = 0 => i = 0
  /\ pc \in {"apply", "recover"} => header.entries = header.committed
  /\ pc = "apply" => txn.ops <= header.entries

(* Committed entries carry identifiers below the counter on disk. *)
OldIds ==
  \A k \in 1..disk.committed : journal[k].txn \in Ids /\ journal[k].txn < disk.next

IInv ==
  TypeOK /\ HeaderInv /\ TxnInv /\ PhaseInv /\ OldIds
    /\ LeftoversFillJournal /\ Atomicity

USE DEF faults

LEMMA InitIInv == Init => IInv
  <1> SUFFICES ASSUME Init PROVE IInv
    BY Zenon
  <1> USE TxfsAssumption DEF Init, FreshHeader, NoTxn, NoEntry, Ids, Slots
  <1>1. TypeOK
    BY DEF TypeOK
  <1>2. HeaderInv /\ TxnInv /\ PhaseInv /\ OldIds /\ LeftoversFillJournal
    BY DEF HeaderInv, TxnInv, PhaseInv, OldIds, LeftoversFillJournal
  <1>3. Atomicity
    BY DEF Atomicity
  <1> QED
    BY <1>1, <1>2, <1>3, Zenon DEF IInv

(* Types. *)
LEMMA TypeStep == IInv /\ [Next]_vars => TypeOK'
  <1> SUFFICES ASSUME IInv, [Next]_vars PROVE TypeOK'
    BY Zenon
  <1> USE TxfsAssumption DEF IInv, TypeOK
  <1>1. CASE txfs_begin
    BY <1>1 DEF txfs_begin
  <1>2. CASE add_op
    BY <1>2 DEF add_op
  <1>3. CASE txfs_abort
    BY <1>3, Zenon DEF txfs_abort
  <1>4. CASE CommitEmpty
    BY <1>4, Zenon DEF CommitEmpty
  <1>5. CASE CommitStart
    BY <1>5, Zenon DEF CommitStart
  <1>6. CASE WriteEntry
    <2>1. [txn |-> txn.id, op |-> i] \in [txn : 0..MaxTxn, op : 0..MaxOps]
      BY <1>6 DEF WriteEntry
    <2>2. journal' \in [Slots -> [txn : 0..MaxTxn, op : 0..MaxOps]]
      BY <1>6, <2>1, Zenon DEF WriteEntry
    <2>3. header' \in [next : 1..(MaxTxn + 1), entries : 0..Capacity,
                       committed : 0..Capacity, applied : 0..Capacity]
      BY <1>6 DEF WriteEntry
    <2>4. i' \in Nat /\ fs' \subseteq Slots /\ corrupt' \subseteq Slots
      BY <1>6 DEF WriteEntry
    <2> QED
      BY <1>6, <2>2, <2>3, <2>4, Zenon DEF WriteEntry
  <1>7. CASE JournalFull
    BY <1>7, Zenon DEF JournalFull
  <1>8. CASE MarkCommitted
    BY <1>8, Zenon DEF MarkCommitted
  <1>9. CASE ApplyOp
    <2>0. /\ header.entries \in 0..Capacity /\ txn.ops \in Nat /\ i \in Nat
          /\ i < txn.ops /\ txn.ops <= header.entries
      BY <1>9 DEF ApplyOp, PhaseInv
    <2>1. header.entries - txn.ops + i + 1 \in Slots
      BY ONLY <2>0, TxfsAssumption DEF Slots
    <2> QED
      BY <1>9, <2>1 DEF ApplyOp
  <1>10. CASE Checkpoint
    BY <1>10, Zenon DEF Checkpoint
  <1>11. CASE Crash
    BY <1>11 DEF Crash, NoTxn
  <1>12. ASSUME NEW slot \in Slots, Rot(slot)
         PROVE TypeOK'
    BY <1>12 DEF Rot
  <1>13. CASE Mount
    BY <1>13 DEF Mount
  <1>14. CASE Replay
    <2>1. i + 1 \in Slots
      BY <1>14, SMTT(30) DEF Replay, Slots
    <2> QED
      BY <1>14, <2>1 DEF Replay
  <1>15. CASE RecoverDone
    <2>1. i \in 0..Capacity
      BY <1>15 DEF RecoverDone, TxnInv
    <2> QED
      BY <1>15, <2>1, Zenon DEF RecoverDone
  <1>16. CASE txfs_shutdown
    BY <1>16, Zenon DEF txfs_shutdown
  <1>17. CASE UNCHANGED vars
    BY <1>17, Zenon DEF vars
  <1> QED
    BY <1>1, <1>2, <1>3, <1>4, <1>5, <1>6, <1>7, <1>8, <1>9, <1>10, <1>11,
       <1>12, <1>13, <1>14, <1>15, <1>16, <1>17 DEF Next

(* Which steps can move the counters, and how. *)
LEMMA HeaderStep == IInv /\ [Next]_vars => HeaderInv' /\ LeftoversFillJournal'
  <1> SUFFICES ASSUME IInv, [Next]_vars PROVE HeaderInv' /\ LeftoversFillJournal'
    BY Zenon
  <1> USE TxfsAssumption DEF IInv, HeaderInv, LeftoversFillJournal
  <1>1. CASE txfs_begin
    BY <1>1 DEF txfs_begin, TypeOK
  <1>2. CASE add_op \/ txfs_abort \/ CommitEmpty \/ CommitStart \/ ApplyOp
    BY <1>2, Zenon DEF add_op, txfs_abort, CommitEmpty, CommitStart, ApplyOp
  <1>6. CASE WriteEntry
    BY <1>6 DEF WriteEntry, TypeOK
  <1>7. CASE JournalFull
    BY <1>7 DEF JournalFull, TypeOK, PhaseInv
  <1>8. CASE MarkCommitted
    BY <1>8 DEF MarkCommitted, TypeOK
  <1>10. CASE Checkpoint
    BY <1>10 DEF Checkpoint, TypeOK, PhaseInv
  <1>11. CASE Crash
    BY <1>11, Zenon DEF Crash
  <1>12. ASSUME NEW slot \in Slots, Rot(slot)
         PROVE HeaderInv' /\ LeftoversFillJournal'
    BY <1>12, Zenon DEF Rot
  <1>13. CASE Mount
    BY <1>13 DEF Mount, TypeOK
  <1>14. CASE Replay
    BY <1>14, Zenon DEF Replay
  <1>15. CASE RecoverDone
    BY <1>15 DEF RecoverDone, TxnInv, PhaseInv, TypeOK
  <1>16. CASE txfs_shutdown
    BY <1>16, Zenon DEF txfs_shutdown
  <1>17. CASE UNCHANGED vars
    BY <1>17, Zenon DEF vars
  <1> QED
    BY <1>1, <1>2, <1>6, <1>7, <1>8, <1>10, <1>11,
       <1>12, <1>13, <1>14, <1>15, <1>16, <1>17, Zenon DEF Next

(* The active transaction and the program counter. *)
LEMMA TxnStep == IInv /\ [Next]_vars => TxnInv'
  <1> SUFFICES ASSUME IInv, [Next]_vars PROVE TxnInv'
    BY Zenon
  <1> USE TxfsAssumption DEF IInv, TxnInv
  <1>1. CASE txfs_begin
    BY <1>1 DEF txfs_begin, TypeOK, HeaderInv, Ids
  <1>2. CASE add_op \/ txfs_abort \/ CommitEmpty \/ txfs_shutdown
    BY <1>2, Zenon DEF add_op, txfs_abort, CommitEmpty, txfs_shutdown, TypeOK
  <1>5. CASE CommitStart
    BY <1>5 DEF CommitStart, TypeOK
  <1>6. CASE WriteEntry
    BY <1>6 DEF WriteEntry, TypeOK
  <1>7. CASE JournalFull
    BY <1>7, Zenon DEF JournalFull, TypeOK
  <1>8. CASE MarkCommitted
    BY <1>8 DEF MarkCommitted, TypeOK
  <1>9. CASE ApplyOp
    BY <1>9 DEF ApplyOp, TypeOK
  <1>10. CASE Checkpoint
    BY <1>10 DEF Checkpoint, TypeOK
  <1>11. CASE Crash
    BY <1>11, Zenon DEF Crash, NoTxn
  <1>12. ASSUME NEW slot \in Slots, Rot(slot)
         PROVE TxnInv'
    BY <1>12, Zenon DEF Rot
  <1>13. CASE Mount
    BY <1>13 DEF Mount, TypeOK, HeaderInv, NoTxn
  <1>14. CASE Replay
    BY <1>14 DEF Replay, TypeOK
  <1>15. CASE RecoverDone
    BY <1>15 DEF RecoverDone, TypeOK
  <1>17. CASE UNCHANGED vars
    BY <1>17, Zenon DEF vars
  <1> QED
    BY <1>1, <1>2, <1>5, <1>6, <1>7, <1>8, <1>9, <1>10, <1>11,
       <1>12, <1>13, <1>14, <1>15, <1>17, Zenon DEF Next

(* The entries between committed_count and entry_count. *)
LEMMA PhaseStep == IInv /\ [Next]_vars => PhaseInv'
  <1> SUFFICES ASSUME IInv, [Next]_vars PROVE PhaseInv'
    BY Zenon
  <1> USE TxfsAssumption DEF IInv, PhaseInv
  <1>2. CASE txfs_begin \/ add_op \/ txfs_abort \/ CommitEmpty \/ txfs_shutdown
    BY <1>2, Zenon DEF txfs_begin, add_op, txfs_abort, CommitEmpty, txfs_shutdown
  <1>5. CASE CommitStart
    BY <1>5 DEF CommitStart, TypeOK, HeaderInv, LeftoversFillJournal
  <1>6. CASE WriteEntry
    <2>1. /\ header.entries = header.committed + i
          /\ \A m \in 1..i : journal[header.committed + m] =
                               [txn |-> txn.id, op |-> m - 1]
      BY <1>6 DEF WriteEntry, TypeOK
    <2>2. /\ header'.entries = header'.committed + i' /\ size' # 0
          /\ pc' = "journal" /\ txn' = txn
          /\ header'.committed = header.committed /\ i' = i + 1
          /\ header.committed \in Nat /\ i \in Nat
      BY <1>6, <2>1 DEF WriteEntry, TypeOK
    <2>3. header.entries + 1 \in Slots
      <3>1. /\ header.entries \in 0..Capacity /\ header.entries < size
            /\ size \in {0, Capacity}
        BY <1>6, Zenon DEF WriteEntry, TypeOK
      <3> QED
        BY ONLY <3>1, TxfsAssumption DEF Slots
    <2>4. journal' = [journal EXCEPT ![header.committed + i + 1] =
                        [txn |-> txn.id, op |-> i]]
      BY <1>6, <2>1, Zenon DEF WriteEntry
    <2>5. journal'[header.committed + i + 1] = [txn |-> txn.id, op |-> i]
      <3>1. header.committed + i + 1 \in Slots
        BY <2>1, <2>3, Zenon
      <3> QED
        BY <3>1, <2>4, Zenon DEF TypeOK
    <2>6. ASSUME NEW m \in 1..i
          PROVE journal'[header.committed + m] = [txn |-> txn.id, op |-> m - 1]
      <3>1. /\ header.committed + m # header.committed + i + 1
            /\ header.committed + m \in Slots
        BY <2>1, <2>2, <2>3 DEF Slots
      <3> QED
        BY <2>1, <2>4, <3>1, Zenon DEF TypeOK
    <2>7. ASSUME NEW m \in 1..i'
          PROVE journal'[header.committed + m] = [txn |-> txn.id, op |-> m - 1]
      <3>1. CASE m = i + 1
        <4>1. m - 1 = i /\ header.committed + m = header.committed + i + 1
          BY <2>2, <3>1
        <4> QED
          BY <2>5, <4>1, Zenon
      <3>2. CASE m # i + 1
        BY <2>2, <2>6, <3>2
      <3> QED
        BY <3>1, <3>2, Zenon
    <2> QED
      BY <2>2, <2>7, Zenon
  <1>7. CASE JournalFull
    BY <1>7, Zenon DEF JournalFull
  <1>8. CASE MarkCommitted
    BY <1>8 DEF MarkCommitted, TypeOK, TxnInv
  <1>9. CASE ApplyOp
    BY <1>9, Zenon DEF ApplyOp
  <1>10. CASE Checkpoint \/ Crash
    BY <1>10, Zenon DEF Checkpoint, Crash
  <1>12. ASSUME NEW slot \in Slots, Rot(slot)
         PROVE PhaseInv'
    BY <1>12, Zenon DEF Rot
  <1>13. CASE Mount
    BY <1>13, Zenon DEF Mount, TypeOK, HeaderInv
  <1>14. CASE Replay
    BY <1>14, Zenon DEF Replay
  <1>15. CASE RecoverDone
    BY <1>15, Zenon DEF RecoverDone
  <1>17. CASE UNCHANGED vars
    BY <1>17, Zenon DEF vars
  <1> QED
    BY <1>2, <1>5, <1>6, <1>7, <1>8, <1>9, <1>10,
       <1>12, <1>13, <1>14, <1>15, <1>17, Zenon DEF Next

(* No step but MarkCommitted moves the committed part of the journal, and  *)
(* that one only extends it.                                               *)
LEMMA CommittedStep ==
  ASSUME IInv, [Next]_vars
  PROVE  /\ disk.committed <= disk'.committed /\ disk.next <= disk'.next
         /\ \A k \in 1..disk.committed : journal'[k] = journal[k]
         /\ \A k \in 1..disk.committed :
              intent'[journal[k].txn] = intent[journal[k].txn]
         /\ MarkCommitted \/ disk'.committed = disk.committed
  <1> USE TxfsAssumption DEF IInv
  <1> DEFINE Goal == /\ disk.committed <= disk'.committed /\ disk.next <= disk'.next
                     /\ \A k \in 1..disk.committed : journal'[k] = journal[k]
                     /\ \A k \in 1..disk.committed :
                          intent'[journal[k].txn] = intent[journal[k].txn]
                     /\ MarkCommitted \/ disk'.committed = disk.committed
  <1>1. disk.committed \in Nat /\ disk.next \in Nat /\ header.next \in Nat
    BY DEF TypeOK
  <1>2. CASE disk' = disk /\ journal' = journal /\ intent' = intent
    BY <1>1, <1>2
  <1>3. CASE CommitStart
    <2>1. txn.id \in Ids /\ disk.next <= txn.id
      BY <1>3, Zenon DEF CommitStart, TxnInv
    <2>2. \A k \in 1..disk.committed : journal[k].txn # txn.id /\ journal[k].txn \in Ids
      BY <1>1, <2>1 DEF OldIds, Ids
    <2>3. intent' = [intent EXCEPT ![txn.id] = txn.ops]
          /\ disk' = disk /\ journal' = journal
      BY <1>3, Zenon DEF CommitStart
    <2> QED
      BY <1>1, <2>1, <2>2, <2>3 DEF TypeOK
  <1>4. CASE WriteEntry
    <2>1. /\ journal' = [journal EXCEPT ![header.entries + 1] =
                           [txn |-> txn.id, op |-> i]]
          /\ disk' = disk /\ intent' = intent
          /\ disk.committed <= header.entries
      BY <1>4, Zenon DEF WriteEntry, HeaderInv
    <2>2. header.entries \in 0..Capacity /\ disk.committed \in 0..Capacity
      BY Zenon DEF TypeOK
    <2>3. \A k \in 1..disk.committed : k \in Slots /\ k # header.entries + 1
      BY <2>1, <2>2 DEF Slots
    <2> QED
      BY <1>1, <2>1, <2>3 DEF TypeOK
  <1>5. CASE MarkCommitted
    BY <1>5, <1>1, Zenon DEF MarkCommitted, HeaderInv, TypeOK
  <1>6. CASE Checkpoint \/ RecoverDone
    BY <1>6, <1>1 DEF Checkpoint, RecoverDone, HeaderInv, TypeOK
  <1> QED
    BY <1>2, <1>3, <1>4, <1>5, <1>6, Zenon
    DEF Next, vars, txfs_begin, add_op, txfs_abort, CommitEmpty, JournalFull,
        ApplyOp, Crash, Rot, Mount, Replay, txfs_shutdown

LEMMA OldIdsStep == IInv /\ [Next]_vars => OldIds'
  <1> SUFFICES ASSUME IInv, [Next]_vars,
                      NEW k \in 1..disk'.committed
               PROVE  journal'[k].txn \in Ids /\ journal'[k].txn < disk'.next
    BY Zenon DEF OldIds
  <1>0. disk.committed \in Nat /\ disk.next \in Nat /\ disk'.next \in Nat
    BY TypeStep DEF IInv, TypeOK
  <1>1. CASE k \in 1..disk.committed
    <2>1. journal'[k].txn \in Ids /\ journal'[k].txn < disk.next
      BY <1>1, CommittedStep, Zenon DEF IInv, OldIds
    <2> QED
      BY <1>0, <2>1, CommittedStep, TxfsAssumption DEF Ids
  <1>2. CASE k \notin 1..disk.committed
    <2>1. MarkCommitted /\ k > disk.committed
      BY <1>0, <1>2, CommittedStep
    <2>2. journal'[k].txn = txn.id
      <3>1. /\ header.entries = header.committed + i
            /\ \A m \in 1..i : journal[header.committed + m] =
                                 [txn |-> txn.id, op |-> m - 1]
        BY <2>1 DEF IInv, MarkCommitted, PhaseInv, TxnInv
      <3>2. /\ disk'.committed = header.committed + i /\ i \in Nat
            /\ header.committed = disk.committed /\ journal' = journal
        BY <2>1, <3>1, Zenon DEF IInv, MarkCommitted, HeaderInv, TypeOK
      <3>3. k - disk.committed \in 1..i
            /\ header.committed + (k - disk.committed) = k
        BY <1>0, <2>1, <3>2
      <3>4. journal[header.committed + (k - disk.committed)] =
              [txn |-> txn.id, op |-> (k - disk.committed) - 1]
        BY <3>1, <3>3, Zenon
      <3> QED
        BY <3>2, <3>3, <3>4
    <2>3. disk'.next = header.next /\ txn.id < header.next /\ txn.id \in Ids
      BY <2>1, Zenon DEF IInv, MarkCommitted, TxnInv, TypeOK
    <2> QED
      BY <2>2, <2>3, Zenon
  <1> QED
    BY <1>1, <1>2, Zenon

LEMMA AtomicityStep == IInv /\ [Next]_vars => Atomicity'
  <1> SUFFICES ASSUME IInv, [Next]_vars
               PROVE  Atomicity'
    BY Zenon
  <1>0. /\ disk.committed \in Nat /\ disk'.committed \in Nat
        /\ disk.committed <= disk'.committed
    BY TypeStep, CommittedStep DEF IInv, TypeOK
  <1>1. \A k \in 1..disk'.committed : journal'[k].txn \in Ids
    BY OldIdsStep, Zenon DEF OldIds
  <1>2. ASSUME NEW k \in 1..disk.committed, NEW m \in Extent(k)'
        PROVE  /\ m \in 1..disk'.committed
               /\ journal'[m] = [txn |-> journal'[k].txn,
                                 op |-> journal'[k].op + m - k]
    <2>1. journal'[k] = journal[k] /\ Extent(k)' = Extent(k)
      BY CommittedStep, Zenon DEF Extent
    <2>2. /\ m \in 1..disk.committed
          /\ journal[m] = [txn |-> journal[k].txn, op |-> journal[k].op + m - k]
      BY <2>1, Zenon DEF IInv, Atomicity
    <2> QED
      BY <1>0, <2>1, <2>2, CommittedStep
  <1>3. ASSUME NEW k \in 1..disk'.committed, k \notin 1..disk.committed,
               NEW m \in Extent(k)'
        PROVE  /\ m \in 1..disk'.committed
               /\ journal'[m] = [txn |-> journal'[k].txn,
                                 op |-> journal'[k].op + m - k]
    <2> DEFINE c == disk.committed
    <2>1. MarkCommitted /\ k > c
      BY <1>0, <1>3, CommittedStep
    <2>2. /\ header.entries = header.committed + i /\ i = txn.ops
          /\ \A n \in 1..i : journal[header.committed + n] =
                               [txn |-> txn.id, op |-> n - 1]
      BY <2>1 DEF IInv, MarkCommitted, PhaseInv, TxnInv
    <2>3. /\ disk'.committed = c + i /\ i \in Nat /\ header.committed = c
          /\ journal' = journal /\ intent' = intent
      BY <2>1, <2>2, Zenon DEF IInv, MarkCommitted, HeaderInv, TypeOK
    <2>4. intent[txn.id] = i
      BY <2>1, <2>2, Zenon DEF IInv, MarkCommitted, TxnInv
    <2>5. \A n \in (c + 1)..(c + i) :
            journal[n] = [txn |-> txn.id, op |-> n - c - 1]
      <3> SUFFICES ASSUME NEW n \in (c + 1)..(c + i)
                   PROVE  journal[n] = [txn |-> txn.id, op |-> n - c - 1]
        BY Zenon
      <3>1. n - c \in 1..i /\ c + (n - c) = n
        BY <1>0, <2>3
      <3>2. journal[header.committed + (n - c)] =
              [txn |-> txn.id, op |-> (n - c) - 1]
        BY <2>2, <3>1, Zenon
      <3> QED
        BY <2>3, <3>1, <3>2, Zenon
    <2>6. k \in (c + 1)..(c + i)
      BY <1>0, <2>1, <2>3
    <2>7. journal[k] = [txn |-> txn.id, op |-> k - c - 1]
      BY <2>5, <2>6, Zenon
    <2>8. Extent(k)' = (k - (k - c - 1))..((k - (k - c - 1)) + i - 1)
      BY <2>3, <2>4, <2>7 DEF Extent
    <2>9. m \in (c + 1)..(c + i)
      BY <1>0, <1>3, <2>3, <2>6, <2>8
    <2>10. journal[m] = [txn |-> txn.id, op |-> m - c - 1]
      BY <2>5, <2>9, Zenon
    <2>11. m - c - 1 = (k - c - 1) + m - k /\ m \in 1..disk'.committed
      BY <1>0, <2>3, <2>6, <2>9
    <2> QED
      BY <2>3, <2>7, <2>10, <2>11
  <1> QED
    BY <1>1, <1>2, <1>3, Zenon DEF Atomicity

LEMMA Inductive == Spec => []IInv
  <1>1. Init => IInv
    BY InitIInv, Zenon
  <1>2. IInv /\ [Next]_vars => IInv'
    BY TypeStep, HeaderStep, TxnStep, PhaseStep, OldIdsStep, AtomicityStep, Zenon DEF IInv
  <1> QED
    BY <1>1, <1>2, PTL DEF Spec

(* For every journal size and any crashes and failed commits, the counters *)
(* and indexes stay in range: no entry is ever written past the journal.   *)
THEOREM TypeCorrect == Spec => []TypeOK
  BY Inductive, PTL DEF IInv

(* txfs_commit is atomic: what the journal marks committed is always a     *)
(* series of whole transactions.                                           *)
THEOREM AtomicityHolds == Spec => []Atomicity
  BY Inductive, PTL DEF IInv

(* A failed commit can only leave entries behind in a journal they fill.   *)
THEOREM LeftoversHold == Spec => []LeftoversFillJournal
  BY Inductive, PTL DEF IInv

(* A committed entry is never overwritten and never becomes uncommitted.   *)
THEOREM CommittedFinalHolds == Spec => CommittedFinal
  <1>1. IInv /\ [Next]_vars =>
          [/\ disk.committed <= disk'.committed
           /\ \A k \in 1..disk.committed : journal'[k] = journal[k]]_vars
    BY CommittedStep, Zenon
  <1> QED
    BY <1>1, Inductive, PTL DEF Spec, CommittedFinal

-----------------------------------------------------------------------------
(* Applied entries.  While nothing is damaged, everything committed is     *)
(* applied whenever neither a commit's phase 3 nor a recovery is running,  *)
(* and in those the entries behind the loop index are performed.  A crash  *)
(* in phase 3 leaves applied_count where the recovery must begin.          *)
PerformedInv ==
  rots = 0 =>
    /\ corrupt = {}
    /\ 1..disk.applied \subseteq fs
    /\ pc \in {"idle", "journal"} => disk.applied = disk.committed
    /\ pc = "apply" => 1..(header.committed - txn.ops + i) \subseteq fs
    /\ pc = "recover" => 1..i \subseteq fs

LEMMA PerformedStep == IInv /\ PerformedInv /\ [Next]_vars => PerformedInv'
  <1> SUFFICES ASSUME IInv, PerformedInv, [Next]_vars, rots' = 0
               PROVE  PerformedInv'
    BY Zenon DEF PerformedInv
  <1>0. rots = 0 /\ \A slot \in Slots : ~Rot(slot)
    <2>1. rots \in Nat
      BY TxfsAssumption DEF IInv, TypeOK
    <2>2. \A slot \in Slots : ~Rot(slot)
      BY <2>1 DEF Rot
    <2> QED
      BY <2>1, <2>2 DEF Next, vars, txfs_begin, add_op, txfs_abort, CommitEmpty,
         CommitStart, WriteEntry, JournalFull, MarkCommitted, ApplyOp, Checkpoint,
         Crash, Mount, Replay, RecoverDone, txfs_shutdown
  <1>t. /\ disk.applied \in Nat /\ disk.committed \in Nat /\ i \in Nat
        /\ header.entries \in Nat /\ header.committed \in Nat
        /\ header.applied \in Nat /\ txn.ops \in Nat
    BY TxfsAssumption DEF IInv, TypeOK
  <1> USE <1>0, <1>t DEF IInv, PerformedInv
  <1>1. CASE txfs_begin \/ add_op \/ txfs_abort \/ CommitEmpty \/ CommitStart
             \/ JournalFull \/ Crash \/ txfs_shutdown \/ UNCHANGED vars
    BY <1>1, Zenon DEF txfs_begin, add_op, txfs_abort, CommitEmpty, CommitStart,
       JournalFull, Crash, txfs_shutdown, vars
  <1>2. CASE WriteEntry
    <2>1. /\ fs' = fs \ {header.entries + 1} /\ corrupt' = corrupt \ {header.entries + 1}
          /\ disk' = disk /\ pc' = "journal" /\ pc = "journal"
      BY <1>2, Zenon DEF WriteEntry
    <2>2. disk.applied <= header.entries
      BY <2>1, Zenon DEF HeaderInv
    <2> QED
      BY <2>1, <2>2
  <1>3. CASE MarkCommitted
    <2>1. /\ header'.committed = header.entries /\ disk'.applied = header.applied
          /\ pc = "journal" /\ i = txn.ops /\ pc' = "apply" /\ i' = 0
          /\ fs' = fs /\ txn' = txn /\ corrupt' = corrupt
      BY <1>3, Zenon DEF MarkCommitted, TypeOK
    <2>2. header.applied = disk.applied /\ header.committed = disk.committed
      BY <2>1, Zenon DEF HeaderInv
    <2>3. header.entries = header.committed + i
      BY <2>1 DEF PhaseInv, TxnInv
    <2> QED
      BY <2>1, <2>2, <2>3
  <1>4. CASE ApplyOp
    <2>1. /\ pc = "apply" /\ header.entries = header.committed
          /\ txn.ops <= header.entries
      BY <1>4, Zenon DEF ApplyOp, PhaseInv
    <2> QED
      BY <1>4, <2>1 DEF ApplyOp
  <1>5. CASE Checkpoint
    <2>1. /\ disk'.applied = header.committed /\ disk'.committed = header.committed
          /\ pc = "apply" /\ i = txn.ops /\ pc' = "idle"
          /\ fs' = fs /\ corrupt' = corrupt
      BY <1>5, Zenon DEF Checkpoint, TypeOK
    <2> QED
      BY <2>1
  <1>6. CASE Mount
    BY <1>6, Zenon DEF Mount
  <1>7. CASE Replay
    BY <1>7 DEF Replay
  <1>8. CASE RecoverDone
    <2>1. /\ disk'.applied = i /\ disk'.committed = header.committed
          /\ pc = "recover" /\ i = header.committed /\ pc' = "idle"
          /\ fs' = fs /\ corrupt' = corrupt
      BY <1>8, Zenon DEF RecoverDone, TypeOK
    <2> QED
      BY <2>1, Zenon
  <1> QED
    BY <1>1, <1>2, <1>3, <1>4, <1>5, <1>6, <1>7, <1>8, Zenon DEF Next

(* applied_count never runs ahead of the filesystem: while no entry is     *)
(* damaged, every entry that the counter, in memory or in the copy a mount *)
(* would read, calls applied has been performed, wherever a crash fell.    *)
THEOREM AppliedHolds == Spec => []AppliedUndamaged
  <1>1. Init => PerformedInv
    BY DEF Init, PerformedInv, FreshHeader
  <1>2. IInv /\ PerformedInv => AppliedUndamaged
    BY Zenon DEF IInv, PerformedInv, HeaderInv, AppliedUndamaged, AppliedPerformed
  <1> QED
    BY <1>1, <1>2, Inductive, PerformedStep, PTL DEF Spec

HIDE DEF faults
=============================================================================
