----------------------------- MODULE WheelProofs -----------------------------
(***************************************************************************)
(* Theorems about TimerWheel, for any number of levels, slots and entries. *)
(*                                                                         *)
(* EntriesExact rests on Once(w, S): the wheel w holds the entries of S,   *)
(* each at one place of one slot.  Unhooking a slot takes its entries out  *)
(* of S, the loop over the unhooked list puts them back one by one, so a   *)
(* cascade and a tick keep the set but for what was due.                   *)
(*                                                                         *)
(* ImplementsQueue rests on OnTime(e, l, s, t, slipped): at time t the     *)
(* slot s of level l is the one of e's expiry, and the turn at which it is *)
(* emptied is still to come.  A tick empties on every level the one slot   *)
(* whose turn it is, so what stays where it was stays on time; what is     *)
(* moved is placed by its distance from now, which is on time again; and   *)
(* what level 0 sweeps is due at that tick.                                *)
(***************************************************************************)
EXTENDS TimerWheel, FiniteSetTheorems, TLAPS

(* Every non-empty set of naturals has a least element. *)
LessNat == {x \in Nat \X Nat : x[1] < x[2]}
LEMMA LeastNat ==
  ASSUME NEW T \in SUBSET Nat, T # {}
  PROVE  \E n \in T : \A m \in T : n <= m
<1>1. LessNat = OpToRel(<, Nat)
  BY ZenonT(20) DEF OpToRel, LessNat
<1>2. IsWellFoundedOn(LessNat, Nat)
  BY <1>1, NatLessThanWellFounded, Zenon
<1>3. PICK n \in T : \A m \in T : ~(<<m, n>> \in LessNat)
  BY <1>2, WFMin, Zenon
<1>4. \A m \in T : ~(m < n)
  BY <1>3, Zenon DEF LessNat
<1> QED
  BY <1>4

(* Induction, for a set. *)
LEMMA Induct ==
  ASSUME NEW S, 0 \in S, \A n \in Nat : n \in S => n + 1 \in S
  PROVE  \A n \in Nat : n \in S
<1> SUFFICES ASSUME NEW x \in Nat, x \notin S
             PROVE  FALSE
  BY Zenon
<1> DEFINE T == {n \in Nat : n \notin S}
<1>1. PICK n \in T : \A m \in T : n <= m
  BY LeastNat, Zenon
<1>2. n - 1 \in Nat /\ n - 1 \notin T
  BY <1>1
<1> QED
  BY <1>1, <1>2

-----------------------------------------------------------------------------
(* The loops and span, step by step as their definitions say. *)
LEMMA SpanSteps ==
  /\ span[0] = 1
  /\ \A l \in 1 .. TW_LEVELS : span[l] = span[l - 1] * TW_SLOTS
<1> DEFINE S == {m \in Nat : \E g : g = [l \in 0 .. m |-> IF l = 0 THEN 1 ELSE g[l - 1] * TW_SLOTS]}
<1>0. TW_LEVELS \in Nat
  BY TimerWheelAssumption, Zenon
<1>1. 0 \in S
  <2>1. [l \in 0 .. 0 |-> 1] = [l \in 0 .. 0 |-> IF l = 0 THEN 1 ELSE [k \in 0 .. 0 |-> 1][l - 1] * TW_SLOTS]
    OBVIOUS
  <2> QED
    BY <2>1, Zenon
<1>2. ASSUME NEW m \in Nat, m \in S
      PROVE  m + 1 \in S
  <2>1. PICK g : g = [l \in 0 .. m |-> IF l = 0 THEN 1 ELSE g[l - 1] * TW_SLOTS]
    BY <1>2, Zenon
  <2> DEFINE w == [l \in 0 .. m + 1 |-> IF l = m + 1 THEN g[m] * TW_SLOTS ELSE g[l]]
  <2>2. w = [l \in 0 .. m + 1 |-> IF l = 0 THEN 1 ELSE w[l - 1] * TW_SLOTS]
    <3>1. ASSUME NEW l \in 0 .. m + 1
          PROVE  w[l] = IF l = 0 THEN 1 ELSE w[l - 1] * TW_SLOTS
      <4>1. CASE l = m + 1
        BY <4>1
      <4>2. CASE l # m + 1
        <5>1. l \in 0 .. m /\ g[l] = IF l = 0 THEN 1 ELSE g[l - 1] * TW_SLOTS
          BY <2>1, <4>2
        <5> QED
          BY <5>1
      <4> QED
        BY <4>1, <4>2, Zenon
    <3> QED
      BY <3>1, Zenon
  <2> HIDE DEF w
  <2>3. m + 1 \in Nat
    OBVIOUS
  <2> QED
    BY <2>2, <2>3, Zenon
<1>3. TW_LEVELS \in S
  <2> HIDE DEF S
  <2> QED
    BY <1>0, <1>1, <1>2, Induct, Zenon
<1>4. PICK g : g = [l \in 0 .. TW_LEVELS |-> IF l = 0 THEN 1 ELSE g[l - 1] * TW_SLOTS]
  BY <1>3, Zenon
<1>5. span = [l \in 0 .. TW_LEVELS |-> IF l = 0 THEN 1 ELSE span[l - 1] * TW_SLOTS]
  BY <1>4, Zenon DEF span
<1> QED
  BY <1>0, <1>5

(* The loop over a list, entry by entry. *)
LEMMA RefilingSteps ==
  ASSUME NEW w, NEW list \in Seq(tw_entry_t), NEW t, NEW firing
  PROVE  /\ Refiling(w, list, t, firing)[0] = [wheel |-> w, due |-> <<>>]
         /\ \A k \in 1 .. Len(list) : Refiling(w, list, t, firing)[k] =
              Refile(Refiling(w, list, t, firing)[k - 1], list[k], t, firing)
<1> DEFINE f == Refiling(w, list, t, firing)
           start == [wheel |-> w, due |-> <<>>]
           Turn(g, k) == IF k = 0 THEN start ELSE Refile(g[k - 1], list[k], t, firing)
           S == {m \in Nat : \E g : g = [k \in 0 .. m |-> Turn(g, k)]}
<1>0. Len(list) \in Nat
  OBVIOUS
<1>1. 0 \in S
  <2>1. [k \in 0 .. 0 |-> start] = [k \in 0 .. 0 |-> Turn([j \in 0 .. 0 |-> start], k)]
    OBVIOUS
  <2> QED
    BY <2>1, Zenon
<1>2. ASSUME NEW m \in Nat, m \in S
      PROVE  m + 1 \in S
  <2>1. PICK g : g = [k \in 0 .. m |-> Turn(g, k)]
    BY <1>2, Zenon
  <2> DEFINE h == [k \in 0 .. m + 1 |-> IF k = m + 1 THEN Refile(g[m], list[m + 1], t, firing) ELSE g[k]]
  <2>2. h = [k \in 0 .. m + 1 |-> Turn(h, k)]
    <3>1. ASSUME NEW k \in 0 .. m + 1
          PROVE  h[k] = Turn(h, k)
      <4>1. CASE k = m + 1
        BY <4>1
      <4>2. CASE k # m + 1
        <5>1. k \in 0 .. m /\ g[k] = Turn(g, k)
          BY <2>1, <4>2
        <5> QED
          BY <5>1
      <4> QED
        BY <4>1, <4>2, Zenon
    <3> QED
      BY <3>1, Zenon
  <2> HIDE DEF h
  <2>3. m + 1 \in Nat
    OBVIOUS
  <2> QED
    BY <2>2, <2>3, Zenon
<1>3. Len(list) \in S
  <2> HIDE DEF S
  <2> QED
    BY <1>0, <1>1, <1>2, Induct, Zenon
<1>4. PICK g : g = [k \in 0 .. Len(list) |-> Turn(g, k)]
  BY <1>3, Zenon
<1>5. f = [k \in 0 .. Len(list) |-> Turn(f, k)]
  BY <1>4, Zenon DEF Refiling
<1> HIDE DEF f
<1>6. /\ f[0] = [wheel |-> w, due |-> <<>>]
      /\ \A k \in 1 .. Len(list) : f[k] = Refile(f[k - 1], list[k], t, firing)
  BY <1>0, <1>5
<1> QED
  BY <1>6, Zenon DEF f

(* What tw_advance does for level l at time t. *)
OneCascade(v, l, t) == IF t % span[l] = 0 THEN cascade(v, l, SlotOf(t, l), t) ELSE v

(* The cascades, level by level. *)
LEMMA CascadingSteps ==
  ASSUME NEW w, NEW t
  PROVE  /\ Cascading(w, t)[0] = w
         /\ \A k \in 1 .. (TW_LEVELS - 1) :
              Cascading(w, t)[k] = OneCascade(Cascading(w, t)[k - 1], k, t)
<1> DEFINE f == Cascading(w, t)
           S == {m \in Nat : \E g :
                   g = [k \in 0 .. m |-> IF k = 0 THEN w ELSE OneCascade(g[k - 1], k, t)]}
<1>0. (TW_LEVELS - 1) \in Nat
  BY TimerWheelAssumption
<1>1. 0 \in S
  <2>1. [k \in 0 .. 0 |-> w] =
          [k \in 0 .. 0 |-> IF k = 0 THEN w ELSE OneCascade([j \in 0 .. 0 |-> w][k - 1], k, t)]
    OBVIOUS
  <2> QED
    BY <2>1, Zenon
<1>2. ASSUME NEW m \in Nat, m \in S
      PROVE  m + 1 \in S
  <2>1. PICK g : g = [k \in 0 .. m |-> IF k = 0 THEN w ELSE OneCascade(g[k - 1], k, t)]
    BY <1>2, Zenon
  <2> DEFINE h == [k \in 0 .. m + 1 |-> IF k = m + 1 THEN OneCascade(g[m], m + 1, t) ELSE g[k]]
  <2>2. h = [k \in 0 .. m + 1 |-> IF k = 0 THEN w ELSE OneCascade(h[k - 1], k, t)]
    <3>1. ASSUME NEW k \in 0 .. m + 1
          PROVE  h[k] = IF k = 0 THEN w ELSE OneCascade(h[k - 1], k, t)
      <4>1. CASE k = m + 1
        BY <4>1
      <4>2. CASE k # m + 1
        <5>1. k \in 0 .. m /\ g[k] = IF k = 0 THEN w ELSE OneCascade(g[k - 1], k, t)
          BY <2>1, <4>2
        <5> QED
          BY <5>1
      <4> QED
        BY <4>1, <4>2, Zenon
    <3> QED
      BY <3>1, Zenon
  <2> HIDE DEF h
  <2>3. m + 1 \in Nat
    OBVIOUS
  <2> QED
    BY <2>2, <2>3, Zenon
<1>3. (TW_LEVELS - 1) \in S
  <2> HIDE DEF S
  <2> QED
    BY <1>0, <1>1, <1>2, Induct, Zenon
<1>4. PICK g : g = [k \in 0 .. (TW_LEVELS - 1) |-> IF k = 0 THEN w ELSE OneCascade(g[k - 1], k, t)]
  BY <1>3, Zenon
<1>5. f = [k \in 0 .. (TW_LEVELS - 1) |-> IF k = 0 THEN w ELSE OneCascade(f[k - 1], k, t)]
  BY <1>4, Zenon DEF Cascading, OneCascade, AllLevels
<1> HIDE DEF f
<1>6. /\ f[0] = w
      /\ \A k \in 1 .. (TW_LEVELS - 1) : f[k] = OneCascade(f[k - 1], k, t)
  BY <1>0, <1>5
<1> QED
  BY <1>6, Zenon DEF f

-----------------------------------------------------------------------------
(* Levels and slots. *)
LEMMA SpanPositive ==
  \A l \in 0 .. TW_LEVELS : span[l] \in Nat \ {0}
<1> DEFINE S == {m \in Nat : m <= TW_LEVELS => span[m] \in Nat \ {0}}
<1>0. TW_LEVELS \in Nat /\ TW_SLOTS \in Nat \ {0}
  BY TimerWheelAssumption
<1>1. 0 \in S
  BY SpanSteps
<1>2. ASSUME NEW m \in Nat, m \in S
      PROVE  m + 1 \in S
  <2>1. CASE m + 1 <= TW_LEVELS
    <3>1. span[m] \in Nat \ {0} /\ span[m + 1] = span[m] * TW_SLOTS
      BY <1>0, <1>2, <2>1, SpanSteps
    <3> QED
      BY <1>0, <3>1
  <2> QED
    BY <1>0, <2>1
<1> HIDE DEF S
<1>3. \A m \in Nat : m \in S
  BY <1>1, <1>2, Induct, Zenon
<1> QED
  BY <1>0, <1>3 DEF S

(* level_for's CHOOSE has a witness: the first level that covers delta, or *)
(* the last.                                                               *)
LEMMA LevelFor ==
  ASSUME NEW delta \in Nat
  PROVE  /\ level_for(delta) \in AllLevels
         /\ level_for(delta) + 1 < TW_LEVELS => delta < span[level_for(delta) + 1]
         /\ \A k \in 1 .. level_for(delta) : delta >= span[k]
<1> DEFINE T == {l \in AllLevels : l + 1 < TW_LEVELS => delta < span[l + 1]}
           P(l) == /\ l + 1 < TW_LEVELS => delta < span[l + 1]
                   /\ \A k \in 1 .. l : delta >= span[k]
<1>0. TW_LEVELS \in Nat \ {0}
  BY TimerWheelAssumption, Zenon
<1>1. TW_LEVELS - 1 \in T /\ T \in SUBSET Nat
  BY <1>0 DEF AllLevels
<1>2. PICK l \in T : \A m \in T : l <= m
  BY <1>1, LeastNat, Zenon
<1>3. ASSUME NEW k \in 1 .. l
      PROVE  delta >= span[k]
  <2>1. k - 1 \in AllLevels /\ ~(l <= k - 1) /\ k \in 0 .. TW_LEVELS
    BY <1>0, <1>2 DEF AllLevels
  <2>2. k - 1 \notin T
    BY <1>2, <2>1, Zenon
  <2>3. ~(delta < span[k])
    BY <2>1, <2>2
  <2>4. span[k] \in Nat
    BY <2>1, SpanPositive
  <2> QED
    BY <2>3, <2>4
<1>4. \E l_1 \in AllLevels : P(l_1)
  BY <1>2, <1>3, Zenon
<1>5. level_for(delta) = CHOOSE l_1 \in AllLevels : P(l_1)
  BY Zenon DEF level_for
<1> HIDE DEF P
<1>6. level_for(delta) \in AllLevels /\ P(level_for(delta))
  BY <1>4, <1>5, Zenon
<1> QED
  BY <1>6, Zenon DEF P

LEMMA SlotRange ==
  ASSUME NEW x \in Nat, NEW l \in AllLevels
  PROVE  SlotOf(x, l) \in AllSlots
<1>1. span[l] \in Nat \ {0} /\ TW_SLOTS \in Nat \ {0}
  BY SpanPositive, TimerWheelAssumption DEF AllLevels
<1>2. x \div span[l] \in Nat
  BY <1>1
<1> QED
  BY <1>1, <1>2 DEF SlotOf, AllSlots

-----------------------------------------------------------------------------
(* The wheel w holds the entries of S, each in one place. *)
Once(w, S) ==
  /\ w \in Wheel
  /\ \A l \in AllLevels, s \in AllSlots : IsInjective(w[l][s]) /\ Range(w[l][s]) \subseteq S
  /\ \A l \in AllLevels, s \in AllSlots : \A e \in Range(w[l][s]) :
       \A k \in AllLevels, r \in AllSlots : e \in Range(w[k][r]) => k = l /\ r = s
  /\ \A e \in S : \E l \in AllLevels, s \in AllSlots : e \in Range(w[l][s])

(* v is w but for the slot s of level l, which holds the entries of X. *)
Became(v, w, l, s, X) ==
  \A k \in AllLevels, r \in AllSlots : Range(v[k][r]) = IF k = l /\ r = s THEN X ELSE Range(w[k][r])

(* A list with one entry in front. *)
LEMMA ConsFacts ==
  ASSUME NEW q \in Seq(tw_entry_t), NEW e \in tw_entry_t
  PROVE  /\ <<e>> \o q \in Seq(tw_entry_t)
         /\ Range(<<e>> \o q) = Range(q) \cup {e}
         /\ IsInjective(q) /\ e \notin Range(q) => IsInjective(<<e>> \o q)
<1> DEFINE c == <<e>> \o q
<1>1. c \in Seq(tw_entry_t) /\ Len(c) = Len(q) + 1 /\ Len(q) \in Nat
  OBVIOUS
<1>2. \A j \in 1 .. Len(c) : c[j] = IF j = 1 THEN e ELSE q[j - 1]
  OBVIOUS
<1>3. DOMAIN c = 1 .. Len(c) /\ DOMAIN q = 1 .. Len(q)
  OBVIOUS
<1> HIDE DEF c
<1>4. Range(c) = Range(q) \cup {e}
  <2>1. ASSUME NEW j \in 1 .. Len(c)
        PROVE  c[j] \in Range(q) \cup {e}
    BY <1>1, <1>2, <1>3 DEF Range
  <2>2. c[1] = e /\ 1 \in 1 .. Len(c)
    BY <1>1, <1>2
  <2>3. ASSUME NEW j \in 1 .. Len(q)
        PROVE  q[j] \in Range(c)
    <3>1. j + 1 \in 1 .. Len(c) /\ c[j + 1] = q[j]
      BY <1>1, <1>2
    <3> QED
      BY <1>3, <3>1, Zenon DEF Range
  <2> QED
    BY <1>3, <2>1, <2>2, <2>3, Zenon DEF Range
<1>5. ASSUME IsInjective(q), e \notin Range(q)
      PROVE  IsInjective(c)
  <2> SUFFICES ASSUME NEW i \in 1 .. Len(c), NEW j \in 1 .. Len(c), c[i] = c[j]
               PROVE  i = j
    BY <1>3, Zenon DEF IsInjective
  <2>1. \A m \in 1 .. Len(q) : q[m] # e
    BY <1>3, <1>5, Zenon DEF Range
  <2>2. \A m, n \in 1 .. Len(q) : q[m] = q[n] => m = n
    BY <1>3, <1>5, Zenon DEF IsInjective
  <2>3. i # 1 => i - 1 \in 1 .. Len(q) /\ c[i] = q[i - 1]
    BY <1>1, <1>2
  <2>4. j # 1 => j - 1 \in 1 .. Len(q) /\ c[j] = q[j - 1]
    BY <1>1, <1>2
  <2>5. (i = 1) = (j = 1)
    BY <1>2, <2>1, <2>3, <2>4, Zenon
  <2>6. i # 1 => i - 1 = j - 1
    BY <2>2, <2>3, <2>4, <2>5, Zenon
  <2> QED
    BY <2>5, <2>6
<1> QED
  BY <1>1, <1>4, <1>5, Zenon DEF c

(* Linking an entry that the wheel does not hold. *)
LEMMA LinkOnce ==
  ASSUME NEW w, NEW S, Once(w, S), NEW e \in tw_entry_t, e \notin S,
         NEW l \in AllLevels, NEW s \in AllSlots
  PROVE  /\ Once(Link(w, e, l, s), S \cup {e})
         /\ Became(Link(w, e, l, s), w, l, s, Range(w[l][s]) \cup {e})
<1> DEFINE v == Link(w, e, l, s)
<1>1. w \in Wheel /\ w[l][s] \in Seq(tw_entry_t)
  BY DEF Once, Wheel
<1>2. /\ <<e>> \o w[l][s] \in Seq(tw_entry_t)
      /\ Range(<<e>> \o w[l][s]) = Range(w[l][s]) \cup {e}
      /\ IsInjective(w[l][s]) /\ e \notin Range(w[l][s]) => IsInjective(<<e>> \o w[l][s])
  BY <1>1, ConsFacts, Zenon
<1>3. v = [w EXCEPT ![l][s] = <<e>> \o w[l][s]]
  BY <1>1 DEF Link, Wheel
<1>4. /\ v \in Wheel
      /\ \A k \in AllLevels, r \in AllSlots :
           v[k][r] = IF k = l /\ r = s THEN <<e>> \o w[l][s] ELSE w[k][r]
  <2> DEFINE q == <<e>> \o w[l][s]
  <2>1. q \in Seq(tw_entry_t)
    BY <1>2, Zenon
  <2>2. v = [w EXCEPT ![l][s] = q]
    BY <1>3, Zenon
  <2> HIDE DEF q, v
  <2>3. /\ v \in Wheel
        /\ \A k \in AllLevels, r \in AllSlots : v[k][r] = IF k = l /\ r = s THEN q ELSE w[k][r]
    BY <1>1, <2>1, <2>2 DEF Wheel
  <2> QED
    BY <2>3, Zenon DEF q
<1> HIDE DEF v
<1>5. \A k \in AllLevels, r \in AllSlots :
        Range(v[k][r]) = IF k = l /\ r = s THEN Range(w[l][s]) \cup {e} ELSE Range(w[k][r])
  BY <1>2, <1>4, Zenon
<1>6. \A k \in AllLevels, r \in AllSlots : IsInjective(v[k][r]) /\ Range(v[k][r]) \subseteq S \cup {e}
  BY <1>2, <1>4, <1>5, Zenon DEF Once
<1>7. ASSUME NEW k \in AllLevels, NEW r \in AllSlots, NEW f \in Range(v[k][r]),
             NEW m \in AllLevels, NEW q \in AllSlots, f \in Range(v[m][q])
      PROVE  m = k /\ q = r
  <2>1. CASE f = e
    <3>1. \A j \in AllLevels, p \in AllSlots : e \notin Range(w[j][p])
      BY Zenon DEF Once
    <3> QED
      BY <1>5, <1>7, <2>1, <3>1, Zenon
  <2>2. CASE f # e
    <3>1. f \in Range(w[k][r]) /\ f \in Range(w[m][q])
      BY <1>5, <1>7, <2>2, Zenon
    <3> QED
      BY <3>1, Zenon DEF Once
  <2> QED
    BY <2>1, <2>2, Zenon
<1>8. ASSUME NEW f \in S \cup {e}
      PROVE  \E k \in AllLevels, r \in AllSlots : f \in Range(v[k][r])
  <2>1. CASE f = e
    BY <1>5, <2>1, Zenon
  <2>2. CASE f \in S
    <3>1. PICK k \in AllLevels, r \in AllSlots : f \in Range(w[k][r])
      BY <2>2, Zenon DEF Once
    <3>2. f \in Range(v[k][r])
      BY <1>5, <3>1, Zenon
    <3> QED
      BY <3>2, Zenon
  <2> QED
    BY <2>1, <2>2, Zenon
<1>9. Once(v, S \cup {e})
  BY <1>4, <1>6, <1>7, <1>8, Zenon DEF Once
<1> QED
  BY <1>5, <1>9, Zenon DEF v, Became

(* Emptying a slot. *)
LEMMA UnhookOnce ==
  ASSUME NEW w, NEW S, Once(w, S), NEW l \in AllLevels, NEW s \in AllSlots
  PROVE  /\ Once(Unhooked(w, l, s), S \ Range(w[l][s]))
         /\ Became(Unhooked(w, l, s), w, l, s, {})
<1> DEFINE v == Unhooked(w, l, s)
<1>1. w \in Wheel
  BY Zenon DEF Once
<1>2. <<>> \in Seq(tw_entry_t) /\ Range(<<>>) = {} /\ IsInjective(<<>>)
  BY DEF Range, IsInjective
<1>3. /\ v \in Wheel
      /\ \A k \in AllLevels, r \in AllSlots : v[k][r] = IF k = l /\ r = s THEN <<>> ELSE w[k][r]
  BY <1>1, <1>2 DEF Unhooked, Wheel
<1> HIDE DEF v
<1>4. \A k \in AllLevels, r \in AllSlots :
        Range(v[k][r]) = IF k = l /\ r = s THEN {} ELSE Range(w[k][r])
  BY <1>2, <1>3, Zenon
<1>5. ASSUME NEW k \in AllLevels, NEW r \in AllSlots
      PROVE  IsInjective(v[k][r]) /\ Range(v[k][r]) \subseteq S \ Range(w[l][s])
  <2>1. CASE k = l /\ r = s
    BY <1>2, <1>3, <1>4, <2>1, Zenon
  <2>2. CASE ~(k = l /\ r = s)
    <3>1. IsInjective(w[k][r]) /\ Range(w[k][r]) \subseteq S
      BY Zenon DEF Once
    <3>2. \A f \in Range(w[k][r]) : f \notin Range(w[l][s])
      BY <2>2, Zenon DEF Once
    <3> QED
      BY <1>3, <1>4, <2>2, <3>1, <3>2, Zenon
  <2> QED
    BY <2>1, <2>2, Zenon
<1>6. ASSUME NEW k \in AllLevels, NEW r \in AllSlots, NEW f \in Range(v[k][r]),
             NEW m \in AllLevels, NEW q \in AllSlots, f \in Range(v[m][q])
      PROVE  m = k /\ q = r
  <2>1. f \in Range(w[k][r]) /\ f \in Range(w[m][q])
    BY <1>4, <1>6, Zenon
  <2> QED
    BY <2>1, Zenon DEF Once
<1>7. ASSUME NEW f \in S \ Range(w[l][s])
      PROVE  \E k \in AllLevels, r \in AllSlots : f \in Range(v[k][r])
  <2>1. PICK k \in AllLevels, r \in AllSlots : f \in Range(w[k][r])
    BY Zenon DEF Once
  <2>2. f \in Range(v[k][r])
    BY <1>4, <1>7, <2>1, Zenon
  <2> QED
    BY <2>2, Zenon
<1>8. Once(v, S \ Range(w[l][s]))
  BY <1>3, <1>5, <1>6, <1>7, Zenon DEF Once
<1> QED
  BY <1>4, <1>8, Zenon DEF v, Became

(* A list with one entry at its end. *)
LEMMA AppendFacts ==
  ASSUME NEW q \in Seq(tw_entry_t), NEW e \in tw_entry_t
  PROVE  /\ Append(q, e) \in Seq(tw_entry_t)
         /\ Range(Append(q, e)) = Range(q) \cup {e}
         /\ IsInjective(q) /\ e \notin Range(q) => IsInjective(Append(q, e))
<1> DEFINE c == Append(q, e)
<1>1. c \in Seq(tw_entry_t) /\ Len(c) = Len(q) + 1 /\ Len(q) \in Nat
  OBVIOUS
<1>2. (\A j \in 1 .. Len(q) : c[j] = q[j]) /\ c[Len(c)] = e
  OBVIOUS
<1>3. DOMAIN c = 1 .. Len(c) /\ DOMAIN q = 1 .. Len(q)
  OBVIOUS
<1> HIDE DEF c
<1>0. \A j \in 1 .. Len(c) : j \in 1 .. Len(q) \/ j = Len(c)
  BY <1>1
<1>4. Range(c) = Range(q) \cup {e}
  <2>1. ASSUME NEW j \in 1 .. Len(c)
        PROVE  c[j] \in Range(q) \cup {e}
    BY <1>0, <1>2, <1>3, Zenon DEF Range
  <2>2. Len(c) \in 1 .. Len(c)
    BY <1>1
  <2>3. ASSUME NEW j \in 1 .. Len(q)
        PROVE  q[j] \in Range(c)
    <3>1. j \in 1 .. Len(c)
      BY <1>1
    <3> QED
      BY <1>2, <1>3, <3>1, Zenon DEF Range
  <2> QED
    BY <1>2, <1>3, <2>1, <2>2, <2>3, Zenon DEF Range
<1>5. ASSUME IsInjective(q), e \notin Range(q)
      PROVE  IsInjective(c)
  <2> SUFFICES ASSUME NEW i \in 1 .. Len(c), NEW j \in 1 .. Len(c), c[i] = c[j]
               PROVE  i = j
    BY <1>3, Zenon DEF IsInjective
  <2>1. \A m \in 1 .. Len(q) : q[m] # e
    BY <1>3, <1>5, Zenon DEF Range
  <2>2. \A m, n \in 1 .. Len(q) : q[m] = q[n] => m = n
    BY <1>3, <1>5, Zenon DEF IsInjective
  <2> QED
    BY <1>0, <1>2, <2>1, <2>2, Zenon
<1> QED
  BY <1>1, <1>4, <1>5, Zenon DEF c

(* The place of e, seen from time t. *)
Distance(e, t) == IF e.expiry > t THEN e.expiry - t ELSE 0
Right(e, l, s, t) == l = level_for(Distance(e, t)) /\ s = SlotOf(e.expiry, l)

(* All entries of v are where they were in w, or of X and placed at t.     *)
Reached(v, w, X, t) ==
  \A k \in AllLevels, m \in AllSlots : \A f \in Range(v[k][m]) :
    f \in Range(w[k][m]) \/ (f \in X /\ Right(f, k, m, t))

(* Placing an entry that the wheel does not hold. *)
LEMMA PlaceOnce ==
  ASSUME NEW w, NEW S, Once(w, S), NEW e \in tw_entry_t, e \notin S, NEW t \in Nat
  PROVE  /\ Once(Place(w, e, t), S \cup {e})
         /\ Reached(Place(w, e, t), w, {e}, t)
<1> DEFINE l == level_for(Distance(e, t))
           s == SlotOf(e.expiry, l)
<1>1. Distance(e, t) \in Nat /\ e.expiry \in Nat
  BY DEF Distance, tw_entry_t
<1>2. l \in AllLevels
  BY <1>1, LevelFor, Zenon
<1>3. s \in AllSlots
  BY <1>1, <1>2, SlotRange, Zenon
<1>4. Place(w, e, t) = Link(w, e, l, s)
  BY Zenon DEF Place, Distance
<1>5. \A k \in AllLevels, r \in AllSlots : k = l /\ r = s => Right(e, k, r, t)
  BY Zenon DEF Right
<1> HIDE DEF l, s
<1>6. /\ Once(Link(w, e, l, s), S \cup {e})
      /\ Became(Link(w, e, l, s), w, l, s, Range(w[l][s]) \cup {e})
  BY <1>2, <1>3, LinkOnce, Zenon
<1>7. ASSUME NEW k \in AllLevels, NEW r \in AllSlots, NEW f \in Range(Link(w, e, l, s)[k][r])
      PROVE  f \in Range(w[k][r]) \/ (f \in {e} /\ Right(f, k, r, t))
  BY <1>5, <1>6, Zenon DEF Became
<1> QED
  BY <1>4, <1>6, <1>7, Zenon DEF Reached

(* What the loop has made of w, which held S, with the entries of X.       *)
Due(X, t, firing) == {e \in X : firing /\ e.expiry <= t}
Stay(X, t, firing) == {e \in X : ~(firing /\ e.expiry <= t)}
Filed(r, w, S, X, t, firing) ==
  /\ r = [wheel |-> r.wheel, due |-> r.due]
  /\ r.due \in Seq(tw_entry_t) /\ IsInjective(r.due) /\ Range(r.due) = Due(X, t, firing)
  /\ Once(r.wheel, S \cup Stay(X, t, firing))
  /\ Reached(r.wheel, w, Stay(X, t, firing), t)

(* One turn of the loop ... *)
LEMMA RefileStep ==
  ASSUME NEW r, NEW w, NEW S, NEW X, NEW t \in Nat, NEW firing \in BOOLEAN,
         Filed(r, w, S, X, t, firing), NEW e \in tw_entry_t, e \notin X, e \notin S
  PROVE  Filed(Refile(r, e, t, firing), w, S, X \cup {e}, t, firing)
<1> DEFINE u == Refile(r, e, t, firing)
<1>0. /\ r = [wheel |-> r.wheel, due |-> r.due]
      /\ r.due \in Seq(tw_entry_t) /\ IsInjective(r.due) /\ Range(r.due) = Due(X, t, firing)
      /\ Once(r.wheel, S \cup Stay(X, t, firing))
  BY Zenon DEF Filed
<1>1. CASE firing /\ e.expiry <= t
  <2>1. Due(X \cup {e}, t, firing) = Due(X, t, firing) \cup {e} /\ e \notin Due(X, t, firing)
    BY <1>1, Zenon DEF Due
  <2>2. Stay(X \cup {e}, t, firing) = Stay(X, t, firing)
    BY <1>1, Zenon DEF Stay
  <2>3. u = [wheel |-> r.wheel, due |-> Append(r.due, e)]
    <3>1. u = [r EXCEPT !.due = Append(r.due, e)]
      BY <1>1, Zenon DEF Refile
    <3> HIDE DEF u
    <3> QED
      BY <1>0, <3>1
  <2>4. u.wheel = r.wheel /\ u.due = Append(r.due, e) /\ u = [wheel |-> u.wheel, due |-> u.due]
    BY <2>3
  <2>5. /\ Append(r.due, e) \in Seq(tw_entry_t)
        /\ Range(Append(r.due, e)) = Range(r.due) \cup {e}
        /\ IsInjective(Append(r.due, e))
    BY <1>0, <2>1, AppendFacts, Zenon
  <2> HIDE DEF u
  <2> QED
    BY <1>0, <2>1, <2>2, <2>4, <2>5, Zenon DEF Filed, u
<1>2. CASE ~(firing /\ e.expiry <= t)
  <2>1. Due(X \cup {e}, t, firing) = Due(X, t, firing)
    BY <1>2, Zenon DEF Due
  <2>2. /\ Stay(X \cup {e}, t, firing) = Stay(X, t, firing) \cup {e}
        /\ e \notin S \cup Stay(X, t, firing)
    BY <1>2, Zenon DEF Stay
  <2>3. u = [wheel |-> Place(r.wheel, e, t), due |-> r.due]
    <3>1. u = [r EXCEPT !.wheel = Place(r.wheel, e, t)]
      BY <1>2, Zenon DEF Refile
    <3> HIDE DEF u
    <3> QED
      BY <1>0, <3>1
  <2>4. u.wheel = Place(r.wheel, e, t) /\ u.due = r.due /\ u = [wheel |-> u.wheel, due |-> u.due]
    BY <2>3
  <2>5. /\ Once(Place(r.wheel, e, t), (S \cup Stay(X, t, firing)) \cup {e})
        /\ Reached(Place(r.wheel, e, t), r.wheel, {e}, t)
    BY <1>0, <2>2, PlaceOnce, Zenon
  <2>6. (S \cup Stay(X, t, firing)) \cup {e} = S \cup Stay(X \cup {e}, t, firing)
    BY <2>2, Zenon
  <2> HIDE DEF u
  <2>7. ASSUME NEW k \in AllLevels, NEW m \in AllSlots, NEW f \in Range(u.wheel[k][m])
        PROVE  f \in Range(w[k][m]) \/ (f \in Stay(X \cup {e}, t, firing) /\ Right(f, k, m, t))
    <3>1. f \in Range(r.wheel[k][m]) \/ (f = e /\ Right(e, k, m, t))
      <4>1. f \in Range(Place(r.wheel, e, t)[k][m])
        BY <2>4, <2>7, Zenon
      <4> QED
        BY <2>5, <4>1, Zenon DEF Reached
    <3>2. CASE f \in Range(r.wheel[k][m])
      <4>1. f \in Range(w[k][m]) \/ (f \in Stay(X, t, firing) /\ Right(f, k, m, t))
        BY <3>2, Zenon DEF Filed, Reached
      <4> QED
        BY <2>2, <4>1, Zenon
    <3> QED
      BY <2>2, <3>1, <3>2, Zenon
  <2>8. Once(u.wheel, S \cup Stay(X \cup {e}, t, firing))
    BY <2>4, <2>5, <2>6, Zenon
  <2> QED
    BY <1>0, <2>1, <2>4, <2>7, <2>8, Zenon DEF Filed, Reached, u
<1> QED
  BY <1>1, <1>2, Zenon

(* ... and all of them: no entry of the list is lost or linked twice. *)
LEMMA RefilingOnce ==
  ASSUME NEW w, NEW S, Once(w, S), NEW list \in Seq(tw_entry_t), IsInjective(list),
         \A e \in Range(list) : e \notin S, NEW t \in Nat, NEW firing \in BOOLEAN
  PROVE  Filed(Refiling(w, list, t, firing)[Len(list)], w, S, Range(list), t, firing)
<1> DEFINE f == Refiling(w, list, t, firing)
           n == Len(list)
           First(j) == {list[i] : i \in 1 .. j}
           I == {j \in Nat : j <= n => Filed(f[j], w, S, First(j), t, firing)}
<1>0. n \in Nat /\ DOMAIN list = 1 .. n /\ list \in [1 .. n -> tw_entry_t]
  OBVIOUS
<1>1. f[0] = [wheel |-> w, due |-> <<>>] /\ \A k \in 1 .. n : f[k] = Refile(f[k - 1], list[k], t, firing)
  BY RefilingSteps
<1> HIDE DEF f, n
<1>2. 0 \in I
  <2>1. First(0) = {} /\ Due(First(0), t, firing) = {} /\ Stay(First(0), t, firing) = {}
    BY DEF Due, Stay
  <2>2. f[0].wheel = w /\ f[0].due = <<>> /\ f[0] = [wheel |-> f[0].wheel, due |-> f[0].due]
    BY <1>1
  <2>3. <<>> \in Seq(tw_entry_t) /\ IsInjective(<<>>) /\ Range(<<>>) = {}
    BY DEF IsInjective, Range
  <2>4. S \cup {} = S
    OBVIOUS
  <2>5. Reached(f[0].wheel, w, Stay(First(0), t, firing), t)
    BY <2>2, Zenon DEF Reached
  <2> HIDE DEF First
  <2>6. Filed(f[0], w, S, First(0), t, firing)
    BY <2>1, <2>2, <2>3, <2>4, <2>5, Zenon DEF Filed
  <2> QED
    BY <2>6
<1>3. ASSUME NEW j \in Nat, j \in I
      PROVE  j + 1 \in I
  <2> SUFFICES ASSUME j + 1 <= n
               PROVE  Filed(f[j + 1], w, S, First(j + 1), t, firing)
    <3>1. j + 1 \in Nat
      OBVIOUS
    <3> QED
      BY <3>1, Zenon
  <2>1. j + 1 \in 1 .. n /\ j <= n
    BY <1>0
  <2>2. f[j + 1] = Refile(f[j], list[j + 1], t, firing)
    BY <1>1, <2>1
  <2>3. list[j + 1] \in tw_entry_t /\ list[j + 1] \notin S
    BY <1>0, <2>1, Zenon DEF Range
  <2>4. list[j + 1] \notin First(j)
    <3>1. ASSUME NEW i \in 1 .. j, list[i] = list[j + 1]
          PROVE  FALSE
      <4>1. i \in 1 .. n /\ i # j + 1
        BY <1>0, <2>1
      <4> QED
        BY <1>0, <2>1, <3>1, <4>1, Zenon DEF IsInjective
    <3> QED
      BY <3>1, Zenon
  <2>5. First(j + 1) = First(j) \cup {list[j + 1]}
    <3>1. \A i : i \in 1 .. (j + 1) <=> i \in 1 .. j \/ i = j + 1
      OBVIOUS
    <3> QED
      BY <3>1, Zenon
  <2>6. Filed(f[j], w, S, First(j), t, firing)
    BY <1>3, <2>1, Zenon
  <2> HIDE DEF First
  <2>7. Filed(Refile(f[j], list[j + 1], t, firing), w, S, First(j) \cup {list[j + 1]}, t, firing)
    BY <2>3, <2>4, <2>6, RefileStep
  <2> QED
    BY <2>2, <2>5, <2>7, Zenon
<1>4. n \in I
  <2> HIDE DEF I
  <2> QED
    BY <1>0, <1>2, <1>3, Induct, Zenon
<1>5. First(n) = Range(list)
  BY <1>0, Zenon DEF Range
<1>6. n <= n
  BY <1>0
<1> QED
  BY <1>4, <1>5, <1>6, Zenon DEF f, n

(* v is w with the entries of slot s of level l placed again at time t.    *)
Moved(v, w, l, s, t) ==
  \A k \in AllLevels, m \in AllSlots : \A f \in Range(v[k][m]) :
    (f \in Range(w[k][m]) /\ ~(k = l /\ m = s)) \/ Right(f, k, m, t)

(* The loop over the list of a slot that was unhooked. *)
LEMMA SlotRefiled ==
  ASSUME NEW w, NEW S, Once(w, S), NEW l \in AllLevels, NEW s \in AllSlots,
         NEW t \in Nat, NEW firing \in BOOLEAN
  PROVE  /\ Filed(Refiling(Unhooked(w, l, s), w[l][s], t, firing)[Len(w[l][s])],
                  Unhooked(w, l, s), S \ Range(w[l][s]), Range(w[l][s]), t, firing)
         /\ Became(Unhooked(w, l, s), w, l, s, {})
         /\ Range(w[l][s]) \subseteq S
<1>1. /\ Once(Unhooked(w, l, s), S \ Range(w[l][s]))
      /\ Became(Unhooked(w, l, s), w, l, s, {})
  BY UnhookOnce, Zenon
<1>2. IsInjective(w[l][s]) /\ Range(w[l][s]) \subseteq S /\ w \in Wheel
  BY Zenon DEF Once
<1>3. w[l][s] \in Seq(tw_entry_t)
  BY <1>2 DEF Wheel
<1>4. \A e \in Range(w[l][s]) : e \notin S \ Range(w[l][s])
  BY Zenon
<1> QED
  BY <1>1, <1>2, <1>3, <1>4, RefilingOnce, Zenon

(* cascade moves the entries of its slot and loses none. *)
LEMMA CascadeOnce ==
  ASSUME NEW w, NEW S, Once(w, S), NEW l \in AllLevels, NEW s \in AllSlots, NEW t \in Nat
  PROVE  Once(cascade(w, l, s, t), S) /\ Moved(cascade(w, l, s, t), w, l, s, t)
<1> DEFINE X == Range(w[l][s])
           u == Unhooked(w, l, s)
           r == Refiling(u, w[l][s], t, FALSE)[Len(w[l][s])]
<1>1. Filed(r, u, S \ X, X, t, FALSE) /\ Became(u, w, l, s, {}) /\ X \subseteq S
  BY SlotRefiled
<1>2. cascade(w, l, s, t) = r.wheel
  BY Zenon DEF cascade
<1> HIDE DEF r, u
<1>3. Stay(X, t, FALSE) = X /\ (S \ X) \cup X = S
  BY <1>1, Zenon DEF Stay
<1>4. Once(r.wheel, S)
  BY <1>1, <1>3, Zenon DEF Filed
<1>5. ASSUME NEW k \in AllLevels, NEW m \in AllSlots, NEW f \in Range(r.wheel[k][m])
      PROVE  (f \in Range(w[k][m]) /\ ~(k = l /\ m = s)) \/ Right(f, k, m, t)
  <2>1. f \in Range(u[k][m]) \/ Right(f, k, m, t)
    BY <1>1, <1>5, Zenon DEF Filed, Reached
  <2>2. Range(u[k][m]) = IF k = l /\ m = s THEN {} ELSE Range(w[k][m])
    BY <1>1, Zenon DEF Became
  <2> QED
    BY <2>1, <2>2, Zenon
<1> QED
  BY <1>2, <1>4, <1>5, Zenon DEF Moved

(* Slot m of level k is not one of those that tw_advance empties at t.     *)
Untouched(k, m, t) == ~(t % span[k] = 0 /\ m = SlotOf(t, k))

(* The cascades of one tick, together.  An entry is where it was, in a     *)
(* slot that did not cascade, or was placed at t.                          *)
LEMMA CascadingOnce ==
  ASSUME NEW w, NEW S, Once(w, S), NEW t \in Nat
  PROVE  /\ Once(Cascading(w, t)[TW_LEVELS - 1], S)
         /\ \A k \in AllLevels, m \in AllSlots : \A f \in Range(Cascading(w, t)[TW_LEVELS - 1][k][m]) :
              (f \in Range(w[k][m]) /\ (k = 0 \/ Untouched(k, m, t))) \/ Right(f, k, m, t)
<1> DEFINE c == Cascading(w, t)
           n == TW_LEVELS - 1
           Part(v, l) == \A k \in AllLevels, m \in AllSlots : \A f \in Range(v[k][m]) :
             (f \in Range(w[k][m]) /\ (k = 0 \/ l < k \/ Untouched(k, m, t))) \/ Right(f, k, m, t)
           I == {l \in Nat : l <= n => Once(c[l], S) /\ Part(c[l], l)}
<1>0. n \in Nat /\ AllLevels = 0 .. n
  BY TimerWheelAssumption DEF AllLevels
<1>1. c[0] = w /\ \A k \in 1 .. n : c[k] = OneCascade(c[k - 1], k, t)
  BY CascadingSteps
<1> HIDE DEF c, n
<1>2. 0 \in I
  <2>1. \A k \in AllLevels : k = 0 \/ 0 < k
    BY <1>0
  <2>2. Part(c[0], 0)
    BY <1>1, <2>1, Zenon
  <2> QED
    BY <1>1, <2>2
<1>3. ASSUME NEW j \in Nat, j \in I
      PROVE  j + 1 \in I
  <2> SUFFICES ASSUME j + 1 <= n
               PROVE  Once(c[j + 1], S) /\ Part(c[j + 1], j + 1)
    <3>1. j + 1 \in Nat
      OBVIOUS
    <3> QED
      BY <3>1, Zenon
  <2>1. j + 1 \in 1 .. n /\ j <= n /\ j + 1 \in AllLevels /\ j + 1 - 1 = j
    BY <1>0
  <2>2. Once(c[j], S) /\ Part(c[j], j) /\ c[j + 1] = OneCascade(c[j], j + 1, t)
    <3>1. c[j + 1] = OneCascade(c[j + 1 - 1], j + 1, t)
      BY <1>1, <2>1
    <3>2. c[j + 1] = OneCascade(c[j], j + 1, t)
      BY <2>1, <3>1, Zenon
    <3>3. Once(c[j], S) /\ Part(c[j], j)
      BY <1>3, <2>1, Zenon
    <3> QED
      BY <3>2, <3>3, Zenon
  <2>3. \A k \in AllLevels : j < k <=> (j + 1 < k \/ k = j + 1)
    BY <1>0
  <2>4. SlotOf(t, j + 1) \in AllSlots
    BY <2>1, SlotRange, Zenon
  <2>5. CASE t % span[j + 1] = 0
    <3> DEFINE s == SlotOf(t, j + 1)
               v == cascade(c[j], j + 1, s, t)
    <3>1. c[j + 1] = v
      BY <2>2, <2>5, Zenon DEF OneCascade
    <3>2. Once(v, S) /\ Moved(v, c[j], j + 1, s, t)
      BY <2>1, <2>2, <2>4, CascadeOnce
    <3> HIDE DEF v
    <3>3. ASSUME NEW k \in AllLevels, NEW m \in AllSlots, NEW f \in Range(v[k][m])
          PROVE  (f \in Range(w[k][m]) /\ (k = 0 \/ j + 1 < k \/ Untouched(k, m, t))) \/ Right(f, k, m, t)
      <4>1. (f \in Range(c[j][k][m]) /\ ~(k = j + 1 /\ m = s)) \/ Right(f, k, m, t)
        BY <3>2, <3>3, Zenon DEF Moved
      <4>2. k = j + 1 /\ m # s => Untouched(k, m, t)
        BY Zenon DEF Untouched
      <4> QED
        BY <2>2, <2>3, <4>1, <4>2, Zenon
    <3> QED
      BY <3>1, <3>2, <3>3, Zenon
  <2>6. CASE t % span[j + 1] # 0
    <3>1. c[j + 1] = c[j]
      BY <2>2, <2>6, Zenon DEF OneCascade
    <3>2. \A k \in AllLevels, m \in AllSlots : k = j + 1 => Untouched(k, m, t)
      BY <2>6, Zenon DEF Untouched
    <3> QED
      BY <2>2, <2>3, <3>1, <3>2, Zenon
  <2> QED
    BY <2>5, <2>6, Zenon
<1>4. n \in I
  <2> HIDE DEF I
  <2> QED
    BY <1>0, <1>2, <1>3, Induct, Zenon
<1>5. n <= n /\ \A k \in AllLevels : ~(n < k)
  BY <1>0
<1>6. Once(c[n], S) /\ Part(c[n], n)
  BY <1>4, <1>5, Zenon
<1> QED
  BY <1>5, <1>6, Zenon DEF c, n

(* What tw_advance makes of the wheel w, which held S. *)
After(r, w, S, t) ==
  /\ r.due \in Seq(tw_entry_t) /\ IsInjective(r.due) /\ Range(r.due) \subseteq S
  /\ \A f \in Range(r.due) : /\ f.expiry <= t
                             /\ f \in Range(w[0][t % TW_SLOTS]) \/ Right(f, 0, t % TW_SLOTS, t)
  /\ Once(r.wheel, S \ Range(r.due))
  /\ \A k \in AllLevels, m \in AllSlots : \A f \in Range(r.wheel[k][m]) :
       /\ ~(k = 0 /\ m = t % TW_SLOTS /\ f.expiry <= t)
       /\ (f \in Range(w[k][m]) /\ Untouched(k, m, t)) \/ Right(f, k, m, t)

(* tw_advance: what it sweeps was due, and the wheel holds the rest. *)
LEMMA TickedOnce ==
  ASSUME NEW w, NEW S, Once(w, S), NEW t \in Nat
  PROVE  After(Ticked(w, t), w, S, t)
<1> DEFINE c == Cascading(w, t)[TW_LEVELS - 1]
           z == t % TW_SLOTS
           X == Range(c[0][z])
           u == Unhooked(c, 0, z)
           r == Refiling(u, c[0][z], t, TRUE)[Len(c[0][z])]
<1>1. /\ Once(c, S)
      /\ \A k \in AllLevels, m \in AllSlots : \A f \in Range(c[k][m]) :
           (f \in Range(w[k][m]) /\ (k = 0 \/ Untouched(k, m, t))) \/ Right(f, k, m, t)
  BY CascadingOnce
<1>2. Ticked(w, t) = r
  BY Zenon DEF Ticked, Fire
<1>3. 0 \in AllLevels /\ z \in AllSlots
  BY TimerWheelAssumption DEF AllLevels, AllSlots
<1>4. \A m \in AllSlots : m # z => Untouched(0, m, t)
  <2>1. SlotOf(t, 0) = z
    <3>1. span[0] = 1 /\ t \div 1 = t
      BY SpanSteps
    <3> QED
      BY <3>1 DEF SlotOf
  <2> QED
    BY <2>1, Zenon DEF Untouched
<1> HIDE DEF c, z
<1>5. Filed(r, u, S \ X, X, t, TRUE) /\ Became(u, c, 0, z, {}) /\ X \subseteq S
  BY <1>1, <1>3, SlotRefiled
<1> HIDE DEF r, u
<1>6. Range(r.due) = Due(X, t, TRUE) /\ r.due \in Seq(tw_entry_t) /\ IsInjective(r.due)
  BY <1>5, Zenon DEF Filed
<1>7. (S \ X) \cup Stay(X, t, TRUE) = S \ Range(r.due)
  BY <1>5, <1>6, Zenon DEF Stay, Due
<1>8. Once(r.wheel, S \ Range(r.due))
  BY <1>5, <1>7, Zenon DEF Filed
<1>9. ASSUME NEW f \in Range(r.due)
      PROVE  f \in S /\ f.expiry <= t /\ (f \in Range(w[0][z]) \/ Right(f, 0, z, t))
  <2>1. f \in X /\ f.expiry <= t
    BY <1>6, Zenon DEF Due
  <2> QED
    BY <1>1, <1>3, <1>5, <2>1, Zenon
<1>10. ASSUME NEW k \in AllLevels, NEW m \in AllSlots, NEW f \in Range(r.wheel[k][m])
       PROVE  /\ ~(k = 0 /\ m = z /\ f.expiry <= t)
              /\ (f \in Range(w[k][m]) /\ Untouched(k, m, t)) \/ Right(f, k, m, t)
  <2>1. f \in Range(u[k][m]) \/ (f \in Stay(X, t, TRUE) /\ Right(f, k, m, t))
    BY <1>5, <1>10, Zenon DEF Filed, Reached
  <2>2. Range(u[k][m]) = IF k = 0 /\ m = z THEN {} ELSE Range(c[k][m])
    BY <1>5, Zenon DEF Became
  <2>3. CASE f \in Range(u[k][m])
    <3>1. ~(k = 0 /\ m = z) /\ f \in Range(c[k][m])
      BY <2>2, <2>3, Zenon
    <3> QED
      BY <1>1, <1>4, <3>1, Zenon
  <2>4. CASE f \in Stay(X, t, TRUE) /\ Right(f, k, m, t)
    BY <2>4, Zenon DEF Stay
  <2> QED
    BY <2>1, <2>3, <2>4, Zenon
<1> QED
  BY <1>2, <1>6, <1>8, <1>9, <1>10, Zenon DEF After, z

-----------------------------------------------------------------------------
(* A list without repetition has as many entries as its length. *)
LEMMA ListCount ==
  ASSUME NEW T, NEW q \in Seq(T), IsInjective(q)
  PROVE  Cardinality(Range(q)) = Len(q)
<1>1. q \in [1 .. Len(q) -> Range(q)] /\ Len(q) \in Nat
  BY DEF Range
<1>2. q \in Surjection(1 .. Len(q), Range(q))
  BY <1>1 DEF Surjection, Range
<1>3. q \in Injection(1 .. Len(q), Range(q))
  BY <1>1, Zenon DEF Injection
<1>4. ExistsBijection(1 .. Len(q), Range(q))
  BY <1>2, <1>3, Zenon DEF ExistsBijection, Bijection
<1> QED
  BY <1>1, <1>4, FS_CountingElements, Zenon

(* A wheel that holds S holds no more. *)
LEMMA OnceAll ==
  ASSUME NEW w, NEW S, Once(w, S)
  PROVE  UNION {Range(w[l][s]) : l \in AllLevels, s \in AllSlots} = S
<1>1. \A l \in AllLevels, s \in AllSlots : Range(w[l][s]) \subseteq S
  BY Zenon DEF Once
<1>2. \A e \in S : \E l \in AllLevels, s \in AllSlots : e \in Range(w[l][s])
  BY Zenon DEF Once
<1> QED
  BY <1>1, <1>2

(* The invariant behind EntriesExact.  Placing: the tw_add under way has   *)
(* its pool entry, the last one used.                                      *)
Placing == adding.step \in {"placed", "linking"}
Held ==
  /\ now \in Nat /\ pool_used \in 0 .. TW_MAX_ENTRIES
  /\ Once(slots, Entries)
  /\ IsFiniteSet(Entries) /\ Cardinality(Entries) = pending
  /\ \A e \in Entries : e.n \in 1 .. pool_used /\ e.n # adding.n /\ e.n \notin out
  /\ \A e, f \in Entries : e.n = f.n => e = f
  /\ out \subseteq 1 .. pool_used /\ adding.n \notin out
AddInv ==
  /\ adding \in [step : {"none", "tested", "placed", "linking"}, n : Nat, expiry : Nat,
                 level : AllLevels, slot : AllSlots, tail : Seq(tw_entry_t)]
  /\ adding.step = "none" => adding = None
  /\ adding.step = "tested" => pool_used < TW_MAX_ENTRIES
  /\ Placing => pool_used > 0 /\ adding.n = pool_used
  /\ ~Placing => adding.n = 0
  /\ adding.step = "linking" => adding.tail = slots[adding.level][adding.slot]
WheelInv == Held /\ AddInv

LEMMA NoneTyped ==
  /\ None \in [step : {"none", "tested", "placed", "linking"}, n : Nat, expiry : Nat,
               level : AllLevels, slot : AllSlots, tail : Seq(tw_entry_t)]
  /\ None.step = "none" /\ None.n = 0
<1>1. 0 \in AllLevels /\ 0 \in AllSlots
  BY TimerWheelAssumption DEF AllLevels, AllSlots
<1> QED
  BY <1>1 DEF None

(* The wheel that tw_init makes. *)
LEMMA EmptyWheel ==
  ASSUME NEW w, w = [l \in AllLevels |-> [s \in AllSlots |-> <<>>]]
  PROVE  Once(w, {})
<1>1. w \in Wheel
  BY DEF Wheel
<1>2. \A l \in AllLevels, s \in AllSlots : IsInjective(w[l][s]) /\ Range(w[l][s]) = {}
  BY DEF IsInjective, Range
<1> QED
  BY <1>1, <1>2, Zenon DEF Once

(* The invariant holds at first, and every step keeps it. *)
LEMMA InitWheelInv ==
  WheelInit => WheelInv
<1> SUFFICES ASSUME WheelInit
             PROVE  WheelInv
  OBVIOUS
<1>1. Once(slots, {})
  BY EmptyWheel, Zenon DEF WheelInit
<1>2. Entries = {}
  BY <1>1, OnceAll DEF Entries
<1>3. IsFiniteSet(Entries) /\ Cardinality(Entries) = pending
  BY <1>2, FS_EmptySet DEF WheelInit
<1>4. Held
  <2>1. 0 \in 0 .. TW_MAX_ENTRIES
    BY TimerWheelAssumption
  <2>2. now \in Nat /\ pool_used \in 0 .. TW_MAX_ENTRIES /\ out = {}
    BY <2>1 DEF WheelInit
  <2>3. Once(slots, Entries)
    BY <1>1, <1>2, Zenon
  <2> QED
    BY <1>2, <1>3, <2>2, <2>3, Zenon DEF Held
<1>5. AddInv
  BY NoneTyped DEF AddInv, Placing, WheelInit
<1> QED
  BY <1>4, <1>5 DEF WheelInv

(* tw_init empties the wheel. *)
LEMMA InitKeeps ==
  ASSUME WheelInv, tw_init
  PROVE  WheelInv'
<1>1. Once(slots', {})
  BY EmptyWheel, Zenon DEF tw_init
<1>2. Entries' = {}
  BY <1>1, OnceAll DEF Entries
<1>3. IsFiniteSet(Entries') /\ Cardinality(Entries') = pending'
  BY <1>2, FS_EmptySet DEF tw_init
<1>4. Held'
  <2>1. 0 \in 0 .. TW_MAX_ENTRIES
    BY TimerWheelAssumption
  <2>2. now' \in Nat /\ pool_used' \in 0 .. TW_MAX_ENTRIES /\ out' = {}
    BY <2>1 DEF tw_init
  <2>3. Once(slots', Entries')
    BY <1>1, <1>2, Zenon
  <2>4. Once(slots, Entries)'
    BY <2>3, Zenon DEF Once, Wheel
  <2> QED
    BY <1>2, <1>3, <2>2, <2>4, Zenon DEF Held
<1>5. AddInv'
  BY NoneTyped DEF AddInv, Placing, tw_init, WheelInv
<1> QED
  BY <1>4, <1>5 DEF WheelInv

(* A step that leaves the wheel alone, and whose adding has no entry or a  *)
(* new one.                                                                *)
LEMMA SameWheel ==
  ASSUME Held, UNCHANGED <<now, slots, pending, out>>,
         pool_used' \in pool_used .. TW_MAX_ENTRIES,
         adding'.n = 0 \/ adding'.n = adding.n \/ adding'.n > pool_used
  PROVE  Held'
<1>1. Entries' = Entries
  BY DEF Entries
<1>2. /\ now \in Nat /\ pool_used \in Nat
      /\ Once(slots, Entries)
      /\ IsFiniteSet(Entries) /\ Cardinality(Entries) = pending
      /\ \A e \in Entries : e.n \in 1 .. pool_used /\ e.n # adding.n /\ e.n \notin out
      /\ \A e, f \in Entries : e.n = f.n => e = f
      /\ out \subseteq 1 .. pool_used /\ adding.n \notin out
  BY DEF Held
<1>3. Once(slots, Entries)'
  BY <1>1, <1>2 DEF Once, Wheel
<1>4. pool_used' \in 0 .. TW_MAX_ENTRIES /\ \A x \in 1 .. pool_used : x \in 1 .. pool_used'
  BY <1>2, TimerWheelAssumption
<1>5. \A x \in 1 .. pool_used : x = adding'.n => x = adding.n
  BY <1>2
<1>6. \A e \in Entries : e.n \in 1 .. pool_used' /\ e.n # adding'.n /\ e.n \notin out
  BY <1>2, <1>4, <1>5, Zenon
<1>7. out \subseteq 1 .. pool_used' /\ adding'.n \notin out
  BY <1>2, <1>4, <1>5, Zenon
<1> QED
  BY <1>1, <1>2, <1>3, <1>4, <1>6, <1>7, Zenon DEF Held

(* The steps of tw_add before the last. *)
LEMMA AddTestKeeps ==
  ASSUME WheelInv, NEW d \in Deltas, AddTest(d)
  PROVE  WheelInv'
<1>1. /\ adding' = [None EXCEPT !.step = "tested", !.expiry = now + d]
      /\ UNCHANGED <<now, slots, pool_used, pending, out>> /\ pool_used < TW_MAX_ENTRIES
  BY Zenon DEF AddTest
<1>2. now \in Nat /\ d \in Nat /\ pool_used \in 0 .. TW_MAX_ENTRIES
  BY TimerWheelAssumption DEF WheelInv, Held
<1>3. /\ adding' \in [step : {"none", "tested", "placed", "linking"}, n : Nat, expiry : Nat,
                      level : AllLevels, slot : AllSlots, tail : Seq(tw_entry_t)]
      /\ adding'.step = "tested" /\ adding'.n = 0
  <2>1. adding' = [step |-> "tested", n |-> 0, expiry |-> now + d, level |-> 0, slot |-> 0, tail |-> <<>>]
    BY <1>1 DEF None
  <2>2. 0 \in AllLevels /\ 0 \in AllSlots
    BY TimerWheelAssumption DEF AllLevels, AllSlots
  <2> QED
    BY <1>2, <2>1, <2>2
<1>4. Held'
  <2>1. pool_used' \in pool_used .. TW_MAX_ENTRIES
    BY <1>1, <1>2
  <2> QED
    BY <1>1, <1>3, <2>1, SameWheel DEF WheelInv
<1>5. AddInv'
  BY <1>1, <1>3 DEF AddInv, Placing
<1> QED
  BY <1>4, <1>5 DEF WheelInv

LEMMA AddPlaceKeeps ==
  ASSUME WheelInv, AddPlace
  PROVE  WheelInv'
<1> DEFINE l == IF now <= adding.expiry THEN level_for(adding.expiry - now) ELSE TW_LEVELS - 1
<1>1. /\ adding.step = "tested"
      /\ adding' = [adding EXCEPT !.step = "placed", !.n = pool_used + 1, !.level = l,
                                  !.slot = SlotOf(adding.expiry, l)]
      /\ UNCHANGED <<now, slots, pending, out>> /\ pool_used' = pool_used + 1
  BY Zenon DEF AddPlace
<1>2. /\ adding \in [step : {"none", "tested", "placed", "linking"}, n : Nat, expiry : Nat,
                     level : AllLevels, slot : AllSlots, tail : Seq(tw_entry_t)]
      /\ now \in Nat /\ pool_used \in 0 .. TW_MAX_ENTRIES
  BY DEF WheelInv, Held, AddInv
<1>3. l \in AllLevels
  <2>1. CASE now <= adding.expiry
    <3>1. adding.expiry - now \in Nat
      BY <1>2, <2>1
    <3> QED
      BY <2>1, <3>1, LevelFor
  <2>2. CASE ~(now <= adding.expiry)
    BY <2>2, TimerWheelAssumption DEF AllLevels
  <2> QED
    BY <2>1, <2>2, Zenon
<1> HIDE DEF l
<1>4. SlotOf(adding.expiry, l) \in AllSlots
  BY <1>2, <1>3, SlotRange
<1>5. /\ adding' \in [step : {"none", "tested", "placed", "linking"}, n : Nat, expiry : Nat,
                      level : AllLevels, slot : AllSlots, tail : Seq(tw_entry_t)]
      /\ adding'.step = "placed" /\ adding'.n = pool_used + 1
  <2>1. adding' = [step |-> "placed", n |-> pool_used + 1, expiry |-> adding.expiry, level |-> l,
                   slot |-> SlotOf(adding.expiry, l), tail |-> adding.tail]
    BY <1>1, <1>2
  <2>2. pool_used + 1 \in Nat
    BY <1>2
  <2> QED
    BY <1>2, <1>3, <1>4, <2>1, <2>2
<1>6. pool_used < TW_MAX_ENTRIES
  BY <1>1 DEF WheelInv, AddInv
<1>7. Held'
  <2>1. pool_used' \in pool_used .. TW_MAX_ENTRIES /\ pool_used + 1 > pool_used
    BY <1>1, <1>2, <1>6, TimerWheelAssumption
  <2> QED
    BY <1>1, <1>5, <2>1, SameWheel DEF WheelInv
<1>8. AddInv'
  BY <1>1, <1>2, <1>5 DEF AddInv, Placing
<1> QED
  BY <1>7, <1>8 DEF WheelInv

LEMMA AddReadHeadKeeps ==
  ASSUME WheelInv, AddReadHead
  PROVE  WheelInv'
<1>1. /\ adding.step = "placed"
      /\ adding' = [adding EXCEPT !.step = "linking", !.tail = slots[adding.level][adding.slot]]
      /\ UNCHANGED <<now, slots, pool_used, pending, out>>
  BY Zenon DEF AddReadHead
<1>2. /\ adding \in [step : {"none", "tested", "placed", "linking"}, n : Nat, expiry : Nat,
                     level : AllLevels, slot : AllSlots, tail : Seq(tw_entry_t)]
      /\ adding.n = pool_used /\ pool_used > 0
      /\ pool_used \in 0 .. TW_MAX_ENTRIES /\ slots \in Wheel
  BY <1>1 DEF WheelInv, Held, AddInv, Placing, Once
<1>3. slots[adding.level][adding.slot] \in Seq(tw_entry_t)
  BY <1>2 DEF Wheel
<1>4. /\ adding' \in [step : {"none", "tested", "placed", "linking"}, n : Nat, expiry : Nat,
                      level : AllLevels, slot : AllSlots, tail : Seq(tw_entry_t)]
      /\ adding'.step = "linking" /\ adding'.n = adding.n
      /\ adding'.tail = slots[adding'.level][adding'.slot]
  BY <1>1, <1>2, <1>3
<1>5. Held'
  <2>1. pool_used' \in pool_used .. TW_MAX_ENTRIES
    BY <1>1, <1>2, TimerWheelAssumption
  <2> QED
    BY <1>1, <1>4, <2>1, SameWheel DEF WheelInv
<1>6. AddInv'
  BY <1>1, <1>2, <1>4 DEF AddInv, Placing
<1> QED
  BY <1>5, <1>6 DEF WheelInv

(* The entry of the tw_add under way. *)
Linked == [n |-> adding.n, expiry |-> adding.expiry]

(* The last step of tw_add: the wheel holds one entry more. *)
LEMMA LinkStep ==
  ASSUME WheelInv, AddLink
  PROVE  /\ Linked \in tw_entry_t /\ Linked \notin Entries
         /\ Once(slots', Entries \cup {Linked}) /\ Entries' = Entries \cup {Linked}
         /\ Became(slots', slots, adding.level, adding.slot,
                   Range(slots[adding.level][adding.slot]) \cup {Linked})
<1>1. /\ adding.step = "linking"
      /\ slots' = [slots EXCEPT ![adding.level][adding.slot] = <<Linked>> \o adding.tail]
  BY Zenon DEF AddLink, Linked
<1>2. /\ adding \in [step : {"none", "tested", "placed", "linking"}, n : Nat, expiry : Nat,
                     level : AllLevels, slot : AllSlots, tail : Seq(tw_entry_t)]
      /\ adding.tail = slots[adding.level][adding.slot]
      /\ Once(slots, Entries) /\ slots \in Wheel
      /\ \A e \in Entries : e.n # adding.n
  BY <1>1, Zenon DEF WheelInv, AddInv, Held, Once
<1>3. Linked \in tw_entry_t /\ Linked.n = adding.n /\ adding.level \in AllLevels /\ adding.slot \in AllSlots
  BY <1>2 DEF Linked, tw_entry_t
<1>4. Linked \notin Entries
  BY <1>2, <1>3, Zenon
<1>5. slots' = Link(slots, Linked, adding.level, adding.slot)
  BY <1>1, <1>2, <1>3 DEF Link, Wheel
<1>6. /\ Once(slots', Entries \cup {Linked})
      /\ Became(slots', slots, adding.level, adding.slot,
                   Range(slots[adding.level][adding.slot]) \cup {Linked})
  BY <1>2, <1>3, <1>4, <1>5, LinkOnce
<1>7. Entries' = Entries \cup {Linked}
  BY <1>6, OnceAll DEF Entries
<1> QED
  BY <1>3, <1>4, <1>6, <1>7, Zenon

(* ... with the number that the pool gave it. *)
LEMMA AddLinkKeeps ==
  ASSUME WheelInv, AddLink
  PROVE  WheelInv'
<1>1. /\ Linked \in tw_entry_t /\ Linked \notin Entries
      /\ Once(slots', Entries \cup {Linked}) /\ Entries' = Entries \cup {Linked}
  BY LinkStep
<1>2. adding.step = "linking" /\ UNCHANGED <<now, pool_used, out>> /\ adding' = None /\ pending' = pending + 1
  BY Zenon DEF AddLink
<1>3. adding.n = pool_used /\ pool_used > 0
  BY <1>2 DEF WheelInv, AddInv, Placing
<1>4. /\ now \in Nat /\ pool_used \in 0 .. TW_MAX_ENTRIES
      /\ IsFiniteSet(Entries) /\ Cardinality(Entries) = pending
      /\ \A e \in Entries : e.n \in 1 .. pool_used /\ e.n # adding.n /\ e.n \notin out
      /\ \A e, f \in Entries : e.n = f.n => e = f
      /\ out \subseteq 1 .. pool_used /\ adding.n \notin out
  BY Zenon DEF WheelInv, Held
<1>5. Linked.n = adding.n
  BY DEF Linked
<1>6. IsFiniteSet(Entries') /\ Cardinality(Entries') = pending'
  BY <1>1, <1>2, <1>4, FS_AddElement
<1>7. Once(slots, Entries)'
  BY <1>1 DEF Once, Wheel
<1>8. adding'.n = 0 /\ adding.n \in 1 .. pool_used /\ \A x \in 1 .. pool_used : x # 0
  BY <1>2, <1>3, <1>4, NoneTyped
<1>9. \A e \in Entries' : e.n \in 1 .. pool_used' /\ e.n # adding'.n /\ e.n \notin out'
  <2>1. \A e \in Entries' : e.n \in 1 .. pool_used /\ e.n \notin out
    BY <1>1, <1>4, <1>5, <1>8, Zenon
  <2> QED
    BY <1>2, <1>8, <2>1, Zenon
<1>10. \A e, f \in Entries' : e.n = f.n => e = f
  BY <1>1, <1>4, <1>5, Zenon
<1>11. out' \subseteq 1 .. pool_used' /\ adding'.n \notin out'
  BY <1>2, <1>4, <1>8, Zenon
<1>12. now' \in Nat /\ pool_used' \in 0 .. TW_MAX_ENTRIES
  BY <1>2, <1>4, Zenon
<1>13. Held'
  BY <1>6, <1>7, <1>9, <1>10, <1>11, <1>12, Zenon DEF Held
<1>14. AddInv'
  BY <1>2, NoneTyped DEF AddInv, Placing
<1> QED
  BY <1>13, <1>14 DEF WheelInv

Swept == Ticked(slots, now + 1)

(* tw_advance: the wheel loses what it sweeps, and reports some of that. *)
LEMMA AdvanceStep ==
  ASSUME WheelInv, tw_advance
  PROVE  /\ After(Swept, slots, Entries, now + 1)
         /\ slots' = Swept.wheel /\ Once(slots', Entries') /\ Entries' = Entries \ Range(Swept.due)
         /\ Cardinality(Range(Swept.due)) = Len(Swept.due)
         /\ now' = now + 1 /\ pending' = pending - Len(Swept.due)
         /\ \A x \in out' : \E e \in Range(Swept.due) : x = e.n
<1> DEFINE fired == SubSeq(Swept.due, 1, IF Len(Swept.due) < MaxDue THEN Len(Swept.due) ELSE MaxDue)
<1>1. /\ slots' = Swept.wheel /\ now' = now + 1 /\ pending' = pending - Len(Swept.due)
      /\ out' = {fired[k].n : k \in DOMAIN fired}
  BY Zenon DEF tw_advance, Swept
<1>2. now + 1 \in Nat /\ Once(slots, Entries)
  BY DEF WheelInv, Held
<1>3. After(Swept, slots, Entries, now + 1)
  BY <1>2, TickedOnce, Zenon DEF Swept
<1>4. /\ Swept.due \in Seq(tw_entry_t) /\ IsInjective(Swept.due)
      /\ Once(slots', Entries \ Range(Swept.due))
  BY <1>1, <1>3, Zenon DEF After
<1>5. Entries' = Entries \ Range(Swept.due)
  <2> DEFINE T == Entries \ Range(Swept.due)
  <2>1. Once(slots', T)
    BY <1>4, Zenon
  <2> HIDE DEF T
  <2>2. Entries' = T
    BY <2>1, OnceAll DEF Entries
  <2> QED
    BY <2>2, Zenon DEF T
<1>6. Cardinality(Range(Swept.due)) = Len(Swept.due)
  BY <1>4, ListCount, Zenon
<1>7. \A k \in DOMAIN fired : k \in DOMAIN Swept.due /\ fired[k] = Swept.due[k]
  <2> DEFINE m == IF Len(Swept.due) < MaxDue THEN Len(Swept.due) ELSE MaxDue
  <2>1. m \in Nat /\ m <= Len(Swept.due) /\ Len(Swept.due) \in Nat /\ DOMAIN Swept.due = 1 .. Len(Swept.due)
    BY <1>4, TimerWheelAssumption
  <2> HIDE DEF m
  <2> DEFINE g == SubSeq(Swept.due, 1, m)
  <2>2. DOMAIN g = 1 .. m /\ \A k \in 1 .. m : g[k] = Swept.due[k]
    BY <1>4, <2>1
  <2>3. fired = g
    BY Zenon DEF m
  <2> HIDE DEF g
  <2>4. 1 .. m \subseteq 1 .. Len(Swept.due)
    BY <2>1
  <2> QED
    BY <2>1, <2>2, <2>3, <2>4, Zenon
<1> HIDE DEF fired
<1>8. \A x \in out' : \E e \in Range(Swept.due) : x = e.n
  <2>1. \A k \in DOMAIN fired : fired[k] \in Range(Swept.due)
    BY <1>7, Zenon DEF Range
  <2> QED
    BY <1>1, <2>1, Zenon
<1>9. Once(slots', Entries')
  BY <1>4, <1>5, Zenon
<1> QED
  BY <1>1, <1>3, <1>5, <1>6, <1>8, <1>9, Zenon

(* tw_advance between the steps of a tw_add, but not after its reading of  *)
(* the slot's head, whose list would then be stale.                        *)
LEMMA AdvanceKeeps ==
  ASSUME WheelInv, tw_advance, "linking" \notin Windows
  PROVE  WheelInv'
<1> DEFINE R == Range(Swept.due)
<1>1. /\ Once(slots', Entries') /\ Entries' = Entries \ R
      /\ Cardinality(R) = Len(Swept.due)
      /\ now' = now + 1 /\ pending' = pending - Len(Swept.due)
      /\ \A x \in out' : \E e \in R : x = e.n
  BY AdvanceStep, Zenon
<1>2. R \subseteq Entries
  BY AdvanceStep, Zenon DEF After
<1> HIDE DEF R
<1>3. /\ UNCHANGED <<pool_used, adding>>
      /\ adding # None => adding.step \in Windows
  BY Zenon DEF tw_advance
<1>4. /\ now \in Nat /\ pool_used \in 0 .. TW_MAX_ENTRIES
      /\ IsFiniteSet(Entries) /\ Cardinality(Entries) = pending
      /\ \A e \in Entries : e.n \in 1 .. pool_used /\ e.n # adding.n
      /\ \A e, f \in Entries : e.n = f.n => e = f
  BY Zenon DEF WheelInv, Held
<1>5. IsFiniteSet(Entries') /\ Cardinality(Entries') = pending'
  <2>1. Entries \cap R = R
    BY <1>2, Zenon
  <2> QED
    <3>1. /\ IsFiniteSet(Entries \ R)
          /\ Cardinality(Entries \ R) = Cardinality(Entries) - Cardinality(Entries \cap R)
      BY <1>4, FS_Difference, Zenon
    <3> QED
      BY <1>1, <1>4, <2>1, <3>1, Zenon
<1>6. Once(slots, Entries)'
  BY <1>1 DEF Once, Wheel
<1>7. \A e \in Entries' : e.n \in 1 .. pool_used' /\ e.n # adding'.n
  BY <1>1, <1>3, <1>4, Zenon
<1>8. \A e \in Entries' : e.n \notin out'
  BY <1>1, <1>2, <1>4, Zenon
<1>9. \A e, f \in Entries' : e.n = f.n => e = f
  BY <1>1, <1>4, Zenon
<1>10. out' \subseteq 1 .. pool_used' /\ adding'.n \notin out'
  <2>1. \A x \in out' : x \in 1 .. pool_used /\ x # adding.n
    BY <1>1, <1>2, <1>4, Zenon
  <2> QED
    BY <1>3, <2>1, Zenon
<1>11. now' \in Nat /\ pool_used' \in 0 .. TW_MAX_ENTRIES
  BY <1>1, <1>3, <1>4
<1>12. Held'
  BY <1>5, <1>6, <1>7, <1>8, <1>9, <1>10, <1>11, Zenon DEF Held
<1>13. AddInv'
  <2>1. adding.step # "linking"
    BY <1>3, NoneTyped
  <2> QED
    BY <1>3, <2>1 DEF WheelInv, AddInv, Placing
<1> QED
  BY <1>12, <1>13 DEF WheelInv

LEMMA WheelInvSame ==
  ASSUME WheelInv, UNCHANGED wheelVars
  PROVE  WheelInv'
<1>1. Held'
  BY SameWheel, TimerWheelAssumption DEF WheelInv, wheelVars, Held
<1>2. AddInv'
  BY DEF WheelInv, wheelVars, AddInv, Placing
<1> QED
  BY <1>1, <1>2 DEF WheelInv

LEMMA WheelInvNext ==
  ASSUME WheelInv, [WheelNext]_wheelVars, "linking" \notin Windows
  PROVE  WheelInv'
BY InitKeeps, AdvanceKeeps, AddTestKeeps, AddPlaceKeeps, AddReadHeadKeeps, AddLinkKeeps,
   WheelInvSame, Zenon DEF WheelNext

LEMMA WheelInvAlways ==
  ASSUME "linking" \notin Windows
  PROVE  WheelSpec => []WheelInv
BY InitWheelInv, WheelInvNext, PTL DEF WheelSpec

(* The invariant says what EntriesExact says. *)
LEMMA WheelInvExact ==
  ASSUME WheelInv
  PROVE  EntriesExact
<1>1. /\ Cardinality(Entries) = pending /\ Once(slots, Entries)
      /\ \A e \in Entries : e.n \notin out
      /\ \A e, f \in Entries : e.n = f.n => e = f
  BY Zenon DEF WheelInv, Held
<1> QED
  BY <1>1, Zenon DEF EntriesExact, Once

(* EntriesExact for wheels of any size, pools of any size and any          *)
(* interleaving of tw_advance (timer_wheel.c:65) with tw_add               *)
(* (timer_wheel.c:29), provided no interrupt falls between tw_add's        *)
(* reading of the slot's head and its writing of it: there one does lose   *)
(* entries.                                                                *)
THEOREM EntriesAreExact ==
  ASSUME "linking" \notin Windows
  PROVE  WheelSpec => []EntriesExact
BY WheelInvAlways, WheelInvExact, PTL

-----------------------------------------------------------------------------
(* Quotient and remainder. *)
LEMMA DivMod ==
  ASSUME NEW t \in Nat, NEW p \in Nat \ {0}
  PROVE  /\ t \div p \in Nat /\ t % p \in 0 .. (p - 1)
         /\ t = (t \div p) * p + (t % p)
<1>1. t = p * (t \div p) + (t % p) /\ t \div p \in Nat /\ t % p \in 0 .. (p - 1)
  OBVIOUS
<1>2. p * (t \div p) = (t \div p) * p
  BY <1>1
<1> QED
  BY <1>1, <1>2

(* ... are the only ones. *)
LEMMA DivModOnly ==
  ASSUME NEW p \in Nat \ {0}, NEW q \in Nat, NEW r \in 0 .. (p - 1), NEW t \in Nat, t = q * p + r
  PROVE  t \div p = q /\ t % p = r
<1>1. /\ t \div p \in Nat /\ t % p \in 0 .. (p - 1) /\ t = (t \div p) * p + (t % p)
  BY DivMod
<1> DEFINE a == t \div p
           b == t % p
<1>2. a \in Nat /\ b \in 0 .. (p - 1) /\ a * p + b = q * p + r
  BY <1>1
<1> HIDE DEF a, b
<1>3. ~(a < q)
  <2>1. a < q => a * p + p <= q * p
    BY <1>2
  <2> QED
    BY <1>2, <2>1
<1>4. ~(q < a)
  <2>1. q < a => q * p + p <= a * p
    BY <1>2
  <2> QED
    BY <1>2, <2>1
<1>5. a = q
  BY <1>2, <1>3, <1>4
<1>6. b = r
  BY <1>2, <1>5
<1> QED
  BY <1>5, <1>6 DEF a, b

(* The quotient grows only when the remainder is 0. *)
LEMMA DivNext ==
  ASSUME NEW t \in Nat, NEW p \in Nat \ {0}
  PROVE  (t + 1) \div p = t \div p \/ ((t + 1) % p = 0 /\ (t + 1) \div p = (t \div p) + 1)
<1> DEFINE a == t \div p
           b == t % p
<1>1. a \in Nat /\ b \in 0 .. (p - 1) /\ t = a * p + b
  BY DivMod
<1> HIDE DEF a, b
<1>2. CASE b + 1 < p
  <2>1. b + 1 \in 0 .. (p - 1) /\ t + 1 \in Nat /\ t + 1 = a * p + (b + 1)
    BY <1>1, <1>2
  <2>2. (t + 1) \div p = a
    BY <1>1, <2>1, DivModOnly
  <2> QED
    BY <2>2 DEF a
<1>3. CASE b + 1 = p
  <2>1. (a + 1) * p = a * p + p
    BY <1>1
  <2> DEFINE q == a + 1
             r == b + 1 - p
  <2>2. r \in 0 .. (p - 1) /\ t + 1 \in Nat /\ q \in Nat /\ t + 1 = q * p + r
    BY <1>1, <1>3, <2>1
  <2> HIDE DEF q, r
  <2>3. (t + 1) \div p = q /\ (t + 1) % p = r
    BY <2>2, DivModOnly
  <2>4. q = a + 1 /\ r = 0
    BY <1>1, <1>3 DEF q, r
  <2> QED
    BY <2>3, <2>4 DEF a
<1> QED
  BY <1>1, <1>2, <1>3

(* Quotients are ordered as their dividends are. *)
LEMMA DivOrder ==
  ASSUME NEW t \in Nat, NEW x \in Nat, NEW p \in Nat \ {0}
  PROVE  /\ t + p <= x => t \div p < x \div p
         /\ t <= x => t \div p <= x \div p
         /\ t \div p < x \div p => t < x
         /\ t <= x + p => t \div p <= (x \div p) + 1
         /\ \A k \in Nat : t \div p < (x \div p) + k => t < x + p * k
<1> DEFINE a == t \div p
           b == t % p
           c == x \div p
           d == x % p
<1>1. /\ a \in Nat /\ b \in 0 .. (p - 1) /\ t = a * p + b
      /\ c \in Nat /\ d \in 0 .. (p - 1) /\ x = c * p + d
  BY DivMod
<1> HIDE DEF a, b, c, d
<1>2. a < c => a * p + p <= c * p
  BY <1>1
<1>3. c < a => c * p + p <= a * p
  BY <1>1
<1>4. c = a => c * p = a * p
  BY <1>1
<1>5. c + 1 < a => c * p + p + p <= a * p
  <2>1. c + 1 < a => (c + 1) * p + p <= a * p
    BY <1>1
  <2>2. (c + 1) * p = c * p + p
    BY <1>1
  <2> QED
    BY <2>1, <2>2
<1>6. ASSUME NEW k \in Nat, a < c + k
      PROVE  t < x + p * k
  <2>1. a * p + p <= (c + k) * p
    BY <1>1, <1>6
  <2>2. (c + k) * p = c * p + p * k
    BY <1>1
  <2>3. p * k \in Nat /\ c * p \in Nat /\ a * p \in Nat
    BY <1>1
  <2> QED
    BY <1>1, <2>1, <2>2, <2>3
<1>7. a * p \in Nat /\ c * p \in Nat
  BY <1>1
<1>8. t + p <= x => a < c
  BY <1>1, <1>3, <1>4, <1>7
<1>9. t <= x => a <= c
  BY <1>1, <1>3, <1>7
<1>10. a < c => t < x
  BY <1>1, <1>2, <1>7
<1>11. t <= x + p => a <= c + 1
  BY <1>1, <1>5, <1>7
<1> QED
  BY <1>6, <1>8, <1>9, <1>10, <1>11 DEF a, c

(* Whole turns do not change the remainder. *)
LEMMA ModTurns ==
  ASSUME NEW x \in Nat, NEW s \in Nat \ {0}, NEW q \in Nat
  PROVE  (x + q * s) % s = x % s
<1> DEFINE a == x \div s
           b == x % s
<1>1. a \in Nat /\ b \in 0 .. (s - 1) /\ x = a * s + b
  BY DivMod
<1> HIDE DEF a, b
<1>2. (a + q) * s = a * s + q * s /\ q * s \in Nat /\ a * s \in Nat
  BY <1>1
<1>3. x + q * s \in Nat /\ a + q \in Nat /\ x + q * s = (a + q) * s + b
  BY <1>1, <1>2
<1>4. (x + q * s) % s = b
  BY <1>1, <1>3, DivModOnly
<1> QED
  BY <1>4 DEF b

LEMMA ModTurn ==
  ASSUME NEW x \in Nat, NEW s \in Nat \ {0}
  PROVE  (x + s) % s = x % s
<1> DEFINE q == 1
<1>1. q \in Nat /\ q * s = s
  OBVIOUS
<1> HIDE DEF q
<1>2. (x + q * s) % s = x % s
  BY <1>1, ModTurns
<1> QED
  BY <1>1, <1>2, Zenon

(* Two times of one slot, at most a turn apart. *)
LEMMA ModNear ==
  ASSUME NEW x \in Nat, NEW t \in Nat, NEW s \in Nat \ {0}, x < t, t <= x + s, t % s = x % s
  PROVE  t = x + s
<1> DEFINE a == t \div s
           c == x \div s
           d == x % s
<1>1. /\ a \in Nat /\ t = a * s + d
      /\ c \in Nat /\ d \in 0 .. (s - 1) /\ x = c * s + d
  BY DivMod
<1> HIDE DEF a, c, d
<1>2. a <= c => a * s <= c * s
  BY <1>1
<1>3. c + 1 < a => c * s + s + s <= a * s
  <2>1. c + 1 < a => (c + 1) * s + s <= a * s
    BY <1>1
  <2>2. (c + 1) * s = c * s + s
    BY <1>1
  <2> QED
    BY <2>1, <2>2
<1>4. a * s \in Nat /\ c * s \in Nat
  BY <1>1
<1>5. a = c + 1
  BY <1>1, <1>2, <1>3, <1>4
<1>6. a * s = c * s + s
  BY <1>1, <1>5
<1> QED
  BY <1>1, <1>4, <1>6

(* A turn of a level is no longer than a turn of the wheel. *)
LEMMA SpanBelow ==
  /\ span[TW_LEVELS] = span[TW_LEVELS - 1] * TW_SLOTS
  /\ \A l \in AllLevels : span[l] * TW_SLOTS <= span[TW_LEVELS]
  /\ \A l \in AllLevels : l > 0 => TW_SLOTS <= span[l]
<1> DEFINE S == {m \in Nat : m <= TW_LEVELS => \A l \in 0 .. m : span[l] <= span[m]}
<1>0. TW_LEVELS \in Nat \ {0} /\ TW_SLOTS \in Nat \ {0}
  BY TimerWheelAssumption
<1>1. 0 \in S
  BY SpanSteps
<1>2. ASSUME NEW j \in Nat, j \in S
      PROVE  j + 1 \in S
  <2> SUFFICES ASSUME j + 1 <= TW_LEVELS, NEW l \in 0 .. (j + 1)
               PROVE  span[l] <= span[j + 1]
    OBVIOUS
  <2>1. j + 1 \in 1 .. TW_LEVELS /\ j \in 0 .. TW_LEVELS /\ j + 1 - 1 = j /\ j <= TW_LEVELS
    BY <1>0
  <2>2. span[j + 1] = span[j] * TW_SLOTS /\ span[j] \in Nat
    BY <2>1, SpanSteps, SpanPositive
  <2>3. span[j] <= span[j + 1] /\ span[j + 1] \in Nat
    BY <1>0, <2>2
  <2>4. CASE l \in 0 .. j
    <3>1. span[l] <= span[j] /\ l \in 0 .. TW_LEVELS
      BY <1>0, <1>2, <2>1, <2>4
    <3>2. span[l] \in Nat
      BY <3>1, SpanPositive
    <3> QED
      BY <2>2, <2>3, <3>1, <3>2
  <2>5. CASE l = j + 1
    BY <2>3, <2>5
  <2> QED
    BY <2>4, <2>5
<1>3. ASSUME NEW l \in 0 .. TW_LEVELS, NEW m \in 0 .. l
      PROVE  span[m] <= span[l]
  <2> HIDE DEF S
  <2>1. l \in Nat /\ l <= TW_LEVELS
    BY <1>0
  <2>2. l \in S
    BY <1>1, <1>2, <2>1, Induct, Zenon
  <2> QED
    BY <2>1, <2>2 DEF S
<1>4. ASSUME NEW l \in AllLevels
      PROVE  span[l] * TW_SLOTS <= span[TW_LEVELS]
  <2>1. l + 1 \in 1 .. TW_LEVELS /\ l + 1 - 1 = l /\ l + 1 \in 0 .. TW_LEVELS /\ TW_LEVELS \in 0 .. TW_LEVELS
    BY <1>0 DEF AllLevels
  <2>2. span[l + 1] = span[l] * TW_SLOTS
    <3> DEFINE j == l + 1
    <3>1. j \in 1 .. TW_LEVELS /\ j - 1 = l
      BY <1>0, <2>1 DEF AllLevels
    <3> HIDE DEF j
    <3>2. span[j] = span[j - 1] * TW_SLOTS
      BY <3>1, SpanSteps, Zenon
    <3> QED
      BY <3>1, <3>2, Zenon DEF j
  <2> QED
    BY <1>3, <2>1, <2>2
<1>5. ASSUME NEW l \in AllLevels, l > 0
      PROVE  TW_SLOTS <= span[l]
  <2>1. 1 \in 0 .. l /\ 1 \in 1 .. TW_LEVELS /\ l \in 0 .. TW_LEVELS
    BY <1>0, <1>5 DEF AllLevels
  <2>2. span[1] = TW_SLOTS
    <3>1. span[1] = span[1 - 1] * TW_SLOTS /\ 1 - 1 = 0 /\ span[0] = 1
      BY <2>1, SpanSteps
    <3> QED
      BY <1>0, <3>1
  <2>3. span[1] <= span[l]
    BY <1>3, <2>1, Zenon
  <2> QED
    BY <2>2, <2>3, Zenon
<1>6. span[TW_LEVELS] = span[TW_LEVELS - 1] * TW_SLOTS
  BY <1>0, SpanSteps
<1> QED
  BY <1>4, <1>5, <1>6

(* Where an entry may be at time t so that it will be in time.  An entry   *)
(* of level 0 is due within the turn; an entry above it is in a slot whose *)
(* turn is to come.  One that slipped may miss a turn of its level.        *)
OnTime(e, l, s, t, slipped) ==
  /\ s = SlotOf(e.expiry, l)
  /\ IF slipped
     THEN /\ t < e.expiry + span[TW_LEVELS]
          /\ l > 0 => t \div span[l] < (e.expiry \div span[l]) + TW_SLOTS
     ELSE IF l = 0 THEN t < e.expiry + TW_SLOTS
                   ELSE t \div span[l] < e.expiry \div span[l]

(* Level 0 has a slot for each tick. *)
LEMMA SlotZero ==
  ASSUME NEW x \in Nat
  PROVE  SlotOf(x, 0) = x % TW_SLOTS
<1>1. span[0] = 1 /\ x \div 1 = x
  BY SpanSteps
<1> QED
  BY <1>1 DEF SlotOf

(* The distance decides the level: above 0 it is at least a slot. *)
LEMMA RightLevel ==
  ASSUME NEW x \in Nat, NEW t \in Nat, t <= x, NEW l \in AllLevels, l = level_for(x - t), l > 0
  PROVE  t \div span[l] < x \div span[l] /\ t < x
<1>1. x - t \in Nat /\ l \in 1 .. l /\ l \in 0 .. TW_LEVELS
  BY TimerWheelAssumption DEF AllLevels
<1>2. x - t >= span[l]
  BY <1>1, LevelFor
<1>3. span[l] \in Nat \ {0}
  BY <1>1, SpanPositive
<1>4. t + span[l] <= x
  BY <1>2, <1>3
<1> QED
  BY <1>3, <1>4, DivOrder

(* An entry that is not in the past is placed in time. *)
LEMMA PlacedOnTime ==
  ASSUME NEW e \in tw_entry_t, NEW t \in Nat, t <= e.expiry, NEW l \in AllLevels, NEW s,
         l = level_for(e.expiry - t), s = SlotOf(e.expiry, l)
  PROVE  OnTime(e, l, s, t, FALSE)
<1>1. e.expiry \in Nat
  BY DEF tw_entry_t
<1>2. l > 0 => t \div span[l] < e.expiry \div span[l]
  BY <1>1, RightLevel
<1>3. t < e.expiry + TW_SLOTS /\ (l = 0 \/ l > 0)
  BY <1>1, TimerWheelAssumption DEF AllLevels
<1> QED
  BY <1>2, <1>3 DEF OnTime

(* One tick: an entry that was in time and is neither swept where it was   *)
(* nor placed in the past is in time.                                      *)
LEMMA StaysOnTime ==
  ASSUME NEW e \in tw_entry_t, NEW t \in Nat, NEW k \in AllLevels, NEW m \in AllSlots,
         NEW slipped \in BOOLEAN, OnTime(e, k, m, t, slipped), Untouched(k, m, t + 1)
  PROVE  OnTime(e, k, m, t + 1, slipped)
<1> DEFINE x == e.expiry
           z == t + 1
           W == span[TW_LEVELS]
           P == span[k]
<1>0. x \in Nat /\ z \in Nat /\ TW_SLOTS \in Nat \ {0} /\ k \in 0 .. TW_LEVELS /\ TW_LEVELS \in 0 .. TW_LEVELS
  BY TimerWheelAssumption DEF tw_entry_t, AllLevels
<1>1. P \in Nat \ {0} /\ W \in Nat \ {0}
  BY <1>0, SpanPositive
<1>2. m = SlotOf(x, k)
  BY Zenon DEF OnTime
<1>3. CASE k = 0
  <2>1. m = x % TW_SLOTS /\ SlotOf(z, k) = z % TW_SLOTS
    BY <1>0, <1>2, <1>3, SlotZero
  <2>2. z % P = 0
    BY <1>0, <1>3, SpanSteps
  <2>3. z % TW_SLOTS # x % TW_SLOTS
    BY <2>1, <2>2, Zenon DEF Untouched
  <2>4. z # x + TW_SLOTS
    <3>1. (x + TW_SLOTS) % TW_SLOTS = x % TW_SLOTS
      BY <1>0, ModTurn, Zenon
    <3> QED
      BY <2>3, <3>1, Zenon
  <2>5. z # x + W
    <3>1. W = span[TW_LEVELS - 1] * TW_SLOTS /\ TW_LEVELS - 1 \in 0 .. TW_LEVELS
      BY <1>0, SpanBelow, TimerWheelAssumption
    <3>2. span[TW_LEVELS - 1] \in Nat
      BY <3>1, SpanPositive
    <3>3. (x + span[TW_LEVELS - 1] * TW_SLOTS) % TW_SLOTS = x % TW_SLOTS
      BY <1>0, <3>2, ModTurns
    <3> QED
      BY <2>3, <3>1, <3>3, Zenon
  <2>6. CASE slipped
    <3>1. t < x + W
      BY <2>6 DEF OnTime
    <3>2. z < x + W
      BY <1>0, <1>1, <2>5, <3>1
    <3> QED
      BY <1>2, <1>3, <2>6, <3>2 DEF OnTime
  <2>7. CASE ~slipped
    <3>1. t < x + TW_SLOTS
      BY <1>3, <2>7 DEF OnTime
    <3>2. z < x + TW_SLOTS
      BY <1>0, <2>4, <3>1
    <3> QED
      BY <1>2, <1>3, <2>7, <3>2 DEF OnTime
  <2> QED
    BY <2>6, <2>7
<1>4. CASE k > 0
  <2> DEFINE a == t \div P
             b == z \div P
             c == x \div P
  <2>1. a \in Nat /\ c \in Nat /\ (b = a \/ (z % P = 0 /\ b = a + 1)) /\ b \in Nat
    BY <1>0, <1>1, DivMod, DivNext
  <2>2. b % TW_SLOTS = c % TW_SLOTS => z % P # 0
    BY <1>2, Zenon DEF Untouched, SlotOf
  <2> HIDE DEF a, b, c
  <2>3. b # c \/ b = a
    BY <2>1, <2>2
  <2>4. b # c + TW_SLOTS \/ b = a
    <3>1. (c + TW_SLOTS) % TW_SLOTS = c % TW_SLOTS
      BY <1>0, <2>1, ModTurn, Zenon
    <3> QED
      BY <2>1, <2>2, <3>1, Zenon
  <2>5. CASE slipped
    <3>1. a < c + TW_SLOTS
      BY <1>4, <2>5 DEF OnTime, a, c
    <3>2. b < c + TW_SLOTS
      BY <1>0, <2>1, <2>4, <3>1
    <3>3. z < x + P * TW_SLOTS
      BY <1>0, <1>1, <3>2, DivOrder DEF b, c
    <3>4. P * TW_SLOTS <= W /\ P * TW_SLOTS \in Nat
      BY <1>0, <1>1, SpanBelow
    <3>5. z < x + W
      BY <1>0, <1>1, <3>3, <3>4
    <3> QED
      BY <1>2, <2>5, <3>2, <3>5 DEF OnTime, b, c
  <2>6. CASE ~slipped
    <3>1. a < c /\ k # 0
      BY <1>4, <2>6 DEF OnTime, a, c
    <3>2. b < c
      BY <2>1, <2>3, <3>1
    <3> QED
      BY <1>2, <2>6, <3>1, <3>2 DEF OnTime, b, c
  <2> QED
    BY <2>5, <2>6
<1> QED
  BY <1>0, <1>3, <1>4

(* An entry placed anew is in time again, ... *)
LEMMA ReplacedOnTime ==
  ASSUME NEW e \in tw_entry_t, NEW t \in Nat, NEW l \in AllLevels, NEW s,
         NEW k \in AllLevels, NEW m \in AllSlots, NEW slipped \in BOOLEAN,
         OnTime(e, l, s, t, slipped), Right(e, k, m, t + 1),
         ~(k = 0 /\ m = (t + 1) % TW_SLOTS /\ e.expiry <= t + 1)
  PROVE  OnTime(e, k, m, t + 1, slipped)
<1> DEFINE x == e.expiry
           z == t + 1
           W == span[TW_LEVELS]
<1>0. /\ x \in Nat /\ z \in Nat /\ TW_SLOTS \in Nat \ {0} /\ k \in 0 .. TW_LEVELS /\ l \in 0 .. TW_LEVELS
      /\ TW_LEVELS \in 0 .. TW_LEVELS /\ (k = 0 \/ k > 0) /\ (l = 0 \/ l > 0)
  BY TimerWheelAssumption DEF tw_entry_t, AllLevels
<1>1. span[k] \in Nat \ {0} /\ span[l] \in Nat \ {0} /\ W \in Nat \ {0}
  BY <1>0, SpanPositive
<1>2. m = SlotOf(x, k) /\ k = level_for(Distance(e, z))
  BY Zenon DEF Right
<1>3. CASE x > z
  <2>1. Distance(e, z) = x - z /\ z <= x
    BY <1>0, <1>3 DEF Distance
  <2>2. OnTime(e, k, m, z, FALSE)
    BY <1>0, <1>2, <2>1, PlacedOnTime
  <2>3. z \div span[k] <= x \div span[k] /\ z \div span[k] \in Nat /\ x \div span[k] \in Nat
    BY <1>0, <1>1, <2>1, DivOrder, DivMod
  <2>4. z \div span[k] < (x \div span[k]) + TW_SLOTS /\ z < x + W
    BY <1>0, <1>1, <1>3, <2>3
  <2>5. OnTime(e, k, m, z, TRUE)
    BY <1>2, <2>4 DEF OnTime
  <2> QED
    BY <2>2, <2>5
<1>4. CASE ~(x > z)
  <2>1. Distance(e, z) = 0 /\ x <= z
    BY <1>0, <1>4 DEF Distance
  <2>2. k = 0
    <3>1. ~(0 >= span[k])
      BY <1>1
    <3>2. k > 0 => k \in 1 .. k
      BY <1>0
    <3> QED
      BY <1>0, <1>2, <2>1, <3>1, <3>2, LevelFor
  <2>3. m = x % TW_SLOTS /\ m # z % TW_SLOTS
    BY <1>0, <1>2, <2>1, <2>2, SlotZero
  <2>4. z # x + TW_SLOTS
    <3>1. (x + TW_SLOTS) % TW_SLOTS = x % TW_SLOTS
      BY <1>0, ModTurn, Zenon
    <3> QED
      BY <2>3, <3>1, Zenon
  <2>5. z # x + W
    <3>1. W = span[TW_LEVELS - 1] * TW_SLOTS /\ TW_LEVELS - 1 \in 0 .. TW_LEVELS
      BY <1>0, SpanBelow, TimerWheelAssumption
    <3>2. span[TW_LEVELS - 1] \in Nat
      BY <3>1, SpanPositive
    <3>3. (x + span[TW_LEVELS - 1] * TW_SLOTS) % TW_SLOTS = x % TW_SLOTS
      BY <1>0, <3>2, ModTurns
    <3> QED
      BY <2>3, <3>1, <3>3, Zenon
  <2>6. CASE slipped
    <3>1. t < x + W
      BY <2>6 DEF OnTime
    <3>2. z < x + W
      BY <1>0, <1>1, <2>5, <3>1
    <3> QED
      BY <1>2, <2>2, <2>6, <3>2 DEF OnTime
  <2>7. CASE ~slipped
    <3>1. t < x + TW_SLOTS
      <4>1. CASE l = 0
        BY <2>7, <4>1 DEF OnTime
      <4>2. CASE l > 0
        <5>1. t \div span[l] < x \div span[l]
          BY <2>7, <4>2 DEF OnTime
        <5>2. t < x
          BY <1>0, <1>1, <5>1, DivOrder
        <5> QED
          BY <1>0, <5>2
      <4> QED
        BY <1>0, <4>1, <4>2
    <3>2. z < x + TW_SLOTS
      BY <1>0, <2>4, <3>1
    <3> QED
      BY <1>2, <2>2, <2>7, <3>2 DEF OnTime
  <2> QED
    BY <2>6, <2>7
<1> QED
  BY <1>3, <1>4

(* ... one that is swept is due, ... *)
LEMMA SweptIsDue ==
  ASSUME NEW e \in tw_entry_t, NEW t \in Nat, NEW l \in AllLevels, NEW s,
         OnTime(e, l, s, t, FALSE), e.expiry <= t + 1, (t + 1) % TW_SLOTS = e.expiry % TW_SLOTS
  PROVE  Promise(e, t, FALSE).due = t + 1
<1> DEFINE x == e.expiry
<1>0. x \in Nat /\ TW_SLOTS \in Nat \ {0} /\ l \in 0 .. TW_LEVELS /\ (l = 0 \/ l > 0)
  BY TimerWheelAssumption DEF tw_entry_t, AllLevels
<1>1. CASE x > t
  BY <1>0, <1>1 DEF Promise
<1>2. CASE ~(x > t)
  <2>1. l = 0
    <3> SUFFICES ASSUME l > 0
                 PROVE  FALSE
      BY <1>0
    <3>1. span[l] \in Nat \ {0} /\ t \div span[l] < x \div span[l]
      BY <1>0, SpanPositive DEF OnTime
    <3>2. t < x
      BY <1>0, <3>1, DivOrder
    <3> QED
      BY <1>0, <1>2, <3>2
  <2>2. t < x + TW_SLOTS
    BY <2>1 DEF OnTime
  <2>3. x < t + 1 /\ t + 1 <= x + TW_SLOTS /\ t + 1 \in Nat
    BY <1>0, <1>2, <2>2
  <2>4. t + 1 = x + TW_SLOTS
    BY <1>0, <2>3, ModNear
  <2> QED
    BY <1>2, <2>4 DEF Promise
<1> QED
  BY <1>1, <1>2

(* ... and one that is not swept is not, and is due when it was. *)
LEMMA KeptIsNotDue ==
  ASSUME NEW e \in tw_entry_t, NEW t \in Nat, NEW k \in AllLevels, NEW m,
         OnTime(e, k, m, t + 1, FALSE), ~(k = 0 /\ m = (t + 1) % TW_SLOTS /\ e.expiry <= t + 1)
  PROVE  Promise(e, t, FALSE).due # t + 1 /\ Promise(e, t + 1, FALSE).due = Promise(e, t, FALSE).due
<1> DEFINE x == e.expiry
<1>0. x \in Nat /\ TW_SLOTS \in Nat \ {0} /\ k \in 0 .. TW_LEVELS /\ (k = 0 \/ k > 0) /\ t + 1 \in Nat
  BY TimerWheelAssumption DEF tw_entry_t, AllLevels
<1>1. k > 0 => t + 1 < x
  <2> SUFFICES ASSUME k > 0
               PROVE  t + 1 < x
    OBVIOUS
  <2>1. span[k] \in Nat \ {0} /\ (t + 1) \div span[k] < x \div span[k]
    BY <1>0, SpanPositive DEF OnTime
  <2> QED
    BY <1>0, <2>1, DivOrder
<1>2. k = 0 => t + 1 < x + TW_SLOTS /\ m = x % TW_SLOTS
  BY <1>0, SlotZero DEF OnTime
<1>3. x # t + 1
  BY <1>0, <1>1, <1>2
<1>4. CASE x > t
  BY <1>0, <1>3, <1>4 DEF Promise
<1>5. CASE ~(x > t)
  BY <1>0, <1>1, <1>2, <1>5 DEF Promise
<1> QED
  BY <1>4, <1>5

-----------------------------------------------------------------------------
(* The invariant behind ImplementsQueue. *)
InTime ==
  \A l \in AllLevels, s \in AllSlots : \A e \in Range(slots[l][s]) : OnTime(e, l, s, now, e.n \in hit)
TimeInv ==
  /\ inside \in 0 .. MaxInside
  /\ adding # None => \E d \in Deltas : adding.expiry + inside = now + d
  /\ hit \subseteq 1 .. pool_used /\ adding.n \notin hit
  /\ Placing => /\ adding.slot = SlotOf(adding.expiry, adding.level)
                /\ inside = 0 /\ adding.level > 0 =>
                     now \div span[adding.level] < adding.expiry \div span[adding.level]
  /\ InTime

(* The invariant holds at first, and every step keeps it. *)
LEMMA InitTimeInv ==
  WheelInit => TimeInv
<1> SUFFICES ASSUME WheelInit
             PROVE  TimeInv
  OBVIOUS
<1>1. \A l \in AllLevels, s \in AllSlots : Range(slots[l][s]) = {}
  BY DEF WheelInit, Range
<1>2. InTime
  BY <1>1, Zenon DEF InTime
<1> QED
  BY <1>2, NoneTyped, TimerWheelAssumption DEF TimeInv, WheelInit, Placing

LEMMA InitKeepsTime ==
  ASSUME TimeInv, tw_init
  PROVE  TimeInv'
<1>1. \A l \in AllLevels, s \in AllSlots : Range(slots'[l][s]) = {}
  BY DEF tw_init, Range
<1>2. InTime'
  BY <1>1, Zenon DEF InTime
<1> QED
  BY <1>2, NoneTyped DEF TimeInv, tw_init, Placing

(* The steps of tw_add before the last leave every entry where it is. *)
LEMMA SameTime ==
  ASSUME InTime, UNCHANGED <<now, slots, hit>>
  PROVE  InTime'
BY DEF InTime, OnTime, SlotOf

(* The distance to the expiry is one of Deltas, less the interrupts        *)
(* inside.                                                                 *)
LEMMA AddTestTime ==
  ASSUME WheelInv, TimeInv, NEW d \in Deltas, AddTest(d)
  PROVE  TimeInv'
<1>1. /\ adding' = [None EXCEPT !.step = "tested", !.expiry = now + d]
      /\ UNCHANGED <<now, slots, pool_used, hit>> /\ inside' = 0
  BY Zenon DEF AddTest
<1>2. now \in Nat /\ d \in Nat /\ MaxInside \in Nat /\ pool_used \in Nat
  BY TimerWheelAssumption DEF WheelInv, Held
<1>3. adding'.step = "tested" /\ adding'.n = 0 /\ adding'.expiry = now + d
  BY <1>1 DEF None
<1>4. hit \subseteq 1 .. pool_used /\ InTime
  BY Zenon DEF TimeInv
<1>5. InTime'
  BY <1>1, <1>4, SameTime
<1>6. inside' \in 0 .. MaxInside /\ adding'.expiry + inside' = now' + d
  BY <1>1, <1>2, <1>3
<1>7. hit' \subseteq 1 .. pool_used' /\ adding'.n \notin hit'
  BY <1>1, <1>2, <1>3, <1>4
<1> QED
  BY <1>3, <1>5, <1>6, <1>7 DEF TimeInv, Placing

(* An entry placed without an interrupt has its turn to come. *)
LEMMA AddPlaceTime ==
  ASSUME WheelInv, TimeInv, AddPlace
  PROVE  TimeInv'
<1> DEFINE l == IF now <= adding.expiry THEN level_for(adding.expiry - now) ELSE TW_LEVELS - 1
           x == adding.expiry
<1>1. /\ adding.step = "tested"
      /\ adding' = [adding EXCEPT !.step = "placed", !.n = pool_used + 1, !.level = l,
                                  !.slot = SlotOf(adding.expiry, l)]
      /\ UNCHANGED <<now, slots, inside, hit>> /\ pool_used' = pool_used + 1
  BY Zenon DEF AddPlace
<1>2. /\ adding \in [step : {"none", "tested", "placed", "linking"}, n : Nat, expiry : Nat,
                     level : AllLevels, slot : AllSlots, tail : Seq(tw_entry_t)]
      /\ now \in Nat /\ pool_used \in Nat
  BY DEF WheelInv, Held, AddInv
<1>3. /\ inside \in 0 .. MaxInside /\ hit \subseteq 1 .. pool_used /\ InTime
      /\ \E d \in Deltas : x + inside = now + d
  <2>1. adding # None
    BY <1>1, NoneTyped
  <2> QED
    BY <2>1, Zenon DEF TimeInv
<1>4. inside = 0 => now <= x
  <2>1. \A d \in Deltas : d \in Nat
    BY TimerWheelAssumption, Zenon
  <2> QED
    BY <1>2, <1>3, <2>1
<1>5. inside = 0 /\ l > 0 => now \div span[l] < x \div span[l]
  <2> SUFFICES ASSUME inside = 0, l > 0
               PROVE  now \div span[l] < x \div span[l]
    OBVIOUS
  <2>1. now <= x /\ l = level_for(x - now) /\ x - now \in Nat
    BY <1>2, <1>4
  <2>2. l \in AllLevels
    BY <2>1, LevelFor
  <2> HIDE DEF l
  <2> QED
    BY <1>2, <2>1, <2>2, RightLevel
<1> HIDE DEF l
<1>6. /\ adding'.step = "placed" /\ adding'.n = pool_used + 1 /\ adding'.expiry = x
      /\ adding'.level = l /\ adding'.slot = SlotOf(x, l)
  BY <1>1, <1>2
<1>7. InTime'
  BY <1>1, <1>3, SameTime
<1>8. hit' \subseteq 1 .. pool_used' /\ adding'.n \notin hit'
  BY <1>1, <1>2, <1>3, <1>6
<1>9. /\ adding'.slot = SlotOf(adding'.expiry, adding'.level)
      /\ inside' = 0 /\ adding'.level > 0 =>
           now' \div span[adding'.level] < adding'.expiry \div span[adding'.level]
  BY <1>1, <1>5, <1>6, Zenon
<1>10. inside' \in 0 .. MaxInside /\ \E d \in Deltas : adding'.expiry + inside' = now' + d
  BY <1>1, <1>3, <1>6, Zenon
<1> QED
  BY <1>7, <1>8, <1>9, <1>10, Zenon DEF TimeInv, SlotOf

LEMMA AddReadHeadTime ==
  ASSUME WheelInv, TimeInv, AddReadHead
  PROVE  TimeInv'
<1>1. /\ adding.step = "placed"
      /\ adding' = [adding EXCEPT !.step = "linking", !.tail = slots[adding.level][adding.slot]]
      /\ UNCHANGED <<now, slots, pool_used, inside, hit>>
  BY Zenon DEF AddReadHead
<1>2. adding \in [step : {"none", "tested", "placed", "linking"}, n : Nat, expiry : Nat,
                  level : AllLevels, slot : AllSlots, tail : Seq(tw_entry_t)]
  BY DEF WheelInv, AddInv
<1>3. /\ adding'.n = adding.n /\ adding'.expiry = adding.expiry
      /\ adding'.level = adding.level /\ adding'.slot = adding.slot
  BY <1>1, <1>2
<1>4. Placing /\ adding # None
  BY <1>1, NoneTyped DEF Placing
<1>5. InTime'
  BY <1>1, SameTime DEF TimeInv
<1>6. /\ inside \in 0 .. MaxInside /\ \E d \in Deltas : adding.expiry + inside = now + d
      /\ hit \subseteq 1 .. pool_used /\ adding.n \notin hit
      /\ adding.slot = SlotOf(adding.expiry, adding.level)
      /\ inside = 0 /\ adding.level > 0 =>
           now \div span[adding.level] < adding.expiry \div span[adding.level]
  BY <1>4, Zenon DEF TimeInv
<1>7. /\ inside' \in 0 .. MaxInside /\ \E d \in Deltas : adding'.expiry + inside' = now' + d
      /\ hit' \subseteq 1 .. pool_used' /\ adding'.n \notin hit'
      /\ adding'.slot = SlotOf(adding'.expiry, adding'.level)
      /\ inside' = 0 /\ adding'.level > 0 =>
           now' \div span[adding'.level] < adding'.expiry \div span[adding'.level]
  BY <1>1, <1>3, <1>6
<1> QED
  BY <1>5, <1>7, Zenon DEF TimeInv, SlotOf

(* The last step of tw_add: the new entry is in time, or an interrupt hit  *)
(* it and it slips by no more than a turn.                                 *)
LEMMA AddLinkTime ==
  ASSUME WheelInv, TimeInv, AddLink, TW_LEVELS > 1, MaxInside <= TW_SLOTS
  PROVE  TimeInv'
<1> DEFINE x == adding.expiry
           l == adding.level
           W == span[TW_LEVELS]
<1>1. /\ adding.step = "linking" /\ adding' = None
      /\ hit' = IF inside > 0 THEN hit \cup {adding.n} ELSE hit
      /\ UNCHANGED <<now, pool_used, inside>>
  BY Zenon DEF AddLink
<1>2. Placing /\ adding # None
  BY <1>1, NoneTyped DEF Placing
<1>3. /\ inside \in 0 .. MaxInside /\ \E d \in Deltas : x + inside = now + d
      /\ hit \subseteq 1 .. pool_used /\ adding.n \notin hit
      /\ adding.slot = SlotOf(x, l)
      /\ inside = 0 /\ l > 0 => now \div span[l] < x \div span[l]
      /\ InTime
  BY <1>2, Zenon DEF TimeInv
<1>4. x \in Nat /\ l \in AllLevels /\ now \in Nat /\ pool_used \in Nat /\ MaxInside \in Nat
  BY TimerWheelAssumption DEF WheelInv, Held, AddInv
<1>5. adding.n \in 1 .. pool_used
  BY <1>2, <1>4 DEF WheelInv, AddInv
<1>6. Linked \in tw_entry_t /\ Linked.n = adding.n /\ Linked.expiry = x
  BY LinkStep DEF Linked
<1>7. Became(slots', slots, l, adding.slot, Range(slots[l][adding.slot]) \cup {Linked})
  BY LinkStep, Zenon
<1>8. \A e \in Entries : e.n # adding.n
  BY Zenon DEF WheelInv, Held
<1>9. OnTime(Linked, l, adding.slot, now, Linked.n \in hit')
  <2>1. TW_SLOTS \in Nat \ {0, 1} /\ l \in 0 .. TW_LEVELS /\ TW_LEVELS \in 0 .. TW_LEVELS /\ (l = 0 \/ l > 0)
    BY <1>4, TimerWheelAssumption DEF AllLevels
  <2>2. span[l] \in Nat \ {0} /\ W \in Nat
    BY <2>1, SpanPositive
  <2>3. now <= x + inside
    <3>1. \A d \in Deltas : d \in Nat
      BY TimerWheelAssumption, Zenon
    <3> QED
      BY <1>3, <1>4, <3>1
  <2>4. CASE inside > 0
    <3>1. Linked.n \in hit'
      BY <1>1, <1>6, <2>4, Zenon
    <3>2. now <= x + TW_SLOTS
      BY <1>3, <1>4, <2>1, <2>3
    <3>3. TW_SLOTS < W
      <4>1. 1 \in AllLevels /\ 1 \in 0 .. TW_LEVELS
        BY <2>1 DEF AllLevels
      <4>2. span[1] * TW_SLOTS <= W /\ TW_SLOTS <= span[1] /\ span[1] \in Nat
        BY <4>1, SpanBelow, SpanPositive
      <4>3. 2 * TW_SLOTS <= span[1] * TW_SLOTS
        BY <2>1, <4>2
      <4> QED
        BY <2>1, <2>2, <4>2, <4>3
    <3>4. now < x + W
      BY <1>4, <2>1, <2>2, <3>2, <3>3
    <3>5. l > 0 => now \div span[l] < (x \div span[l]) + TW_SLOTS
      <4> SUFFICES ASSUME l > 0
                   PROVE  now \div span[l] < (x \div span[l]) + TW_SLOTS
        OBVIOUS
      <4>1. TW_SLOTS <= span[l]
        BY <1>4, SpanBelow
      <4>2. now <= x + span[l]
        BY <1>4, <2>1, <2>2, <3>2, <4>1
      <4>3. now \div span[l] <= (x \div span[l]) + 1 /\ now \div span[l] \in Nat /\ x \div span[l] \in Nat
        BY <1>4, <2>2, <4>2, DivOrder, DivMod
      <4> QED
        BY <2>1, <4>3
    <3> QED
      BY <1>3, <1>6, <3>1, <3>4, <3>5 DEF OnTime
  <2>5. CASE ~(inside > 0)
    <3>1. inside = 0 /\ Linked.n \notin hit'
      BY <1>1, <1>3, <1>4, <1>6, <2>5
    <3>2. now < x + TW_SLOTS
      BY <1>4, <2>1, <2>3, <3>1
    <3> QED
      BY <1>3, <1>6, <2>1, <3>1, <3>2 DEF OnTime
  <2> QED
    BY <2>4, <2>5
<1>10. ASSUME NEW k \in AllLevels, NEW m \in AllSlots, NEW e \in Range(slots[k][m])
       PROVE  OnTime(e, k, m, now, e.n \in hit')
  <2>1. e \in Entries
    BY <1>10, Zenon DEF WheelInv, Held, Once
  <2>2. (e.n \in hit') <=> (e.n \in hit)
    BY <1>1, <1>8, <2>1, Zenon
  <2>3. OnTime(e, k, m, now, e.n \in hit)
    BY <1>3, <1>10, Zenon DEF InTime
  <2> QED
    BY <2>2, <2>3 DEF OnTime
<1>11. InTime'
  <2> SUFFICES ASSUME NEW k \in AllLevels, NEW m \in AllSlots, NEW e \in Range(slots'[k][m])
               PROVE  OnTime(e, k, m, now', e.n \in hit')
    BY Zenon DEF InTime, OnTime, SlotOf
  <2>1. e \in Range(slots[k][m]) \/ (k = l /\ m = adding.slot /\ e = Linked)
    BY <1>7, Zenon DEF Became
  <2> QED
    BY <1>1, <1>9, <1>10, <2>1, Zenon
<1>12. hit' \subseteq 1 .. pool_used' /\ adding'.n \notin hit'
  <2>1. hit' \subseteq 1 .. pool_used
    BY <1>1, <1>3, <1>5, Zenon
  <2>2. 0 \notin 1 .. pool_used /\ adding'.n = 0
    BY <1>1, <1>4, NoneTyped
  <2> QED
    BY <1>1, <2>1, <2>2, Zenon
<1> QED
  BY <1>1, <1>3, <1>11, <1>12, NoneTyped DEF TimeInv, Placing

(* What tw_advance leaves is in time, ... *)
LEMMA KeptInTime ==
  ASSUME WheelInv, TimeInv, tw_advance,
         NEW k \in AllLevels, NEW m \in AllSlots, NEW e \in Range(slots'[k][m])
  PROVE  /\ OnTime(e, k, m, now + 1, e.n \in hit)
         /\ ~(k = 0 /\ m = (now + 1) % TW_SLOTS /\ e.expiry <= now + 1)
<1>1. /\ After(Swept, slots, Entries, now + 1)
      /\ slots' = Swept.wheel /\ Once(slots', Entries') /\ Entries' = Entries \ Range(Swept.due)
  BY AdvanceStep
<1>2. /\ ~(k = 0 /\ m = (now + 1) % TW_SLOTS /\ e.expiry <= now + 1)
      /\ (e \in Range(slots[k][m]) /\ Untouched(k, m, now + 1)) \/ Right(e, k, m, now + 1)
  BY <1>1, Zenon DEF After
<1>3. e \in Entries
  BY <1>1, Zenon DEF Once
<1>4. now \in Nat /\ Once(slots, Entries)
  BY Zenon DEF WheelInv, Held
<1>5. PICK l \in AllLevels, s \in AllSlots : e \in Range(slots[l][s])
  BY <1>3, <1>4, Zenon DEF Once
<1>6. e \in tw_entry_t
  <2>1. slots[l][s] \in Seq(tw_entry_t)
    BY <1>4 DEF Once, Wheel
  <2> QED
    BY <1>5, <2>1 DEF Range
<1> DEFINE slipped == e.n \in hit
<1>7. \A j \in AllLevels, r \in AllSlots : e \in Range(slots[j][r]) => OnTime(e, j, r, now, slipped)
  BY Zenon DEF TimeInv, InTime
<1>8. slipped \in BOOLEAN
  OBVIOUS
<1> HIDE DEF slipped
<1>9. CASE e \in Range(slots[k][m]) /\ Untouched(k, m, now + 1)
  <2>1. OnTime(e, k, m, now, slipped)
    BY <1>7, <1>9, Zenon
  <2>2. OnTime(e, k, m, now + 1, slipped)
    BY <1>4, <1>6, <1>8, <1>9, <2>1, StaysOnTime, Zenon
  <2> QED
    BY <1>2, <2>2, Zenon DEF slipped
<1>10. CASE Right(e, k, m, now + 1)
  <2>1. OnTime(e, l, s, now, slipped)
    BY <1>5, <1>7, Zenon
  <2>2. OnTime(e, k, m, now + 1, slipped)
    BY <1>2, <1>4, <1>6, <1>8, <1>10, <2>1, ReplacedOnTime, Zenon
  <2> QED
    BY <1>2, <2>2, Zenon DEF slipped
<1> QED
  BY <1>2, <1>9, <1>10, Zenon

(* ... so the invariant is kept. *)
LEMMA AdvanceTime ==
  ASSUME WheelInv, TimeInv, tw_advance
  PROVE  TimeInv'
<1>1. /\ now' = now + 1 /\ UNCHANGED <<pool_used, adding, hit>>
      /\ inside' = IF adding # None THEN inside + 1 ELSE inside
      /\ adding # None => inside < MaxInside
  BY Zenon DEF tw_advance
<1>2. now \in Nat /\ MaxInside \in Nat
  BY TimerWheelAssumption DEF WheelInv, Held
<1>3. /\ inside \in 0 .. MaxInside /\ hit \subseteq 1 .. pool_used /\ adding.n \notin hit
      /\ adding # None => \E d \in Deltas : adding.expiry + inside = now + d
      /\ Placing => adding.slot = SlotOf(adding.expiry, adding.level)
  BY Zenon DEF TimeInv
<1>4. InTime'
  BY <1>1, KeptInTime DEF InTime, OnTime, SlotOf
<1>5. inside' \in 0 .. MaxInside /\ (adding # None => inside' # 0)
  BY <1>1, <1>2, <1>3
<1>6. ASSUME adding # None
      PROVE  \E d \in Deltas : adding'.expiry + inside' = now' + d
  <2>1. PICK d \in Deltas : adding.expiry + inside = now + d
    BY <1>3, <1>6, Zenon
  <2>2. adding.expiry \in Nat /\ d \in Nat
    BY TimerWheelAssumption DEF WheelInv, AddInv
  <2>3. adding'.expiry + inside' = now' + d
    BY <1>1, <1>2, <1>3, <1>6, <2>1, <2>2
  <2> QED
    BY <2>3, Zenon
<1>7. Placing => adding # None
  BY NoneTyped DEF Placing
<1>8. Placing' => inside' # 0 /\ adding'.slot = SlotOf(adding'.expiry, adding'.level)
  BY <1>1, <1>3, <1>5, <1>7 DEF Placing
<1> QED
  BY <1>1, <1>3, <1>4, <1>5, <1>6, <1>8, Zenon DEF TimeInv, SlotOf

LEMMA TimeInvSame ==
  ASSUME TimeInv, UNCHANGED wheelVars
  PROVE  TimeInv'
<1>1. InTime'
  BY SameTime, Zenon DEF TimeInv, wheelVars
<1> QED
  BY <1>1 DEF TimeInv, wheelVars, Placing, SlotOf

LEMMA TimeInvNext ==
  ASSUME WheelInv, TimeInv, [WheelNext]_wheelVars, TW_LEVELS > 1, MaxInside <= TW_SLOTS
  PROVE  TimeInv'
BY InitKeepsTime, AdvanceTime, AddTestTime, AddPlaceTime, AddReadHeadTime, AddLinkTime,
   TimeInvSame, Zenon DEF WheelNext

-----------------------------------------------------------------------------
(* The queue's entry for an entry of the wheel: ... *)
LEMMA PromiseFacts ==
  ASSUME NEW e, NEW t, NEW b
  PROVE  /\ Promise(e, t, b).n = e.n /\ Promise(e, t, b).slips = b
         /\ b => Promise(e, t, b).due = e.expiry
BY DEF Promise

(* ... what tw_advance sweeps is due, ... *)
LEMMA SweptFacts ==
  ASSUME WheelInv, TimeInv, tw_advance, NEW e \in Range(Swept.due)
  PROVE  /\ e.expiry <= now + 1
         /\ e.n \notin hit => Promise(e, now, FALSE).due = now + 1
<1> DEFINE z == (now + 1) % TW_SLOTS
<1>1. After(Swept, slots, Entries, now + 1)
  BY AdvanceStep
<1>2. /\ e.expiry <= now + 1 /\ e \in Entries
      /\ e \in Range(slots[0][z]) \/ Right(e, 0, z, now + 1)
  BY <1>1, Zenon DEF After
<1>3. now \in Nat /\ Once(slots, Entries)
  BY Zenon DEF WheelInv, Held
<1>4. PICK l \in AllLevels, s \in AllSlots : e \in Range(slots[l][s])
  BY <1>2, <1>3, Zenon DEF Once
<1>5. e \in tw_entry_t
  <2>1. slots[l][s] \in Seq(tw_entry_t)
    BY <1>3 DEF Once, Wheel
  <2> QED
    BY <1>4, <2>1 DEF Range
<1>6. 0 \in AllLevels /\ z \in AllSlots
  BY <1>3, TimerWheelAssumption DEF AllLevels, AllSlots
<1>7. \A j \in AllLevels, r \in AllSlots : e \in Range(slots[j][r]) => OnTime(e, j, r, now, e.n \in hit)
  BY Zenon DEF TimeInv, InTime
<1>8. z = SlotOf(e.expiry, 0)
  BY <1>2, <1>6, <1>7, Zenon DEF OnTime, Right
<1>9. z = e.expiry % TW_SLOTS
  BY <1>5, <1>8, SlotZero DEF tw_entry_t
<1>10. ASSUME e.n \notin hit
       PROVE  Promise(e, now, FALSE).due = now + 1
  <2>1. OnTime(e, l, s, now, FALSE)
    <3>1. OnTime(e, l, s, now, e.n \in hit)
      BY <1>4, <1>7, Zenon
    <3> QED
      BY <1>10, <3>1 DEF OnTime
  <2> QED
    BY <1>2, <1>3, <1>5, <1>9, <2>1, SweptIsDue
<1> QED
  BY <1>2, <1>10, Zenon

(* ... and what it leaves is not. *)
LEMMA KeptFacts ==
  ASSUME WheelInv, TimeInv, tw_advance, NEW e \in Entries'
  PROVE  /\ e.n \in hit => now + 1 < e.expiry + span[TW_LEVELS]
         /\ e.n \notin hit => Promise(e, now, FALSE).due # now + 1
         /\ Promise(e, now + 1, e.n \in hit) = Promise(e, now, e.n \in hit)
<1>1. Once(slots', Entries')
  BY AdvanceStep
<1>2. PICK k \in AllLevels, m \in AllSlots : e \in Range(slots'[k][m])
  BY <1>1, Zenon DEF Once
<1>3. e \in tw_entry_t
  <2>1. slots'[k][m] \in Seq(tw_entry_t)
    BY <1>1 DEF Once, Wheel
  <2> QED
    BY <1>2, <2>1 DEF Range
<1>4. /\ OnTime(e, k, m, now + 1, e.n \in hit)
      /\ ~(k = 0 /\ m = (now + 1) % TW_SLOTS /\ e.expiry <= now + 1)
  BY <1>2, KeptInTime, Zenon
<1>5. now \in Nat
  BY Zenon DEF WheelInv, Held
<1>6. CASE e.n \in hit
  <2>1. now + 1 < e.expiry + span[TW_LEVELS]
    BY <1>4, <1>6 DEF OnTime
  <2>2. Promise(e, now + 1, e.n \in hit) = Promise(e, now, e.n \in hit)
    BY <1>6 DEF Promise
  <2> QED
    BY <1>6, <2>1, <2>2, Zenon
<1>7. CASE e.n \notin hit
  <2>1. OnTime(e, k, m, now + 1, FALSE)
    BY <1>4, <1>7 DEF OnTime
  <2>2. Promise(e, now, FALSE).due # now + 1 /\ Promise(e, now + 1, FALSE).due = Promise(e, now, FALSE).due
    BY <1>3, <1>4, <1>5, <2>1, KeptIsNotDue
  <2>3. Promise(e, now + 1, e.n \in hit) = Promise(e, now, e.n \in hit)
    BY <1>7, <2>2 DEF Promise
  <2> QED
    BY <1>7, <2>2, <2>3, Zenon
<1> QED
  BY <1>6, <1>7, Zenon

(* tw_init, and the steps of tw_add before the last, in the queue. *)
LEMMA QueueInit ==
  WheelInit => Queue!Init
<1> SUFFICES ASSUME WheelInit
             PROVE  Queue!Init
  OBVIOUS
<1>1. Entries = {}
  <2>1. Once(slots, {})
    BY EmptyWheel, Zenon DEF WheelInit
  <2> QED
    BY <2>1, OnceAll DEF Entries
<1>2. Waiting = {}
  BY <1>1, Zenon DEF Waiting
<1>3. Added = 0
  BY NoneTyped DEF Added, WheelInit
<1> QED
  BY <1>2, <1>3 DEF Queue!Init, WheelInit

LEMMA QueueReset ==
  ASSUME tw_init
  PROVE  Queue!Reset
<1>1. Entries' = {}
  <2>1. Once(slots', {})
    BY EmptyWheel, Zenon DEF tw_init
  <2> QED
    BY <2>1, OnceAll DEF Entries
<1>2. Waiting' = {}
  BY <1>1, Zenon DEF Waiting
<1>3. Added' = 0
  BY NoneTyped DEF Added, tw_init
<1> QED
  BY <1>2, <1>3 DEF Queue!Reset, tw_init

LEMMA QueueSame ==
  ASSUME UNCHANGED <<now, slots, hit, out>>, Added' = Added
  PROVE  UNCHANGED Queue!vars
<1>1. Entries' = Entries
  BY DEF Entries
<1>2. Waiting' = Waiting
  BY <1>1 DEF Waiting
<1> QED
  BY <1>2 DEF Queue!vars

LEMMA QueueStutters ==
  ASSUME WheelInv, (\E d \in Deltas : AddTest(d)) \/ AddPlace \/ AddReadHead \/ UNCHANGED wheelVars
  PROVE  UNCHANGED Queue!vars
<1>1. /\ adding \in [step : {"none", "tested", "placed", "linking"}, n : Nat, expiry : Nat,
                     level : AllLevels, slot : AllSlots, tail : Seq(tw_entry_t)]
      /\ ~Placing => adding.n = 0
      /\ pool_used \in Nat
  BY DEF WheelInv, Held, AddInv
<1>2. CASE \E d \in Deltas : AddTest(d)
  <2>1. UNCHANGED <<now, slots, pool_used, hit, out>> /\ adding = None
    BY <1>2, Zenon DEF AddTest
  <2>2. adding'.n = 0
    <3>1. PICK d \in Deltas : adding' = [None EXCEPT !.step = "tested", !.expiry = now + d]
      BY <1>2, Zenon DEF AddTest
    <3> QED
      BY <3>1 DEF None
  <2>3. Added' = Added
    BY <2>1, <2>2, NoneTyped DEF Added
  <2> QED
    BY <2>1, <2>3, QueueSame
<1>3. CASE AddPlace
  <2>1. UNCHANGED <<now, slots, hit, out>> /\ adding.step = "tested" /\ pool_used' = pool_used + 1
    BY <1>3, Zenon DEF AddPlace
  <2>2. adding.n = 0
    BY <1>1, <2>1 DEF Placing
  <2>3. adding'.n = pool_used + 1
    BY <1>1, <1>3 DEF AddPlace
  <2>4. Added' = Added
    BY <1>1, <2>1, <2>2, <2>3 DEF Added
  <2> QED
    BY <2>1, <2>4, QueueSame
<1>4. CASE AddReadHead
  <2>1. UNCHANGED <<now, slots, pool_used, hit, out>>
    BY <1>4, Zenon DEF AddReadHead
  <2>2. adding'.n = adding.n
    BY <1>1, <1>4 DEF AddReadHead
  <2>3. Added' = Added
    BY <2>1, <2>2 DEF Added
  <2> QED
    BY <2>1, <2>3, QueueSame
<1>5. CASE UNCHANGED wheelVars
  BY <1>5, QueueSame DEF wheelVars, Added
<1> QED
  BY <1>2, <1>3, <1>4, <1>5

(* The last step of tw_add is the queue's Add. *)
LEMMA QueueAdds ==
  ASSUME WheelInv, TimeInv, AddLink
  PROVE  Queue!Next
<1> DEFINE x == adding.expiry
           b == inside > 0
           p == Promise(Linked, now, b)
<1>1. /\ adding.step = "linking" /\ adding' = None
      /\ hit' = IF inside > 0 THEN hit \cup {adding.n} ELSE hit
      /\ UNCHANGED <<now, pool_used, out>>
  BY Zenon DEF AddLink
<1>2. Placing /\ adding # None
  BY <1>1, NoneTyped DEF Placing
<1>3. inside \in 0 .. MaxInside /\ adding.n \notin hit
  BY Zenon DEF TimeInv
<1>4. PICK d \in Deltas : x + inside = now + d
  BY <1>2, Zenon DEF TimeInv
<1>5. /\ x \in Nat /\ now \in Nat /\ d \in Nat /\ MaxInside \in Nat
      /\ adding.n = pool_used /\ pool_used \in 1 .. TW_MAX_ENTRIES
  BY <1>2, TimerWheelAssumption DEF WheelInv, Held, AddInv
<1>6. Linked.n = adding.n /\ Linked.expiry = x /\ Entries' = Entries \cup {Linked}
  BY LinkStep DEF Linked
<1>7. \A e \in Entries : e.n # adding.n
  BY Zenon DEF WheelInv, Held
<1>8. Added < TW_MAX_ENTRIES /\ Added + 1 = adding.n /\ Added' = Added + 1
  BY <1>1, <1>5, NoneTyped, TimerWheelAssumption DEF Added
<1>9. Waiting' = Waiting \cup {p}
  <2>1. (Linked.n \in hit') = b
    BY <1>1, <1>3, <1>6
  <2>2. \A e \in Entries : (e.n \in hit') = (e.n \in hit)
    BY <1>1, <1>7
  <2>3. Waiting' = {Promise(e, now, e.n \in hit') : e \in Entries \cup {Linked}}
    BY <1>1, <1>6 DEF Waiting, Promise
  <2>4. \A e \in Entries : Promise(e, now, e.n \in hit') = Promise(e, now, e.n \in hit)
    BY <2>2
  <2>5. Promise(Linked, now, Linked.n \in hit') = p
    BY <2>1
  <2> HIDE DEF p
  <2> QED
    BY <2>3, <2>4, <2>5 DEF Waiting
<1>10. CASE b
  <2>1. p = [n |-> Added + 1, due |-> now + d - inside, slips |-> TRUE]
    <3>1. b = TRUE
      BY <1>10
    <3>2. (IF Linked.expiry > now \/ b THEN Linked.expiry ELSE Linked.expiry + TW_SLOTS) = now + d - inside
      BY <1>3, <1>4, <1>5, <1>6, <1>10
    <3> QED
      BY <1>6, <1>8, <3>1, <3>2, Zenon DEF Promise
  <2>2. Queue!Add(now + d - inside, TRUE)
    BY <1>1, <1>8, <1>9, <2>1 DEF Queue!Add
  <2>3. inside \in 1 .. MaxInside
    BY <1>3, <1>5, <1>10
  <2> QED
    BY <2>2, <2>3 DEF Queue!Next
<1>11. CASE ~b
  <2>1. p = [n |-> Added + 1, due |-> now + (IF d = 0 THEN TW_SLOTS ELSE d), slips |-> FALSE]
    <3>1. b = FALSE
      BY <1>11
    <3>2. (IF Linked.expiry > now \/ b THEN Linked.expiry ELSE Linked.expiry + TW_SLOTS)
            = now + (IF d = 0 THEN TW_SLOTS ELSE d)
      BY <1>3, <1>4, <1>5, <1>6, <1>11
    <3> QED
      BY <1>6, <1>8, <3>1, <3>2, Zenon DEF Promise
  <2>2. Queue!Add(now + (IF d = 0 THEN TW_SLOTS ELSE d), FALSE)
    BY <1>1, <1>8, <1>9, <2>1 DEF Queue!Add
  <2> QED
    BY <2>2 DEF Queue!Next
<1> QED
  BY <1>10, <1>11

(* The number of entries that tw_advance sweeps, and of those it reports. *)
LEMMA SweptCounts ==
  ASSUME WheelInv, tw_advance,
         NEW D, D = {Promise(e, now, e.n \in hit) : e \in Range(Swept.due)}
  PROVE  /\ Cardinality(D) = Len(Swept.due) /\ Len(Swept.due) \in Nat
         /\ Cardinality(out') = IF Cardinality(D) <= MaxDue THEN Cardinality(D) ELSE MaxDue
         /\ out' \subseteq {p.n : p \in D}
<1> DEFINE q == Swept.due
           L == Len(q)
           M == IF L < MaxDue THEN L ELSE MaxDue
           f(e) == Promise(e, now, e.n \in hit)
<1>1. After(Swept, slots, Entries, now + 1)
  BY AdvanceStep
<1>2. q \in Seq(tw_entry_t) /\ IsInjective(q) /\ Range(q) \subseteq Entries
  BY <1>1, Zenon DEF After
<1>3. L \in Nat /\ M \in Nat /\ M <= L /\ DOMAIN q = 1 .. L /\ \A k \in 1 .. L : q[k] \in tw_entry_t
  BY <1>2, TimerWheelAssumption
<1>4. \A i, j \in 1 .. L : q[i].n = q[j].n => i = j
  <2>1. \A e, g \in Entries : e.n = g.n => e = g
    BY Zenon DEF WheelInv, Held
  <2>2. \A i \in 1 .. L : q[i] \in Entries
    BY <1>2, <1>3, Zenon DEF Range
  <2> QED
    BY <1>2, <1>3, <2>1, <2>2, Zenon DEF IsInjective
<1>5. out' = {q[k].n : k \in 1 .. M}
  <2> DEFINE g == SubSeq(q, 1, M)
  <2>1. out' = {g[k].n : k \in DOMAIN g}
    BY Zenon DEF tw_advance, Swept
  <2> HIDE DEF M
  <2>2. DOMAIN g = 1 .. M /\ \A k \in 1 .. M : g[k] = q[k]
    BY <1>2, <1>3
  <2> HIDE DEF g
  <2> QED
    BY <2>1, <2>2
<1>6. M = IF L <= MaxDue THEN L ELSE MaxDue
  BY <1>3, TimerWheelAssumption
<1>7. D = {f(q[k]) : k \in 1 .. L}
  BY <1>3 DEF Range
<1>8. \A e : f(e).n = e.n
  BY PromiseFacts
<1> HIDE DEF f, q, L, M
<1>9. Cardinality(D) = L
  <2> DEFINE r == [k \in 1 .. L |-> f(q[k])]
  <2>1. r \in Seq(D) /\ Len(r) = L /\ DOMAIN r = 1 .. L
    BY <1>3, <1>7
  <2>2. IsInjective(r)
    <3>1. \A i, j \in 1 .. L : f(q[i]) = f(q[j]) => i = j
      BY <1>4, <1>8, Zenon
    <3> QED
      BY <2>1, <3>1 DEF IsInjective
  <2>3. Range(r) = D
    BY <1>7, <2>1 DEF Range
  <2> HIDE DEF r
  <2>4. Cardinality(Range(r)) = Len(r)
    BY <2>1, <2>2, ListCount, Zenon
  <2> QED
    BY <2>1, <2>3, <2>4, Zenon
<1>10. Cardinality(out') = M
  <2> DEFINE r == [k \in 1 .. M |-> q[k].n]
  <2>1. r \in Seq(out') /\ Len(r) = M /\ DOMAIN r = 1 .. M
    BY <1>3, <1>5
  <2>2. IsInjective(r)
    <3>1. \A i \in 1 .. M : i \in 1 .. L
      BY <1>3
    <3>2. \A i, j \in 1 .. M : q[i].n = q[j].n => i = j
      BY <1>4, <3>1, Zenon
    <3> QED
      BY <2>1, <3>2 DEF IsInjective
  <2>3. Range(r) = out'
    BY <1>5, <2>1 DEF Range
  <2> HIDE DEF r
  <2>4. Cardinality(Range(r)) = Len(r)
    BY <2>1, <2>2, ListCount, Zenon
  <2> QED
    BY <2>1, <2>3, <2>4, Zenon
<1>11. out' \subseteq {p.n : p \in D}
  <2>1. \A k \in 1 .. M : f(q[k]) \in D /\ f(q[k]).n = q[k].n
    BY <1>3, <1>7, <1>8
  <2> QED
    BY <1>5, <2>1, Zenon
<1> QED
  BY <1>3, <1>6, <1>9, <1>10, <1>11, Zenon DEF L, q

(* tw_advance is the queue's Advance. *)
LEMMA QueueAdvances ==
  ASSUME WheelInv, TimeInv, tw_advance
  PROVE  Queue!Advance
<1> DEFINE R == Range(Swept.due)
           f(e) == Promise(e, now, e.n \in hit)
           D == {f(e) : e \in R}
           late == {p \in D : p.slips}
           W == span[TW_LEVELS]
<1>1. R \subseteq Entries /\ Entries' = Entries \ R
  <2>1. After(Swept, slots, Entries, now + 1) /\ Entries' = Entries \ R
    BY AdvanceStep
  <2> QED
    BY <2>1, Zenon DEF After
<1>2. now' = now + 1 /\ UNCHANGED <<pool_used, adding, hit>>
  BY Zenon DEF tw_advance
<1>3. /\ \A e : f(e).n = e.n /\ f(e).slips = (e.n \in hit)
      /\ \A e : e.n \in hit => f(e).due = e.expiry
      /\ \A e : e.n \notin hit => f(e).due = Promise(e, now, FALSE).due
  <2>1. \A e : e.n \notin hit => f(e).due = Promise(e, now, FALSE).due
    BY DEF Promise
  <2>2. \A e : e.n \in hit => f(e).due = e.expiry
    BY DEF Promise
  <2>3. \A e : f(e).n = e.n /\ f(e).slips = (e.n \in hit)
    BY PromiseFacts
  <2> QED
    BY <2>1, <2>2, <2>3, Zenon
<1>4. \A e, g \in Entries : e.n = g.n => e = g
  BY Zenon DEF WheelInv, Held
<1>5. \A e \in R : e.expiry <= now + 1 /\ (e.n \notin hit => f(e).due = now + 1)
  BY <1>3, SweptFacts, Zenon
<1>6. \A e \in Entries' : /\ e.n \in hit => now + 1 < e.expiry + W
                          /\ e.n \notin hit => f(e).due # now + 1
                          /\ Promise(e, now + 1, e.n \in hit) = f(e)
  BY <1>3, KeptFacts, Zenon
<1>7. Waiting = {f(e) : e \in Entries}
  BY Zenon DEF Waiting
<1>8. Waiting' = {f(e) : e \in Entries'}
  <2>1. Waiting' = {Promise(e, now + 1, e.n \in hit) : e \in Entries'}
    BY <1>2 DEF Waiting, Promise
  <2> HIDE DEF f
  <2> QED
    BY <1>6, <2>1
<1>9. /\ Cardinality(out') = IF Cardinality(D) <= MaxDue THEN Cardinality(D) ELSE MaxDue
      /\ out' \subseteq {p.n : p \in D}
  BY SweptCounts
<1>10. Added' = Added
  BY <1>2, Zenon DEF Added
<1>11. now \in Nat
  BY DEF WheelInv, Held
<1> HIDE DEF f, R
<1>12. D = late \cup {p \in Waiting : ~p.slips /\ p.due = now + 1}
  <2>1. ASSUME NEW e \in R
        PROVE  f(e) \in late \/ (f(e) \in Waiting /\ ~f(e).slips /\ f(e).due = now + 1)
    BY <1>1, <1>3, <1>5, <1>7, Zenon
  <2>2. ASSUME NEW e \in Entries, ~f(e).slips, f(e).due = now + 1
        PROVE  f(e) \in D
    <3>1. e \notin Entries'
      BY <1>3, <1>6, <2>2, Zenon
    <3> QED
      BY <1>1, <2>2, <3>1, Zenon
  <2> DEFINE T == {p \in Waiting : ~p.slips /\ p.due = now + 1}
  <2>3. \A p \in D : p \in late \/ p \in T
    BY <2>1, Zenon
  <2>4. \A p \in late : p \in D
    BY Zenon
  <2>5. \A p \in T : p \in D
    BY <1>7, <2>2, Zenon
  <2> HIDE DEF D, late, T
  <2>6. D = late \cup T
    BY <2>3, <2>4, <2>5, Zenon
  <2> QED
    BY <2>6, Zenon DEF T
<1>13. Waiting' = Waiting \ D
  <2>1. ASSUME NEW e \in Entries'
        PROVE  f(e) \in Waiting /\ f(e) \notin D
    <3>1. e \in Entries /\ e \notin R
      BY <1>1, Zenon
    <3>2. ASSUME NEW g \in R, f(g) = f(e)
          PROVE  FALSE
      <4>1. f(g).n = g.n /\ f(e).n = e.n
        BY <1>3, Zenon
      <4>2. g.n = e.n /\ g \in Entries
        BY <1>1, <3>2, <4>1, Zenon
      <4> QED
        BY <1>4, <3>1, <3>2, <4>2, Zenon
    <3> QED
      BY <1>7, <3>1, <3>2, Zenon
  <2>2. ASSUME NEW e \in Entries, f(e) \notin D
        PROVE  f(e) \in Waiting'
    <3>1. e \in Entries'
      BY <1>1, <2>2, Zenon
    <3> QED
      BY <1>8, <3>1, Zenon
  <2>3. \A p \in Waiting' : \E e \in Entries' : p = f(e)
    BY <1>8, Zenon
  <2>4. \A p \in Waiting : \E e \in Entries : p = f(e)
    BY <1>7, Zenon
  <2> QED
    BY <2>1, <2>2, <2>3, <2>4, Zenon
<1>14. \A p \in D : p.due <= now'
  <2>1. ASSUME NEW e \in R
        PROVE  f(e).due <= now + 1
    <3>1. CASE e.n \in hit
      BY <1>3, <1>5, <3>1, Zenon
    <3>2. CASE e.n \notin hit
      BY <1>5, <1>11, <3>2
    <3> QED
      BY <3>1, <3>2, Zenon
  <2> QED
    BY <1>2, <2>1, Zenon
<1>15. \A p \in Waiting' : p.slips => now' < p.due + W
  <2>1. ASSUME NEW e \in Entries', f(e).slips
        PROVE  now + 1 < f(e).due + W
    BY <1>3, <1>6, <2>1, Zenon
  <2> QED
    BY <1>2, <1>8, <2>1, Zenon
<1>16. late \in SUBSET {p \in Waiting : p.slips}
  BY <1>1, <1>7, Zenon
<1> HIDE DEF D, late
<1> DEFINE due == late \cup {p \in Waiting : ~p.slips /\ p.due = now + 1}
<1>17. D = due
  BY <1>12, Zenon
<1> HIDE DEF due
<1>18. /\ now' = now + 1
       /\ Waiting' = Waiting \ due
       /\ \A p \in due : p.due <= now'
       /\ \A p \in Waiting' : p.slips => now' < p.due + W
       /\ out' \subseteq {p.n : p \in due}
       /\ Cardinality(out') = IF Cardinality(due) <= MaxDue THEN Cardinality(due) ELSE MaxDue
       /\ Added' = Added
  BY <1>2, <1>9, <1>10, <1>13, <1>14, <1>15, <1>17, Zenon
<1>19. \E lt \in SUBSET {e \in Waiting : e.slips} :
         LET d == lt \cup {e \in Waiting : ~e.slips /\ e.due = now + 1}
         IN /\ now' = now + 1
            /\ Waiting' = Waiting \ d
            /\ \A e \in d : e.due <= now'
            /\ \A e \in Waiting' : e.slips => now' < e.due + W
            /\ out' \subseteq {e.n : e \in d}
            /\ Cardinality(out') = IF Cardinality(d) <= MaxDue THEN Cardinality(d) ELSE MaxDue
            /\ UNCHANGED Added
  <2> WITNESS late \in SUBSET {e \in Waiting : e.slips}
  <2>1. late \cup {e \in Waiting : ~e.slips /\ e.due = now + 1} = due
    BY Zenon DEF due
  <2> QED
    BY <1>18, <2>1, Zenon
<1>20. \A S : Queue!Cardinality(S) = Cardinality(S)
  BY Zenon DEF Queue!Cardinality, Cardinality
<1> QED
  BY <1>19, <1>20, Zenon DEF Queue!Advance

(* Every step of the wheel is a step of the queue, or leaves it alone. *)
LEMMA QueueNext ==
  ASSUME WheelInv, TimeInv, [WheelNext]_wheelVars
  PROVE  [Queue!Next]_(Queue!vars)
<1>1. CASE tw_init
  BY <1>1, QueueReset DEF Queue!Next
<1>2. CASE tw_advance
  BY <1>2, QueueAdvances DEF Queue!Next
<1>3. CASE AddLink
  BY <1>3, QueueAdds
<1>4. CASE (\E d \in Deltas : AddTest(d)) \/ AddPlace \/ AddReadHead \/ UNCHANGED wheelVars
  BY <1>4, QueueStutters
<1> QED
  BY <1>1, <1>2, <1>3, <1>4 DEF WheelNext

(* Both invariants, together. *)
LEMMA TimeInvAlways ==
  ASSUME "linking" \notin Windows, TW_LEVELS > 1, MaxInside <= TW_SLOTS
  PROVE  WheelSpec => [](WheelInv /\ TimeInv)
<1>1. WheelInit => WheelInv /\ TimeInv
  BY InitWheelInv, InitTimeInv
<1>2. WheelInv /\ TimeInv /\ [WheelNext]_wheelVars => (WheelInv /\ TimeInv)'
  BY WheelInvNext, TimeInvNext
<1> QED
  BY <1>1, <1>2, PTL DEF WheelSpec

(* ImplementsQueue for wheels of any size: tw_advance (timer_wheel.c:65)   *)
(* reports each entry at the tick that TimerQueue says, however often      *)
(* cascade has moved it.  As in EntriesAreExact no interrupt falls between *)
(* tw_add's reading of a slot's head and its writing of it.  The wheel has *)
(* a level above 0, and no more ticks pass inside one tw_add than level 0  *)
(* has slots: one held up for a turn of the whole wheel links its entry    *)
(* later than the queue allows.                                            *)
THEOREM WheelImplementsQueue ==
  ASSUME "linking" \notin Windows, TW_LEVELS > 1, MaxInside <= TW_SLOTS
  PROVE  WheelSpec => ImplementsQueue
<1>1. WheelInv /\ TimeInv /\ [WheelNext]_wheelVars => [Queue!Next]_(Queue!vars)
  BY QueueNext
<1> QED
  BY <1>1, TimeInvAlways, QueueInit, PTL DEF WheelSpec, ImplementsQueue, Queue!Spec
=============================================================================
