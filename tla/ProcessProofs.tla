--------------------------- MODULE ProcessProofs ----------------------------
(***************************************************************************)
(* Theorems about programs of several processes or threads: the threads    *)
(* that share a registry of Capabilities, with a table of CapHandles on    *)
(* top of it, and the services that Supervisor starts, for any units,      *)
(* dependencies, loads, delays and numbers of processes.  The two share no *)
(* state, and each part assumes the constants of its own only.             *)
(***************************************************************************)
EXTENDS CapHandles, Supervisor, SequenceTheorems, TLAPS

-----------------------------------------------------------------------------
(***************************************************************************)
(* For any registry, any threads and any requests: deriving narrows,       *)
(* immortal capabilities live, and a cascade reaches what was linked; for  *)
(* any handle table on top of it, a handle opens what it was issued for.   *)
(***************************************************************************)

(* What a thread is about to create is within the parent it checked. *)
WantsNarrow ==
  \A t \in Threads : want[t].parent # NoParent =>
    /\ want[t].rights \subseteq rights[want[t].parent]
    /\ PrivilegesWithin(want[t].parent, want[t].flags)
    /\ AudienceWithin(want[t].parent, want[t].aud)

(* Slots not in use are not deleted; what a cascade has visited is. *)
Dead ==
  /\ \A i \in Idx \ used : deleted[i] = 0
  /\ \A i \in Idx : generation[i] = 1 + deleted[i]
  /\ \A i \in swept : deleted[i] = 1
  /\ \A i \in used : "immortal" \in flags[i] => deleted[i] = 0

(* Where the threads' locals point. *)
Busy ==
  \A t \in Threads :
    /\ pc[t] = "link" => self[t] \in used /\ parent[self[t]] \in used
    /\ pc[t] \in {"collect", "walk"} => self[t] \in used /\ deleted[self[t]] = 1
    /\ pc[t] = "create" => want[t].parent \in used \cup {NoParent}
    /\ pc[t] # "walk" => queue[t] = <<>> /\ cut[t] = 0

(* A linked child of a visited object has been visited, or is still in a   *)
(* queue, or was cut off, or came late.                                    *)
Reached(i) ==
  \/ i \in late
  \/ deleted[i] = 1 /\ i \in swept
  \/ \E t \in Threads : i \in Range(queue[t])
  \/ \E t \in Threads : cut[t] = 1
  \/ CutShort

AllReached == \A i \in used : Linked(i) /\ parent[i] \in swept => Reached(i)

IInv == TypeOK /\ WantsNarrow /\ AuthorityNarrows /\ Dead /\ Busy /\ AllReached

-----------------------------------------------------------------------------
LEMMA SeqGrows ==
  ASSUME NEW S, NEW T, S \subseteq T
  PROVE  Seq(S) \subseteq Seq(T)
BY SeqMonotonic, Zenon

LEMMA RangeIn ==
  ASSUME NEW S, NEW s \in Seq(S)
  PROVE  Range(s) \subseteq S
BY RangeOfSeq, Zenon DEF Range

LEMMA RangeCons ==
  ASSUME NEW S, NEW a \in S, NEW s \in Seq(S)
  PROVE  Range(<<a>> \o s) = {a} \cup Range(s)
<1>1. <<a>> \in Seq(S)
  OBVIOUS
<1>2. Range(<<a>>) = {a}
  BY DEF Range
<1>3. Range(<<a>> \o s) = Range(<<a>>) \cup Range(s)
  <2> DEFINE one == <<a>>
  <2>1. one \in Seq(S)
    BY <1>1, Zenon
  <2> HIDE DEF one
  <2>2. Range(one \o s) = Range(one) \cup Range(s)
    BY <2>1, RangeConcatenation, ZenonT(40)
  <2> QED BY <2>2, Zenon DEF one
<1> QED BY <1>2, <1>3, Zenon

LEMMA HeadOrTail ==
  ASSUME NEW S, NEW s \in Seq(S), s # <<>>
  PROVE  /\ Head(s) \in S /\ Tail(s) \in Seq(S)
         /\ \A x \in Range(s) : x = Head(s) \/ x \in Range(Tail(s))
<1>1. /\ Head(s) \in S /\ Tail(s) \in Seq(S) /\ Len(s) \in Nat \ {0}
      /\ Len(Tail(s)) = Len(s) - 1
      /\ \A k \in 1 .. Len(Tail(s)) : Tail(s)[k] = s[k + 1]
  BY HeadTailProperties
<1>2. ASSUME NEW k \in 1 .. Len(s) PROVE s[k] = Head(s) \/ s[k] \in Range(Tail(s))
  <2>1. CASE k = 1
    BY <2>1
  <2>2. CASE k # 1
    <3>1. k - 1 \in 1 .. Len(Tail(s)) /\ Tail(s)[k - 1] = s[k]
      BY <1>1, <2>2
    <3>2. DOMAIN Tail(s) = 1 .. Len(Tail(s))
      BY <1>1, LenProperties, Zenon
    <3> QED BY <3>1, <3>2, Zenon DEF Range
  <2> QED BY <2>1, <2>2, Zenon
<1>3. DOMAIN s = 1 .. Len(s)
  BY LenProperties, Zenon
<1> QED BY <1>1, <1>2, <1>3, Zenon DEF Range

LEMMA TypeInit == Init => TypeOK
<1> SUFFICES ASSUME Init PROVE TypeOK
  BY Zenon
<1> USE CapAssumption DEF Init
<1>1. used \subseteq Idx /\ swept \subseteq used /\ late \subseteq used
  BY DEF Idx
<1>2. /\ rights \in [Idx -> SUBSET Rights] /\ aud \in [Idx -> SUBSET (Threads \cup {Anyone})]
      /\ flags \in [Idx -> SUBSET Flags] /\ parent \in [Idx -> used \cup {NoParent}]
      /\ deleted \in [Idx -> {0, 1}] /\ generation \in [Idx -> {1, 2}]
  BY Zenon DEF Flags
<1>3. children \in [Idx -> Seq(used)] /\ queue \in [Threads -> Seq(used)]
  OBVIOUS
<1>4. want \in [Threads -> [parent : used \cup {NoParent}, rights : SUBSET Rights,
        aud : SUBSET (Threads \cup {Anyone}), flags : SUBSET Flags]]
  BY Zenon DEF Nothing
<1>5. /\ pc \in [Threads -> {"idle", "create", "link", "collect", "walk"}]
      /\ self \in [Threads -> used \cup {NoParent}]
      /\ tail \in [Threads -> 0 .. CascadeMax] /\ cut \in [Threads -> {0, 1}]
  OBVIOUS
<1> QED BY <1>1, <1>2, <1>3, <1>4, <1>5, Zenon DEF TypeOK

(* The children that fit into the queue, and what becomes of it. *)
LEMMA EnqueueType ==
  ASSUME TypeOK, NEW t \in Threads, NEW i \in used, NEW rest \in Seq(used), Enqueue(t, i, rest)
  PROVE  /\ queue' \in [Threads -> Seq(used)] /\ tail' \in [Threads -> 0 .. CascadeMax]
         /\ cut' \in [Threads -> {0, 1}] /\ swept' \subseteq used
         /\ \A u \in Threads \ {t} : queue'[u] = queue[u] /\ cut'[u] = cut[u]
         /\ Range(rest) \subseteq Range(queue'[t])
         /\ cut[t] = 1 => cut'[t] = 1
         /\ cut'[t] = 1 \/ Range(children[i]) \subseteq Range(queue'[t])
<1> DEFINE room == CascadeMax - tail[t]
           fits == Len(children[i]) <= room
           more == IF fits THEN children[i] ELSE SubSeq(children[i], 1, room)
<1>1. i \in Idx /\ children[i] \in Seq(used) /\ room \in Nat
  BY CapAssumption DEF TypeOK
<1>2. more \in Seq(used) /\ Len(more) \in 0 .. room
  <2>1. CASE fits
    BY <1>1, <2>1, LenProperties
  <2>2. CASE ~fits
    <3>1. Len(children[i]) \in Nat /\ room < Len(children[i])
      BY <1>1, <2>2, LenProperties
    <3>2. SubSeq(children[i], 1, room) \in Seq(used) /\ Len(SubSeq(children[i], 1, room)) = room
      BY <1>1, <3>1, SubSeqProperties
    <3> QED BY <1>1, <2>2, <3>2
  <2> QED BY <2>1, <2>2, Zenon
<1>3. /\ queue' = [queue EXCEPT ![t] = rest \o more]
      /\ tail' = [tail EXCEPT ![t] = @ + Len(more)]
      /\ cut' = [cut EXCEPT ![t] = IF fits THEN @ ELSE 1]
      /\ swept' = swept \cup {i}
  BY Zenon DEF Enqueue
<1> HIDE DEF room, fits, more
<1>4. rest \o more \in Seq(used) /\ Range(rest \o more) = Range(rest) \cup Range(more)
  BY <1>2, RangeConcatenation, ConcatProperties
<1>5. queue' \in [Threads -> Seq(used)] /\ swept' \subseteq used
  BY <1>3, <1>4, Zenon DEF TypeOK
<1>6. tail' \in [Threads -> 0 .. CascadeMax]
  BY <1>1, <1>2, <1>3, CapAssumption DEF TypeOK, room
<1>7. cut' \in [Threads -> {0, 1}] /\ (cut[t] = 1 => cut'[t] = 1)
  BY <1>3, Zenon DEF TypeOK
<1>8. \A u \in Threads \ {t} : queue'[u] = queue[u] /\ cut'[u] = cut[u]
  BY <1>3, Zenon DEF TypeOK
<1>9. Range(rest) \subseteq Range(queue'[t])
  BY <1>3, <1>4, Zenon DEF TypeOK
<1>10. cut'[t] = 1 \/ Range(children[i]) \subseteq Range(queue'[t])
  <2>1. CASE fits
    BY <1>3, <1>4, <2>1, Zenon DEF TypeOK, more
  <2>2. CASE ~fits
    BY <1>3, <2>2, Zenon DEF TypeOK
  <2> QED BY <2>1, <2>2, Zenon
<1> QED BY <1>5, <1>6, <1>7, <1>8, <1>9, <1>10, Zenon

-----------------------------------------------------------------------------
(* Marking an object keeps the types. *)
LEMMA MarkType ==
  ASSUME TypeOK, Dead, NEW i \in Idx, Mark(i)
  PROVE  /\ deleted' \in [Idx -> {0, 1}] /\ generation' \in [Idx -> {1, 2}]
         /\ deleted'[i] = 1 /\ \A j \in Idx \ {i} : deleted'[j] = deleted[j]
         /\ \A j \in Idx : generation'[j] = 1 + deleted'[j]
<1>1. /\ deleted' \in [Idx -> {0, 1}] /\ deleted'[i] = 1
      /\ \A j \in Idx \ {i} : deleted'[j] = deleted[j]
  BY Zenon DEF TypeOK, Mark
<1>2. generation[i] = 1 + deleted[i] /\ deleted[i] \in {0, 1}
  BY Zenon DEF TypeOK, Dead
<1>3. generation' = [generation EXCEPT ![i] = 2]
  <2>1. generation[i] + (1 - deleted[i]) = 2
    BY <1>2
  <2> QED BY <2>1, Zenon DEF Mark
<1>4. generation' \in [Idx -> {1, 2}] /\ generation'[i] = 2
      /\ \A j \in Idx \ {i} : generation'[j] = generation[j]
  BY <1>3, Zenon DEF TypeOK
<1>5. \A j \in Idx : generation'[j] = 1 + deleted'[j]
  BY <1>1, <1>4 DEF Dead
<1> QED BY <1>1, <1>4, <1>5, Zenon

(* A thread that asks for an object, or finishes. *)
LEMMA CallTypes ==
  ASSUME TypeOK, NEW t \in Threads
  PROVE  /\ Finish(t) => /\ pc' \in [Threads -> {"idle", "create", "link", "collect", "walk"}]
                         /\ want' \in [Threads -> [parent : used \cup {NoParent},
                              rights : SUBSET Rights, aud : SUBSET (Threads \cup {Anyone}),
                              flags : SUBSET Flags]]
                         /\ self' \in [Threads -> used \cup {NoParent}]
         /\ \A p \in used \cup {NoParent}, r \in Request : Want(t, p, r) => TypeOK'
<1>1. ASSUME Finish(t)
      PROVE  /\ pc' \in [Threads -> {"idle", "create", "link", "collect", "walk"}]
             /\ want' \in [Threads -> [parent : used \cup {NoParent},
                  rights : SUBSET Rights, aud : SUBSET (Threads \cup {Anyone}),
                  flags : SUBSET Flags]]
             /\ self' \in [Threads -> used \cup {NoParent}]
  BY <1>1, Zenon DEF Finish, Nothing, TypeOK
<1>2. ASSUME NEW p \in used \cup {NoParent}, NEW r \in Request, Want(t, p, r)
      PROVE  TypeOK'
  <2> DEFINE w == [parent |-> p, rights |-> r.rights, aud |-> r.aud,
                   flags |-> r.flags \cup (IF Anyone \in r.aud THEN {"public"} ELSE {})]
  <2>1. w \in [parent : used \cup {NoParent}, rights : SUBSET Rights,
               aud : SUBSET (Threads \cup {Anyone}), flags : SUBSET Flags]
    BY Zenon DEF Request, Flags
  <2>2. want' = [want EXCEPT ![t] = w] /\ pc' = [pc EXCEPT ![t] = "create"]
        /\ UNCHANGED <<attributes, deleted, generation, children, self, cascade, swept, late>>
    BY <1>2, Zenon DEF Want
  <2> HIDE DEF w
  <2> QED BY <2>1, <2>2, Zenon DEF TypeOK, attributes, cascade
<1> QED BY <1>1, <1>2, Zenon

LEMMA TypePublish ==
  ASSUME TypeOK, NEW t \in Threads, Publish(t)
  PROVE  TypeOK'
<1>1. PICK s \in Idx :
        /\ FirstFree(s)
        /\ used' = used \cup {s}
        /\ rights' = [rights EXCEPT ![s] = want[t].rights]
        /\ aud' = [aud EXCEPT ![s] = want[t].aud]
        /\ flags' = [flags EXCEPT ![s] = want[t].flags]
        /\ parent' = [parent EXCEPT ![s] = want[t].parent]
        /\ IF want[t].parent = NoParent
           THEN Finish(t)
           ELSE /\ pc' = [pc EXCEPT ![t] = "link"] /\ self' = [self EXCEPT ![t] = s]
                /\ UNCHANGED want
  BY Zenon DEF Publish
<1>2. UNCHANGED <<deleted, generation, children, cascade, swept, late>>
  BY Zenon DEF Publish
<1>3. used \subseteq used' /\ used' \subseteq Idx /\ swept' \subseteq used' /\ late' \subseteq used'
  BY <1>1, <1>2, Zenon DEF TypeOK
<1>4. children' \in [Idx -> Seq(used')] /\ queue' \in [Threads -> Seq(used')]
  BY <1>2, <1>3, SeqGrows, Zenon DEF TypeOK, cascade
<1>5. /\ rights' \in [Idx -> SUBSET Rights] /\ aud' \in [Idx -> SUBSET (Threads \cup {Anyone})]
      /\ flags' \in [Idx -> SUBSET Flags] /\ parent' \in [Idx -> used' \cup {NoParent}]
  BY <1>1, <1>3 DEF TypeOK
<1>6. /\ pc' \in [Threads -> {"idle", "create", "link", "collect", "walk"}]
      /\ want' \in [Threads -> [parent : used' \cup {NoParent}, rights : SUBSET Rights,
           aud : SUBSET (Threads \cup {Anyone}), flags : SUBSET Flags]]
      /\ self' \in [Threads -> used' \cup {NoParent}]
  <2>1. CASE want[t].parent = NoParent
    <3>1. Finish(t)
      BY <1>1, <2>1, Zenon
    <3> QED BY <1>3, <3>1, CallTypes, Zenon
  <2>2. CASE want[t].parent # NoParent
    <3>1. /\ pc' = [pc EXCEPT ![t] = "link"] /\ self' = [self EXCEPT ![t] = s]
          /\ UNCHANGED want
      BY <1>1, <2>2, Zenon
    <3> QED BY <1>1, <1>3, <3>1 DEF TypeOK
  <2> QED BY <2>1, <2>2, Zenon
<1> QED BY <1>2, <1>3, <1>4, <1>5, <1>6, Zenon DEF TypeOK, cascade

LEMMA TypeStep ==
  ASSUME TypeOK, Dead, Busy, [Next]_vars
  PROVE  TypeOK'
<1>1. CASE UNCHANGED vars
  BY <1>1, Zenon DEF TypeOK, vars, attributes, calls, cascade
<1> SUFFICES ASSUME NEW t \in Threads,
                    \/ Steps(t)
                    \/ \E r \in RootRequests : wubu_cap_create(t, r)
                    \/ \E p \in Idx, r \in Requests : wubu_cap_derive(t, p, r)
                    \/ \E i \in Idx : wubu_cap_revoke(t, i)
             PROVE  TypeOK'
  BY <1>1, Zenon DEF Next
<1>2. CASE Publish(t)
  BY <1>2, TypePublish, Zenon
<1>3. CASE RegistryFull(t)
  BY <1>3, CallTypes DEF RegistryFull, TypeOK, attributes, cascade
<1>4. CASE wubu_cap_link_child(t)
  <2>1. self[t] \in used /\ parent[self[t]] \in used /\ parent[self[t]] \in Idx
    BY <1>4, Zenon DEF wubu_cap_link_child, Busy, TypeOK
  <2>2. <<self[t]>> \o children[parent[self[t]]] \in Seq(used)
    BY <2>1 DEF TypeOK
  <2>3. children' \in [Idx -> Seq(used)]
    BY <1>4, <2>1, <2>2, Zenon DEF wubu_cap_link_child, TypeOK
  <2>4. late' \subseteq used
    BY <1>4, <2>1, Zenon DEF wubu_cap_link_child, TypeOK
  <2> QED BY <1>4, <2>3, <2>4, CallTypes, SMTT(30) DEF wubu_cap_link_child, TypeOK, attributes, cascade
<1>5. CASE Collect(t)
  <2>1. self[t] \in used /\ <<>> \in Seq(used) /\ Enqueue(t, self[t], <<>>)
    BY <1>5 DEF Collect, Busy
  <2> QED BY <1>5, <2>1, EnqueueType, Zenon DEF Collect, TypeOK, attributes
<1>6. CASE Walk(t)
  <2> DEFINE i == Head(queue[t])
  <2>1. i \in used /\ Tail(queue[t]) \in Seq(used) /\ used \subseteq Idx
    BY <1>6, HeadTailProperties, Zenon DEF Walk, TypeOK
  <2>2. CASE "immortal" \in flags[i]
    BY <1>6, <2>1, <2>2, Zenon DEF Walk, TypeOK, attributes
  <2>3. CASE "immortal" \notin flags[i]
    <3>1. Mark(i) /\ Enqueue(t, i, Tail(queue[t]))
      BY <1>6, <2>3, Zenon DEF Walk
    <3>2. UNCHANGED <<attributes, children, pc, want, self, late>>
      BY <1>6, Zenon DEF Walk
    <3> HIDE DEF i
    <3> QED BY <2>1, <3>1, <3>2, EnqueueType, MarkType, Zenon DEF TypeOK, attributes
  <2> QED BY <2>2, <2>3, Zenon
<1>7. CASE CascadeEnd(t)
  <2>1. flags' \in [Idx -> SUBSET Flags]
    BY <1>7, Zenon DEF CascadeEnd, TypeOK, Flags
  <2>2. tail' \in [Threads -> 0 .. CascadeMax] /\ cut' \in [Threads -> {0, 1}]
    BY <1>7, CapAssumption DEF CascadeEnd, TypeOK
  <2> QED BY <1>7, <2>1, <2>2, CallTypes, Zenon DEF CascadeEnd, TypeOK
<1>8. ASSUME NEW r \in RootRequests, wubu_cap_create(t, r) PROVE TypeOK'
  BY <1>8, CallTypes, CapAssumption, Zenon DEF wubu_cap_create
<1>9. ASSUME NEW p \in Idx, NEW r \in Requests, wubu_cap_derive(t, p, r) PROVE TypeOK'
  BY <1>9, CallTypes, CapAssumption, Zenon DEF wubu_cap_derive, MayDerive
<1>10. ASSUME NEW i \in Idx, wubu_cap_revoke(t, i) PROVE TypeOK'
  <2>1. i \in used /\ Mark(i) /\ UNCHANGED <<attributes, children, want, cascade, swept, late>>
    BY <1>10, Zenon DEF wubu_cap_revoke
  <2>2. /\ pc' \in [Threads -> {"idle", "create", "link", "collect", "walk"}]
        /\ self' \in [Threads -> used \cup {NoParent}]
    <3>1. CASE "eager" \in flags[i]
      <4>1. pc' = [pc EXCEPT ![t] = "collect"] /\ self' = [self EXCEPT ![t] = i]
        BY <1>10, <3>1, Zenon DEF wubu_cap_revoke
      <4> QED BY <2>1, <4>1, Zenon DEF TypeOK
    <3>2. CASE "eager" \notin flags[i]
      <4>1. UNCHANGED <<pc, self>>
        BY <1>10, <3>2, Zenon DEF wubu_cap_revoke
      <4> QED BY <4>1, Zenon DEF TypeOK
    <3> QED BY <3>1, <3>2, Zenon
  <2> QED BY <2>1, <2>2, MarkType, Zenon DEF TypeOK, attributes, cascade
<1> QED BY <1>2, <1>3, <1>4, <1>5, <1>6, <1>7, <1>8, <1>9, <1>10 DEF Steps

-----------------------------------------------------------------------------
(* What an object in use is made of never changes, the mark of a truncated *)
(* cascade aside.                                                          *)
Kept(i) ==
  /\ rights'[i] = rights[i] /\ aud'[i] = aud[i] /\ parent'[i] = parent[i]
  /\ \A f \in {"public", "immortal", "eager"} : f \in flags'[i] <=> f \in flags[i]
  /\ "truncated" \in flags[i] => "truncated" \in flags'[i]

LEMMA KeepsAttributes ==
  ASSUME TypeOK, [Next]_vars
  PROVE  used \subseteq used' /\ \A i \in used : Kept(i)
<1>1. CASE UNCHANGED attributes
  BY <1>1, Zenon DEF attributes, Kept
<1>2. ASSUME NEW t \in Threads, Publish(t)
      PROVE  used \subseteq used' /\ \A i \in used : Kept(i)
  <2>1. PICK s \in Idx :
          /\ s \notin used
          /\ used' = used \cup {s}
          /\ rights' = [rights EXCEPT ![s] = want[t].rights]
          /\ aud' = [aud EXCEPT ![s] = want[t].aud]
          /\ flags' = [flags EXCEPT ![s] = want[t].flags]
          /\ parent' = [parent EXCEPT ![s] = want[t].parent]
    BY <1>2, Zenon DEF Publish, FirstFree
  <2> QED BY <2>1, Zenon DEF Kept, TypeOK
<1>3. ASSUME NEW t \in Threads, CascadeEnd(t)
      PROVE  used \subseteq used' /\ \A i \in used : Kept(i)
  <2>1. /\ UNCHANGED <<used, rights, aud, parent>>
        /\ flags' = [flags EXCEPT ![self[t]] = IF cut[t] = 1 THEN @ \cup {"truncated"} ELSE @]
    BY <1>3, Zenon DEF CascadeEnd
  <2> QED BY <2>1, Zenon DEF Kept, TypeOK
<1>4. ASSUME NEW t \in Threads,
             \/ RegistryFull(t) \/ wubu_cap_link_child(t) \/ Collect(t) \/ Walk(t)
             \/ \E r \in RootRequests : wubu_cap_create(t, r)
             \/ \E p \in Idx, r \in Requests : wubu_cap_derive(t, p, r)
             \/ \E i \in Idx : wubu_cap_revoke(t, i)
      PROVE  UNCHANGED attributes
  BY <1>4, Zenon DEF RegistryFull, wubu_cap_link_child, Collect, Walk, wubu_cap_create,
              wubu_cap_derive, Want, wubu_cap_revoke
<1>5. CASE UNCHANGED vars
  BY <1>5, <1>1, Zenon DEF vars
<1> QED BY <1>1, <1>2, <1>3, <1>4, <1>5, Zenon DEF Next, Steps

(* Being within an object is kept with the object. *)
LEMMA KeepsWithin ==
  ASSUME TypeOK, [Next]_vars
  PROVE  \A p \in used : \A r, f, a :
           /\ r \subseteq rights[p] => r \subseteq rights'[p]
           /\ f \cap {"public", "immortal"} \subseteq flags[p]
                => f \cap {"public", "immortal"} \subseteq flags'[p]
           /\ "public" \in flags[p] \/ (Anyone \notin a /\ a \subseteq aud[p])
                => "public" \in flags'[p] \/ (Anyone \notin a /\ a \subseteq aud'[p])
<1> TAKE p \in used
<1> TAKE r, f, a
<1>1. Kept(p)
  BY KeepsAttributes, Zenon
<1>2. f \cap {"public", "immortal"} \subseteq flags[p]
        => f \cap {"public", "immortal"} \subseteq flags'[p]
  BY <1>1, Zenon DEF Kept
<1>3. r \subseteq rights[p] => r \subseteq rights'[p]
  BY <1>1, Zenon DEF Kept
<1> QED BY <1>1, <1>2, <1>3, Zenon DEF Kept

(* A pending request either was pending before or has just been checked.   *)
LEMMA WantsStep ==
  ASSUME TypeOK, TypeOK', WantsNarrow, [Next]_vars
  PROVE  WantsNarrow'
<1> SUFFICES ASSUME NEW t \in Threads, want'[t].parent # NoParent
             PROVE  /\ want'[t].rights \subseteq rights'[want'[t].parent]
                    /\ want'[t].flags \cap {"public", "immortal"} \subseteq flags'[want'[t].parent]
                    /\ \/ "public" \in flags'[want'[t].parent]
                       \/ Anyone \notin want'[t].aud /\ want'[t].aud \subseteq aud'[want'[t].parent]
  BY Zenon DEF WantsNarrow, PrivilegesWithin, AudienceWithin
<1>1. CASE want'[t] = want[t]
  <2>1. want[t].parent \in used
    BY <1>1, Zenon DEF TypeOK
  <2> QED BY <1>1, <2>1, KeepsWithin, Zenon DEF WantsNarrow, PrivilegesWithin, AudienceWithin
<1>2. ASSUME NEW p \in Idx, NEW r \in Requests, wubu_cap_derive(t, p, r)
      PROVE  /\ want'[t].rights \subseteq rights'[want'[t].parent]
             /\ want'[t].flags \cap {"public", "immortal"} \subseteq flags'[want'[t].parent]
             /\ \/ "public" \in flags'[want'[t].parent]
                \/ Anyone \notin want'[t].aud /\ want'[t].aud \subseteq aud'[want'[t].parent]
  <2>1. /\ want'[t] = [parent |-> p, rights |-> r.rights, aud |-> r.aud,
                       flags |-> r.flags \cup (IF Anyone \in r.aud THEN {"public"} ELSE {})]
        /\ UNCHANGED <<rights, flags, aud>>
    BY <1>2 DEF wubu_cap_derive, Want, TypeOK, attributes
  <2>2. /\ r.rights \subseteq rights[p]
        /\ r.flags \cap {"public", "immortal"} \subseteq flags[p]
        /\ "public" \in flags[p] \/ (Anyone \notin r.aud /\ r.aud \subseteq aud[p])
    BY <1>2, Zenon DEF wubu_cap_derive, MayDerive, PrivilegesWithin, AudienceWithin
  <2> QED BY <2>1, <2>2
<1>3. ASSUME NEW r \in RootRequests, wubu_cap_create(t, r) PROVE FALSE
  BY <1>3, Zenon DEF wubu_cap_create, Want, TypeOK
<1>4. ASSUME NEW u \in Threads, u # t,
             \/ \E r \in RootRequests : wubu_cap_create(u, r)
             \/ \E p \in Idx, r \in Requests : wubu_cap_derive(u, p, r)
      PROVE  want'[t] = want[t]
  BY <1>4 DEF wubu_cap_create, wubu_cap_derive, Want, TypeOK
<1>5. ASSUME NEW u \in Threads, Steps(u) \/ \E i \in Idx : wubu_cap_revoke(u, i)
      PROVE  want'[t] = want[t]
  <2>1. ASSUME Finish(u) PROVE want'[t] = want[t]
    BY <2>1 DEF Finish, Nothing, TypeOK
  <2>2. CASE UNCHANGED want
    BY <2>2, Zenon
  <2>3. Finish(u) \/ UNCHANGED want
    BY <1>5, Zenon DEF Steps, Publish, RegistryFull, wubu_cap_link_child, Collect, Walk, CascadeEnd,
                wubu_cap_revoke
  <2> QED BY <2>1, <2>2, <2>3, Zenon
<1>6. CASE UNCHANGED vars
  BY <1>1, <1>6, Zenon DEF vars, calls
<1> QED BY <1>1, <1>2, <1>3, <1>4, <1>5, <1>6, Zenon DEF Next

LEMMA NarrowStep ==
  ASSUME TypeOK, TypeOK', WantsNarrow, AuthorityNarrows, [Next]_vars
  PROVE  AuthorityNarrows'
<1> SUFFICES ASSUME NEW i \in used', parent'[i] # NoParent
             PROVE  /\ rights'[i] \subseteq rights'[parent'[i]]
                    /\ flags'[i] \cap {"public", "immortal"} \subseteq flags'[parent'[i]]
                    /\ \/ "public" \in flags'[parent'[i]]
                       \/ Anyone \notin aud'[i] /\ aud'[i] \subseteq aud'[parent'[i]]
  BY Zenon DEF AuthorityNarrows, PrivilegesWithin, AudienceWithin
<1>1. CASE i \in used
  <2>1. Kept(i)
    BY <1>1, KeepsAttributes, Zenon
  <2>2. parent[i] \in used
    BY <1>1, <2>1, Zenon DEF Kept, TypeOK
  <2>3. flags'[i] \cap {"public", "immortal"} = flags[i] \cap {"public", "immortal"}
    BY <2>1, Zenon DEF Kept
  <2> QED BY <1>1, <2>1, <2>2, <2>3, KeepsWithin, Zenon
          DEF AuthorityNarrows, PrivilegesWithin, AudienceWithin, Kept
<1>2. CASE i \notin used
  <2>1. PICK t \in Threads : Publish(t)
    BY <1>2, Zenon DEF Next, Steps, RegistryFull, wubu_cap_link_child, Collect, Walk, CascadeEnd,
                wubu_cap_create, wubu_cap_derive, Want, wubu_cap_revoke, vars, attributes
  <2>2. /\ rights'[i] = want[t].rights /\ aud'[i] = want[t].aud
        /\ flags'[i] = want[t].flags /\ parent'[i] = want[t].parent
    BY <1>2, <2>1 DEF Publish, TypeOK
  <2>3. want[t].parent \in used
    BY <2>2, Zenon DEF TypeOK
  <2> QED BY <2>2, <2>3, KeepsWithin, Zenon DEF WantsNarrow, PrivilegesWithin, AudienceWithin
<1> QED BY <1>1, <1>2, Zenon

-----------------------------------------------------------------------------
(* The steps by what they do to an object's life: nothing, a revocation, a *)
(* cascade taking up its root, or a cascade visiting an object.            *)
LEMMA LifeSteps ==
  ASSUME TypeOK, Busy, [Next]_vars
  PROVE  \/ UNCHANGED <<deleted, generation, swept>>
         \/ \E i \in used : Mark(i) /\ "immortal" \notin flags[i] /\ UNCHANGED <<attributes, swept>>
         \/ \E i \in used : /\ UNCHANGED <<attributes, deleted, generation>> /\ deleted[i] = 1
                            /\ swept' = swept \cup {i}
         \/ \E i \in used : /\ Mark(i) /\ "immortal" \notin flags[i] /\ UNCHANGED attributes
                            /\ swept' = swept \cup {i}
<1>1. CASE UNCHANGED vars
  BY <1>1, Zenon DEF vars
<1>2. ASSUME NEW t \in Threads,
             \/ Publish(t) \/ RegistryFull(t) \/ wubu_cap_link_child(t) \/ CascadeEnd(t)
             \/ \E r \in RootRequests : wubu_cap_create(t, r)
             \/ \E p \in Idx, r \in Requests : wubu_cap_derive(t, p, r)
      PROVE  UNCHANGED <<deleted, generation, swept>>
  BY <1>2, Zenon DEF Publish, RegistryFull, wubu_cap_link_child, CascadeEnd, wubu_cap_create,
              wubu_cap_derive, Want
<1>3. ASSUME NEW t \in Threads, NEW i \in Idx, wubu_cap_revoke(t, i)
      PROVE  i \in used /\ Mark(i) /\ "immortal" \notin flags[i] /\ UNCHANGED <<attributes, swept>>
  BY <1>3, Zenon DEF wubu_cap_revoke
<1>4. ASSUME NEW t \in Threads, Collect(t)
      PROVE  /\ UNCHANGED <<attributes, deleted, generation>> /\ deleted[self[t]] = 1
             /\ self[t] \in used /\ swept' = swept \cup {self[t]}
  BY <1>4, Zenon DEF Collect, Enqueue, Busy
<1>5. ASSUME NEW t \in Threads, Walk(t)
      PROVE  \/ UNCHANGED <<deleted, generation, swept>>
             \/ /\ Head(queue[t]) \in used /\ Mark(Head(queue[t]))
                /\ "immortal" \notin flags[Head(queue[t])]
                /\ UNCHANGED attributes /\ swept' = swept \cup {Head(queue[t])}
  <2>1. Head(queue[t]) \in used
    BY <1>5, HeadTailProperties, Zenon DEF Walk, TypeOK
  <2> QED BY <1>5, <2>1, Zenon DEF Walk, Enqueue
<1> QED BY <1>1, <1>2, <1>3, <1>4, <1>5, Zenon DEF Next, Steps

LEMMA DeadStep ==
  ASSUME TypeOK, TypeOK', Dead, Busy, [Next]_vars
  PROVE  Dead' /\ \A i \in Idx : deleted[i] = 1 => deleted'[i] = 1
<1>1. CASE UNCHANGED <<deleted, generation, swept>>
  <2>1. \A i \in Idx \ used' : deleted[i] = 0
    BY KeepsAttributes, Zenon DEF Dead
  <2>2. ASSUME NEW i \in used', "immortal" \in flags'[i] PROVE deleted[i] = 0
    <3>1. CASE i \in used
      BY <2>2, <3>1, KeepsAttributes, Zenon DEF Kept, Dead
    <3>2. CASE i \notin used
      BY <3>2, Zenon DEF Dead, TypeOK
    <3> QED BY <3>1, <3>2, Zenon
  <2> QED BY <1>1, <2>1, <2>2, Zenon DEF Dead
<1>2. ASSUME NEW i \in used, Mark(i), "immortal" \notin flags[i], UNCHANGED attributes,
             swept' = swept \/ swept' = swept \cup {i}
      PROVE  Dead' /\ \A j \in Idx : deleted[j] = 1 => deleted'[j] = 1
  <2>1. /\ i \in Idx /\ deleted'[i] = 1
        /\ \A j \in Idx \ {i} : deleted'[j] = deleted[j]
        /\ \A j \in Idx : generation'[j] = 1 + deleted'[j]
    BY <1>2, MarkType, Zenon DEF TypeOK
  <2>2. UNCHANGED <<used, flags>>
    BY <1>2, Zenon DEF attributes
  <2> QED BY <1>2, <2>1, <2>2 DEF Dead, TypeOK
<1>3. ASSUME NEW i \in used, UNCHANGED <<attributes, deleted, generation>>, deleted[i] = 1,
             swept' = swept \cup {i}
      PROVE  Dead' /\ \A j \in Idx : deleted[j] = 1 => deleted'[j] = 1
  BY <1>3, Zenon DEF Dead, attributes
<1> QED BY <1>1, <1>2, <1>3, LifeSteps, Zenon

BusyOne(t) ==
  /\ pc[t] = "link" => self[t] \in used /\ parent[self[t]] \in used
  /\ pc[t] \in {"collect", "walk"} => self[t] \in used /\ deleted[self[t]] = 1
  /\ pc[t] = "create" => want[t].parent \in used \cup {NoParent}
  /\ pc[t] # "walk" => queue[t] = <<>> /\ cut[t] = 0

(* A thread's step leaves the other threads' locals alone. *)
LEMMA OthersKept ==
  ASSUME TypeOK, Busy, NEW t \in Threads, NEW u \in Threads, u # t,
         \/ Steps(t)
         \/ \E r \in RootRequests : wubu_cap_create(t, r)
         \/ \E p \in Idx, r \in Requests : wubu_cap_derive(t, p, r)
         \/ \E i \in Idx : wubu_cap_revoke(t, i)
  PROVE  /\ pc'[u] = pc[u] /\ self'[u] = self[u] /\ want'[u] = want[u]
         /\ queue'[u] = queue[u] /\ cut'[u] = cut[u]
<1>t. /\ pc \in [Threads -> {"idle", "create", "link", "collect", "walk"}]
      /\ self \in [Threads -> used \cup {NoParent}]
      /\ want \in [Threads -> [parent : used \cup {NoParent}, rights : SUBSET Rights,
           aud : SUBSET (Threads \cup {Anyone}), flags : SUBSET Flags]]
      /\ queue \in [Threads -> Seq(used)] /\ cut \in [Threads -> {0, 1}]
  BY Zenon DEF TypeOK
<1>1. CASE Publish(t)
  BY <1>t, <1>1 DEF Publish, Finish, cascade
<1>2. CASE RegistryFull(t) \/ wubu_cap_link_child(t) \/ CascadeEnd(t)
  <2>1. Finish(t) /\ UNCHANGED queue /\ (UNCHANGED cut \/ cut' = [cut EXCEPT ![t] = 0])
    BY <1>2, Zenon DEF RegistryFull, wubu_cap_link_child, CascadeEnd, cascade
  <2> QED BY <1>t, <2>1, Zenon DEF Finish
<1>3. CASE Collect(t) \/ Walk(t)
  <2>1. UNCHANGED <<want, self>> /\ (UNCHANGED pc \/ pc' = [pc EXCEPT ![t] = "walk"])
    BY <1>3, Zenon DEF Collect, Walk
  <2>2. \/ \E i, rest : Enqueue(t, i, rest)
        \/ queue' = [queue EXCEPT ![t] = Tail(@)] /\ UNCHANGED cut
    BY <1>3, Zenon DEF Collect, Walk
  <2>3. queue'[u] = queue[u] /\ cut'[u] = cut[u]
    BY <1>t, <2>2, Zenon DEF Enqueue
  <2> QED BY <1>t, <2>1, <2>3, Zenon
<1>4. CASE \/ \E r \in RootRequests : wubu_cap_create(t, r)
           \/ \E p \in Idx, r \in Requests : wubu_cap_derive(t, p, r)
  <2>1. PICK p, r : Want(t, p, r)
    BY <1>4, Zenon DEF wubu_cap_create, wubu_cap_derive
  <2> QED BY <1>t, <2>1, Zenon DEF Want, cascade
<1>5. CASE \E i \in Idx : wubu_cap_revoke(t, i)
  <2>1. /\ UNCHANGED <<want, queue, cut>>
        /\ \/ UNCHANGED <<pc, self>>
           \/ \E i \in Idx : pc' = [pc EXCEPT ![t] = "collect"] /\ self' = [self EXCEPT ![t] = i]
    BY <1>5, Zenon DEF wubu_cap_revoke, cascade
  <2> QED BY <1>t, <2>1, Zenon
<1> QED BY <1>1, <1>2, <1>3, <1>4, <1>5 DEF Steps

LEMMA BusyStep ==
  ASSUME TypeOK, TypeOK', Dead, Busy, [Next]_vars
  PROVE  Busy'
<1> SUFFICES ASSUME NEW u \in Threads PROVE BusyOne(u)'
  BY Zenon DEF Busy, BusyOne
<1>b. BusyOne(u)
  BY Zenon DEF Busy, BusyOne
<1>k. /\ used \subseteq used' /\ used \subseteq Idx /\ \A i \in used : parent'[i] = parent[i]
      /\ \A i \in Idx : deleted[i] = 1 => deleted'[i] = 1
  <2>1. used \subseteq used' /\ \A i \in used : Kept(i)
    BY KeepsAttributes, Zenon
  <2>2. used \subseteq Idx
    BY Zenon DEF TypeOK
  <2>3. \A i \in Idx : deleted[i] = 1 => deleted'[i] = 1
    BY DeadStep, Zenon
  <2> QED BY <2>1, <2>2, <2>3, Zenon DEF Kept
<1>t. /\ pc \in [Threads -> {"idle", "create", "link", "collect", "walk"}]
      /\ self \in [Threads -> used \cup {NoParent}]
      /\ want \in [Threads -> [parent : used \cup {NoParent}, rights : SUBSET Rights,
           aud : SUBSET (Threads \cup {Anyone}), flags : SUBSET Flags]]
      /\ queue \in [Threads -> Seq(used)] /\ cut \in [Threads -> {0, 1}]
  BY Zenon DEF TypeOK
<1>1. CASE /\ pc'[u] = pc[u] /\ self'[u] = self[u] /\ want'[u] = want[u]
           /\ queue'[u] = queue[u] /\ cut'[u] = cut[u]
  BY <1>1, <1>b, <1>k, Zenon DEF BusyOne
<1>2. CASE UNCHANGED vars
  BY <1>1, <1>2, Zenon DEF vars, calls, cascade
<1>3. CASE Publish(u)
  <2>1. pc[u] = "create" /\ UNCHANGED cascade
    BY <1>3, Zenon DEF Publish
  <2>2. CASE want[u].parent = NoParent
    <3>1. pc' = [pc EXCEPT ![u] = "idle"]
      BY <1>3, <2>2, Zenon DEF Publish, Finish
    <3> QED BY <1>b, <1>t, <2>1, <3>1, Zenon DEF BusyOne, cascade
  <2>3. CASE want[u].parent # NoParent
    <3>1. PICK s \in Idx :
            /\ used' = used \cup {s} /\ parent' = [parent EXCEPT ![s] = want[u].parent]
            /\ pc' = [pc EXCEPT ![u] = "link"] /\ self' = [self EXCEPT ![u] = s]
      BY <1>3, <2>3, Zenon DEF Publish
    <3>2. pc'[u] = "link" /\ self'[u] = s /\ parent'[s] = want[u].parent
      <4>1. parent \in [Idx -> used \cup {NoParent}]
        BY Zenon DEF TypeOK
      <4> QED BY <1>t, <3>1, <4>1, Zenon
    <3>3. want[u].parent \in used /\ queue[u] = <<>> /\ cut[u] = 0
      BY <1>b, <2>1, <2>3, Zenon DEF BusyOne
    <3>4. self'[u] \in used' /\ parent'[self'[u]] \in used'
      BY <1>k, <3>1, <3>2, <3>3
    <3>5. queue'[u] = <<>> /\ cut'[u] = 0
      BY <2>1, <3>3, Zenon DEF cascade
    <3> QED BY ONLY <3>2, <3>4, <3>5, Zenon DEF BusyOne
  <2> QED BY <2>2, <2>3, Zenon
<1>4. CASE RegistryFull(u) \/ wubu_cap_link_child(u) \/ CascadeEnd(u)
  <2>1. pc'[u] = "idle" /\ queue'[u] = <<>> /\ cut'[u] = 0
    <3>1. pc' = [pc EXCEPT ![u] = "idle"] /\ UNCHANGED queue
      BY <1>4, Zenon DEF RegistryFull, wubu_cap_link_child, CascadeEnd, Finish, cascade
    <3>2. \/ pc[u] # "walk" /\ UNCHANGED cut
          \/ queue[u] = <<>> /\ cut' = [cut EXCEPT ![u] = 0]
      BY <1>4, Zenon DEF RegistryFull, wubu_cap_link_child, CascadeEnd, cascade
    <3> QED BY <1>b, <1>t, <3>1, <3>2, Zenon DEF BusyOne
  <2> QED BY ONLY <2>1, Zenon DEF BusyOne
<1>5. CASE Collect(u) \/ Walk(u)
  <2>1. pc'[u] = "walk" /\ pc[u] \in {"collect", "walk"} /\ self'[u] = self[u]
    BY <1>t, <1>5, Zenon DEF Collect, Walk
  <2> QED BY <1>b, <1>k, <2>1, Zenon DEF BusyOne
<1>6. CASE \E r \in RootRequests : wubu_cap_create(u, r)
  <2>1. pc'[u] = "create" /\ want'[u].parent = NoParent /\ UNCHANGED cascade /\ pc[u] = "idle"
    <3>1. PICK r \in RootRequests : pc[u] = "idle" /\ Want(u, NoParent, r)
      BY <1>6, Zenon DEF wubu_cap_create
    <3>2. UNCHANGED cascade /\ pc' = [pc EXCEPT ![u] = "create"]
      BY <3>1, Zenon DEF Want
    <3>3. want'[u].parent = NoParent
      BY <1>t, <3>1, Zenon DEF Want
    <3> QED BY <1>t, <3>1, <3>2, <3>3, Zenon
  <2> QED BY <1>b, <2>1, Zenon DEF BusyOne, cascade
<1>7. CASE \E p \in Idx, r \in Requests : wubu_cap_derive(u, p, r)
  <2>1. pc'[u] = "create" /\ want'[u].parent \in used /\ UNCHANGED cascade /\ pc[u] = "idle"
    <3>1. PICK p \in Idx, r \in Requests : pc[u] = "idle" /\ p \in used /\ Want(u, p, r)
      BY <1>7, Zenon DEF wubu_cap_derive, MayDerive
    <3>2. UNCHANGED cascade /\ pc' = [pc EXCEPT ![u] = "create"]
      BY <3>1, Zenon DEF Want
    <3>3. want'[u].parent = p
      BY <1>t, <3>1, Zenon DEF Want
    <3> QED BY <1>t, <3>1, <3>2, <3>3, Zenon
  <2> QED BY <1>b, <1>k, <2>1, Zenon DEF BusyOne, cascade
<1>8. ASSUME NEW i \in Idx, wubu_cap_revoke(u, i) PROVE BusyOne(u)'
  <2>1. pc[u] = "idle" /\ i \in used /\ UNCHANGED cascade /\ Mark(i)
    BY <1>8, Zenon DEF wubu_cap_revoke
  <2>2. deleted'[i] = 1
    BY <2>1, MarkType, Zenon
  <2>3. CASE "eager" \in flags[i]
    <3>1. pc'[u] = "collect" /\ self'[u] = i
      BY <1>t, <1>8, <2>3, Zenon DEF wubu_cap_revoke
    <3> QED BY <1>b, <1>k, <2>1, <2>2, <3>1, Zenon DEF BusyOne, cascade
  <2>4. CASE "eager" \notin flags[i]
    <3>1. pc'[u] = pc[u] /\ self'[u] = self[u]
      BY <1>8, <2>4, Zenon DEF wubu_cap_revoke
    <3> QED BY <1>b, <2>1, <3>1, Zenon DEF BusyOne, cascade
  <2> QED BY <2>3, <2>4, Zenon
<1> QED BY <1>1, <1>2, <1>3, <1>4, <1>5, <1>6, <1>7, <1>8, OthersKept DEF Next, Steps

-----------------------------------------------------------------------------
(* A cascade that is cut short stays so, and says so when it ends. *)
LEMMA CutKept ==
  ASSUME TypeOK, TypeOK', Dead, Busy, [Next]_vars,
         CutShort \/ \E t \in Threads : cut[t] = 1
  PROVE  CutShort' \/ \E t \in Threads : cut'[t] = 1
<1>1. CASE CutShort
  BY <1>1, KeepsAttributes, Zenon DEF CutShort, Kept
<1>2. ASSUME NEW t \in Threads, cut[t] = 1
      PROVE  CutShort' \/ cut'[t] = 1
  <2>0. pc[t] = "walk" /\ self[t] \in used
    BY <1>2 DEF Busy
  <2>1. CASE CascadeEnd(t)
    <3>1. "truncated" \in flags'[self[t]] /\ used' = used
      BY <1>2, <2>0, <2>1, Zenon DEF CascadeEnd, TypeOK
    <3> QED BY <2>0, <3>1, Zenon DEF CutShort
  <2>2. CASE Walk(t)
    <3>1. Head(queue[t]) \in used /\ Tail(queue[t]) \in Seq(used)
      BY <2>2, HeadTailProperties, Zenon DEF Walk, TypeOK
    <3> QED BY <1>2, <2>2, <3>1, EnqueueType, Zenon DEF Walk
  <2>3. CASE UNCHANGED vars
    BY <1>2, <2>3, Zenon DEF vars, calls, cascade
  <2>4. ASSUME NEW u \in Threads, u # t,
               \/ Steps(u)
               \/ \E r \in RootRequests : wubu_cap_create(u, r)
               \/ \E p \in Idx, r \in Requests : wubu_cap_derive(u, p, r)
               \/ \E i \in Idx : wubu_cap_revoke(u, i)
        PROVE  cut'[t] = 1
    BY <1>2, <2>4, OthersKept, Zenon
  <2>5. CASE \/ Publish(t) \/ RegistryFull(t) \/ wubu_cap_link_child(t) \/ Collect(t)
             \/ \E r \in RootRequests : wubu_cap_create(t, r)
             \/ \E p \in Idx, r \in Requests : wubu_cap_derive(t, p, r)
             \/ \E i \in Idx : wubu_cap_revoke(t, i)
    BY <2>0, <2>5, Zenon DEF Publish, RegistryFull, wubu_cap_link_child, Collect, wubu_cap_create,
                      wubu_cap_derive, wubu_cap_revoke
  <2> QED BY <2>1, <2>2, <2>3, <2>4, <2>5, Zenon DEF Next, Steps
<1> QED BY <1>1, <1>2, Zenon

(* What was reached stays reached: a queued object leaves its queue only   *)
(* when it is visited, for it cannot be immortal.                          *)
LEMMA ReachedKept ==
  ASSUME IInv, TypeOK', [Next]_vars, NEW i \in used, parent[i] \in swept, Reached(i)
  PROVE  Reached(i)'
<1> USE DEF IInv
<1>d. parent[i] \in used /\ parent[i] # NoParent /\ deleted[parent[i]] = 1
  <2>1. swept \subseteq used /\ used \subseteq Idx /\ \A j \in swept : deleted[j] = 1
    BY Zenon DEF TypeOK, Dead
  <2>2. NoParent \notin Idx
    BY CapAssumption DEF Idx, NoParent
  <2> QED BY <2>1, <2>2, Zenon
<1>i. "immortal" \notin flags[i]
  BY <1>d DEF AuthorityNarrows, PrivilegesWithin, Dead
<1>1. CASE i \in late
  <2>1. late \subseteq late'
    BY Zenon DEF Next, Steps, Publish, RegistryFull, wubu_cap_link_child, Collect, Walk, CascadeEnd,
           wubu_cap_create, wubu_cap_derive, Want, wubu_cap_revoke, vars
  <2> QED BY <1>1, <2>1, Zenon DEF Reached
<1>2. CASE deleted[i] = 1 /\ i \in swept
  <2>1. swept \subseteq swept'
    BY LifeSteps, Zenon
  <2>2. i \in Idx
    BY Zenon DEF TypeOK
  <2>3. deleted'[i] = 1
    BY <1>2, <2>2, DeadStep, Zenon
  <2> QED BY <1>2, <2>1, <2>3, Zenon DEF Reached
<1>3. CASE CutShort \/ \E t \in Threads : cut[t] = 1
  BY <1>3, CutKept, Zenon DEF Reached
<1>4. ASSUME NEW t \in Threads, i \in Range(queue[t]) PROVE Reached(i)'
  <2>0. queue[t] # <<>> /\ pc[t] = "walk"
    BY <1>4 DEF Range, Busy
  <2>1. CASE Walk(t)
    <3> DEFINE h == Head(queue[t])
    <3>1. /\ h \in used /\ Tail(queue[t]) \in Seq(used) /\ used \subseteq Idx
          /\ i = h \/ i \in Range(Tail(queue[t]))
      <4>1. queue[t] \in Seq(used) /\ used \subseteq Idx
        BY Zenon DEF TypeOK
      <4> QED BY <2>0, <1>4, <4>1, HeadOrTail, Zenon
    <3>2. CASE "immortal" \in flags[h]
      <4>1. i # h
        BY <1>i, <3>2, Zenon
      <4>2. queue'[t] = Tail(queue[t])
        BY <2>1, <3>2 DEF Walk, TypeOK
      <4> QED BY <3>1, <4>1, <4>2, Zenon DEF Reached
    <3>3. CASE "immortal" \notin flags[h]
      <4>1. Mark(h) /\ Enqueue(t, h, Tail(queue[t]))
        BY <2>1, <3>3, Zenon DEF Walk
      <4> HIDE DEF h
      <4>2. deleted'[h] = 1 /\ h \in swept' /\ Range(Tail(queue[t])) \subseteq Range(queue'[t])
        BY <3>1, <4>1, MarkType, EnqueueType, Zenon DEF Enqueue
      <4> QED BY <3>1, <4>2, Zenon DEF Reached
    <3> QED BY <3>2, <3>3, Zenon
  <2>2. CASE UNCHANGED vars
    BY <1>4, <2>2, Zenon DEF vars, calls, cascade, Reached
  <2>3. ASSUME NEW u \in Threads, u # t,
               \/ Steps(u)
               \/ \E r \in RootRequests : wubu_cap_create(u, r)
               \/ \E p \in Idx, r \in Requests : wubu_cap_derive(u, p, r)
               \/ \E j \in Idx : wubu_cap_revoke(u, j)
        PROVE  Reached(i)'
    <3>1. queue'[t] = queue[t]
      BY <2>3, OthersKept, Zenon
    <3> QED BY <1>4, <3>1, Zenon DEF Reached
  <2>4. CASE \/ Publish(t) \/ RegistryFull(t) \/ wubu_cap_link_child(t) \/ Collect(t)
             \/ CascadeEnd(t)
             \/ \E r \in RootRequests : wubu_cap_create(t, r)
             \/ \E p \in Idx, r \in Requests : wubu_cap_derive(t, p, r)
             \/ \E j \in Idx : wubu_cap_revoke(t, j)
    BY <2>0, <2>4, Zenon DEF Publish, RegistryFull, wubu_cap_link_child, Collect, CascadeEnd,
                      wubu_cap_create, wubu_cap_derive, wubu_cap_revoke
  <2> QED BY <2>1, <2>2, <2>3, <2>4, Zenon DEF Next, Steps
<1> QED BY <1>1, <1>2, <1>3, <1>4, Zenon DEF Reached

(* A child is linked after it is published; if its parent has been visited *)
(* by then it comes late, and if the parent is visited later it is queued. *)
LEMMA ReachedStep ==
  ASSUME IInv, TypeOK', [Next]_vars
  PROVE  AllReached'
<1> USE DEF IInv
<1> SUFFICES ASSUME NEW i \in used', parent'[i] # NoParent, parent'[i] \in swept',
                    i \in Range(children'[parent'[i]])
             PROVE  Reached(i)'
  BY Zenon DEF AllReached, Linked
<1>s. swept \subseteq used /\ used \subseteq Idx /\ swept \subseteq swept'
  BY LifeSteps, Zenon DEF TypeOK
<1>1. CASE i \notin used
  <2>1. UNCHANGED <<children, swept>>
    BY <1>1, Zenon DEF Next, Steps, Publish, RegistryFull, wubu_cap_link_child, Collect, Walk,
                CascadeEnd, wubu_cap_create, wubu_cap_derive, Want, wubu_cap_revoke, vars,
                attributes
  <2>2. children[parent'[i]] \in Seq(used)
    BY <1>s, <2>1, Zenon DEF TypeOK
  <2> QED BY <1>1, <2>1, <2>2, RangeIn, Zenon
<1>2. CASE i \in used
  <2>0. parent'[i] = parent[i] /\ parent[i] \in Idx
    BY <1>2, <1>s, KeepsAttributes, Zenon DEF Kept, TypeOK
  <2>1. CASE parent[i] \in swept /\ i \in Range(children[parent[i]])
    <3>1. Reached(i)
      BY <1>2, <2>0, <2>1, Zenon DEF AllReached, Linked
    <3> QED BY <1>2, <2>1, <3>1, ReachedKept, Zenon
  <2>2. CASE i \notin Range(children[parent[i]])
    <3>1. PICK t \in Threads : wubu_cap_link_child(t)
      BY <2>0, <2>2, Zenon DEF Next, Steps, Publish, RegistryFull, Collect, Walk,
                CascadeEnd, wubu_cap_create, wubu_cap_derive, Want, wubu_cap_revoke, vars
    <3>2. /\ self[t] \in used /\ parent[self[t]] \in used
          /\ children[parent[i]] \in Seq(used)
      BY <3>1, <2>0, Zenon DEF Busy, wubu_cap_link_child, TypeOK
    <3>3. parent[i] = parent[self[t]] /\ children'[parent[i]] = <<self[t]>> \o children[parent[i]]
      <4>1. children' = [children EXCEPT ![parent[self[t]]] = <<self[t]>> \o @]
        BY <3>1, Zenon DEF wubu_cap_link_child
      <4>2. children \in [Idx -> Seq(used)] /\ parent[self[t]] \in Idx
        BY <1>s, <3>2, Zenon DEF TypeOK
      <4>3. parent[i] = parent[self[t]]
        BY <2>0, <2>2, <4>1, <4>2, Zenon
      <4> QED BY <2>0, <4>1, <4>2, <4>3, Zenon
    <3>4. Range(<<self[t]>> \o children[parent[i]]) = {self[t]} \cup Range(children[parent[i]])
      BY <3>2, RangeCons
    <3>5. i = self[t]
      BY <2>0, <2>2, <3>3, <3>4, Zenon
    <3> QED BY <2>0, <3>1, <3>5, Zenon DEF wubu_cap_link_child, Reached
  <2>3. CASE parent[i] \notin swept /\ i \in Range(children[parent[i]])
    <3>1. PICK t \in Threads : Collect(t) \/ Walk(t)
      <4>1. swept' = swept \/ \E t \in Threads : Collect(t) \/ Walk(t)
        BY Zenon DEF Next, Steps, Publish, RegistryFull, wubu_cap_link_child,
               CascadeEnd, wubu_cap_create, wubu_cap_derive, Want, wubu_cap_revoke, vars
      <4> QED BY <2>0, <2>3, <4>1
    <3>2. \E rest \in Seq(used) : Enqueue(t, parent[i], rest)
      <4>1. CASE Collect(t)
        <5>1. parent[i] = self[t]
          BY <2>0, <2>3, <4>1, Zenon DEF Collect, Enqueue
        <5>2. <<>> \in Seq(used)
          OBVIOUS
        <5> QED BY <4>1, <5>1, <5>2, Zenon DEF Collect
      <4>2. CASE Walk(t)
        <5>1. Tail(queue[t]) \in Seq(used)
          BY <4>2, HeadOrTail, Zenon DEF Walk, TypeOK
        <5>2. "immortal" \notin flags[Head(queue[t])] /\ parent[i] = Head(queue[t])
          BY <2>0, <2>3, <4>2 DEF Walk, Enqueue
        <5> QED BY <4>2, <5>1, <5>2, Zenon DEF Walk
      <4> QED BY <3>1, <4>1, <4>2, Zenon
    <3>3. parent[i] \in used
      BY <2>0, <1>s, Zenon DEF TypeOK, Idx, NoParent
    <3>4. cut'[t] = 1 \/ Range(children[parent[i]]) \subseteq Range(queue'[t])
      BY <3>2, <3>3, EnqueueType, Zenon
    <3> QED BY <2>3, <3>4, Zenon DEF Reached
  <2> QED BY <2>1, <2>2, <2>3, Zenon
<1> QED BY <1>1, <1>2, Zenon

-----------------------------------------------------------------------------
LEMMA InitInv == Init => IInv
<1> SUFFICES ASSUME Init PROVE IInv
  BY Zenon
<1>1. TypeOK
  BY TypeInit, Zenon
<1>2. WantsNarrow
  BY Zenon DEF Init, WantsNarrow, Nothing
<1>3. AuthorityNarrows
  BY CapAssumption DEF Init, AuthorityNarrows, Idx
<1>4. Dead
  BY CapAssumption DEF Init, Dead, Idx
<1>5. Busy
  BY Zenon DEF Init, Busy
<1>6. AllReached
  BY DEF Init, AllReached
<1> QED BY <1>1, <1>2, <1>3, <1>4, <1>5, <1>6, Zenon DEF IInv

LEMMA StepInv == IInv /\ [Next]_vars => IInv'
<1> SUFFICES ASSUME IInv, [Next]_vars PROVE IInv'
  BY Zenon
<1>1. TypeOK'
  BY TypeStep, Zenon DEF IInv
<1>2. WantsNarrow' /\ AuthorityNarrows'
  BY <1>1, WantsStep, NarrowStep, Zenon DEF IInv
<1>3. Dead' /\ Busy'
  BY <1>1, DeadStep, BusyStep, Zenon DEF IInv
<1>4. AllReached'
  BY <1>1, ReachedStep, Zenon
<1> QED BY <1>1, <1>2, <1>3, <1>4, Zenon DEF IInv

LEMMA Invariant == Spec => []IInv
BY InitInv, StepInv, PTL DEF Spec

(* However derivations, creations and revocations of any threads           *)
(* interleave between the locked sections, no capability ever has more     *)
(* than the one wubu_cap_derive made it from.                              *)
THEOREM DerivingNarrows == Spec => []AuthorityNarrows
<1>1. IInv => AuthorityNarrows
  BY Zenon DEF IInv
<1> QED BY <1>1, Invariant, PTL

(* No revocation, direct or by a cascade, kills an immortal capability or  *)
(* one that an immortal capability hangs from.                             *)
THEOREM ImmortalsLive == Spec => []ImmortalUntouched
<1>1. ASSUME IInv, NEW i \in used, "immortal" \in flags[i]
      PROVE  deleted[i] = 0 /\ (parent[i] # NoParent => deleted[parent[i]] = 0)
  <2>1. deleted[i] = 0
    BY <1>1, Zenon DEF IInv, Dead
  <2>2. CASE parent[i] # NoParent
    <3>1. parent[i] \in used
      BY <1>1, <2>2 DEF IInv, TypeOK
    <3>2. "immortal" \in flags[parent[i]]
      BY <1>1, <2>2, Zenon DEF IInv, AuthorityNarrows, PrivilegesWithin
    <3> QED BY <1>1, <2>1, <3>1, <3>2 DEF IInv, Dead
  <2> QED BY <2>1, <2>2, Zenon
<1>2. IInv => ImmortalUntouched
  BY <1>1, Zenon DEF ImmortalUntouched
<1> QED BY <1>2, Invariant, PTL

(* An eager revocation reaches every child that was linked when it came    *)
(* by, at any depth, unless some cascade was flagged as truncated.         *)
THEOREM CascadesReach == Spec => []CascadeComplete
<1>1. ASSUME IInv, ~CutShort, \A t \in Threads : pc[t] \notin {"collect", "walk"},
             NEW i \in used, Linked(i), parent[i] \in swept, i \notin late
      PROVE  deleted[i] = 1 /\ i \in swept
  <2>1. Reached(i)
    BY <1>1, Zenon DEF IInv, AllReached
  <2>2. \A t \in Threads : queue[t] = <<>> /\ cut[t] = 0
    BY <1>1, Zenon DEF IInv, Busy
  <2>3. \A t \in Threads : Range(queue[t]) = {}
    BY <2>2 DEF Range
  <2> QED BY <1>1, <2>1, <2>2, <2>3 DEF Reached
<1>2. IInv => CascadeComplete
  BY <1>1, Zenon DEF CascadeComplete
<1> QED BY <1>2, Invariant, PTL

-----------------------------------------------------------------------------
(* The handle table.  The free list holds each free slot of the table once; *)
(* a token is younger than its slot's generation once its handle is closed. *)
FreeExact(list, cap) ==
  /\ list \in Seq(Slot)
  /\ \A j, k \in 1..Len(list) : j # k => list[j] # list[k]
  /\ \A s \in Slot : (\E k \in 1..Len(list) : list[k] = s) <=> s < cap /\ object_idx[s] = None

HandleTypes ==
  /\ object_idx \in [Slot -> Idx \cup {None}] /\ local_gen \in [Slot -> Nat]
  /\ capacity \in 1..HandleMax
  /\ issued \subseteq [slot : Slot, gen : Nat, obj : Idx] /\ closed \subseteq issued
  /\ \A s \in Slot : object_idx[s] # None => s < capacity

TokenAge(x) ==
  /\ x.gen <= local_gen[x.slot]
  /\ x \in closed \/ object_idx[x.slot] = None => x.gen < local_gen[x.slot]
  /\ Open(x.slot, x.gen) => object_idx[x.slot] = x.obj

HandleInv ==
  HandleTypes /\ FreeExact(free, capacity) /\ \A x \in issued : TokenAge(x)

(* rebuild_free_list chains the slots from lo up to hi.                    *)
LEMMA Rebuilt ==
  ASSUME NEW lo \in 1..HandleMax, NEW hi \in lo..HandleMax
  PROVE  /\ RebuildFree(<<>>, lo, hi) \in Seq(Slot)
         /\ Len(RebuildFree(<<>>, lo, hi)) = hi - lo
         /\ \A k \in 1..(hi - lo) : RebuildFree(<<>>, lo, hi)[k] = (lo + k) - 1
<1> DEFINE f == [k \in 1 .. (hi - lo) |-> (lo + k) - 1]
<1>1. hi - lo \in Nat
  BY HandleAssumption
<1>2. \A k \in 1..(hi - lo) : (lo + k) - 1 \in Slot
  BY HandleAssumption DEF Slot
<1>3. f \in [1..(hi - lo) -> Slot] /\ \A k \in 1..(hi - lo) : f[k] = (lo + k) - 1
  BY <1>2, Zenon
<1> HIDE DEF f
<1>4. f \in Seq(Slot)
  BY <1>1, <1>3, SeqDef
<1>5. Len(f) = hi - lo
  BY <1>1, <1>3, <1>4, LenProperties
<1>6. RebuildFree(<<>>, lo, hi) = f
  <2>1. f \o <<>> = f
    BY <1>4, ConcatEmptySeq, Zenon
  <2> QED
    BY <2>1, Zenon DEF RebuildFree, f
<1> QED
  BY <1>3, <1>4, <1>5, <1>6, Zenon

(* handle_table_init establishes the invariant.                            *)
LEMMA HandleInit == HInit => HandleInv
<1> SUFFICES ASSUME HInit PROVE HandleInv
  BY Zenon
<1> USE HandleAssumption DEF HInit
<1>1. HandleTypes
  <2>1. capacity \in 1..HandleMax
    OBVIOUS
  <2>2. /\ object_idx \in [Slot -> Idx \cup {None}] /\ local_gen \in [Slot -> Nat]
        /\ \A s \in Slot : object_idx[s] = None
    BY Zenon
  <2> QED
    BY <2>1, <2>2, Zenon DEF HandleTypes
<1>2. /\ free \in Seq(Slot) /\ Len(free) = HandleInitial - 1
      /\ \A k \in 1..(HandleInitial - 1) : free[k] = (1 + k) - 1
  <2>1. 1 \in 1..HandleMax /\ HandleInitial \in 1..HandleMax
    OBVIOUS
  <2> QED
    BY <2>1, Rebuilt, Zenon
<1>3. \A k \in 1..(HandleInitial - 1) : free[k] = k
  BY <1>2
<1>4. FreeExact(free, capacity)
  <2>1. \A s \in Slot : object_idx[s] = None
    BY Zenon
  <2>2. \A s \in Slot : (\E k \in 1..Len(free) : free[k] = s) <=> s < capacity
    BY <1>2, <1>3, SMTT(30) DEF Slot
  <2>3. \A j, k \in 1..Len(free) : j # k => free[j] # free[k]
    BY <1>2, <1>3, Zenon
  <2> QED
    BY <1>2, <2>1, <2>2, <2>3, Zenon DEF FreeExact
<1> QED
  BY <1>1, <1>4, Zenon DEF HandleInv

(* Taking the first slot of a list that holds the free slots once each. *)
LEMMA TakeStep ==
  ASSUME HandleInv, NEW list, NEW cap \in capacity..HandleMax, NEW i \in Idx,
         list # <<>>, FreeExact(list, cap), Take(i, list), capacity' = cap,
         UNCHANGED <<local_gen, closed>>
  PROVE  HandleInv'
<1> DEFINE h == Head(list)
           y == [slot |-> h, gen |-> local_gen[h], obj |-> i]
<1>0. list \in Seq(Slot) /\ capacity \in Nat /\ cap \in Nat /\ capacity <= cap
  BY HandleAssumption DEF FreeExact, HandleInv, HandleTypes
<1>1. /\ h \in Slot /\ h = list[1] /\ Tail(list) \in Seq(Slot) /\ Len(list) \in Nat /\ Len(list) >= 1
      /\ Len(Tail(list)) = Len(list) - 1
      /\ \A k \in 1..(Len(list) - 1) : Tail(list)[k] = list[k + 1]
  BY <1>0
<1>2. h < cap /\ object_idx[h] = None
  BY <1>1 DEF FreeExact
<1>3. /\ object_idx' = [object_idx EXCEPT ![h] = i] /\ free' = Tail(list)
      /\ issued' = issued \cup {y}
  BY Zenon DEF Take
<1>4. i # None /\ i \in Idx
  BY CapAssumption DEF Idx, None
<1> HIDE DEF h, y
<1>5. /\ object_idx'[h] = i /\ \A s \in Slot \ {h} : object_idx'[s] = object_idx[s]
      /\ object_idx' \in [Slot -> Idx \cup {None}]
  BY <1>1, <1>3, <1>4, Zenon DEF HandleInv, HandleTypes
<1>6. y \in [slot : Slot, gen : Nat, obj : Idx] /\ y.slot = h /\ y.gen = local_gen[h] /\ y.obj = i
  BY <1>1, Zenon DEF y, HandleInv, HandleTypes
<1>7. HandleTypes'
  <2>1. \A s \in Slot : object_idx'[s] # None => s < cap
    BY <1>0, <1>2, <1>5 DEF HandleInv, HandleTypes, Slot
  <2>2. /\ issued' \subseteq [slot : Slot, gen : Nat, obj : Idx] /\ closed' \subseteq issued'
        /\ cap \in 1..HandleMax /\ local_gen' \in [Slot -> Nat]
    BY <1>0, <1>3, <1>6, HandleAssumption DEF HandleInv, HandleTypes
  <2> QED
    BY <1>5, <2>1, <2>2, Zenon DEF HandleTypes
<1>8. FreeExact(free, capacity)'
  <2>1. \A j, k \in 1..Len(free') : j # k => free'[j] # free'[k]
    <3> SUFFICES ASSUME NEW j \in 1..Len(free'), NEW k \in 1..Len(free'), j # k
                 PROVE  free'[j] # free'[k]
      BY Zenon
    <3>1. /\ j + 1 \in 1..Len(list) /\ k + 1 \in 1..Len(list) /\ j + 1 # k + 1
          /\ free'[j] = list[j + 1] /\ free'[k] = list[k + 1]
      BY <1>1, <1>3
    <3> QED
      BY <3>1 DEF FreeExact
  <2>2. ASSUME NEW s \in Slot
        PROVE  (\E k \in 1..Len(free') : free'[k] = s) <=> s < cap /\ object_idx'[s] = None
    <3>1. CASE s = h
      <4>1. \A k \in 1..Len(free') : free'[k] # h
        <5> SUFFICES ASSUME NEW k \in 1..Len(free') PROVE free'[k] # h
          BY Zenon
        <5>1. k + 1 \in 1..Len(list) /\ 1 \in 1..Len(list) /\ k + 1 # 1 /\ free'[k] = list[k + 1]
          BY <1>1, <1>3
        <5> QED
          BY <1>1, <5>1, Zenon DEF FreeExact
      <4> QED
        BY <1>4, <1>5, <3>1, <4>1, Zenon
    <3>2. CASE s # h
      <4>1. ASSUME NEW k \in 1..Len(free'), free'[k] = s
            PROVE  \E m \in 1..Len(list) : list[m] = s
        <5>1. k + 1 \in 1..Len(list) /\ list[k + 1] = s
          BY <1>1, <1>3, <4>1
        <5> QED
          BY <5>1, Zenon
      <4>2. ASSUME NEW m \in 1..Len(list), list[m] = s
            PROVE  \E k \in 1..Len(free') : free'[k] = s
        <5>1. m - 1 \in 1..Len(free') /\ (m - 1) + 1 = m
          BY <1>1, <1>3, <3>2, <4>2
        <5>2. free'[m - 1] = s
          BY <1>1, <1>3, <4>2, <5>1, Zenon
        <5> QED
          BY <5>1, <5>2, Zenon
      <4> QED
        BY <1>5, <3>2, <4>1, <4>2, Zenon DEF FreeExact
    <3> QED
      BY <3>1, <3>2, Zenon
  <2> QED
    BY <1>1, <1>3, <2>1, <2>2, Zenon DEF FreeExact
<1>9. ASSUME NEW x \in issued' PROVE TokenAge(x)'
  <2>1. CASE x \in issued
    <3>1. x.slot \in Slot /\ x.gen \in Nat /\ local_gen[x.slot] \in Nat /\ TokenAge(x)
      BY <2>1, Zenon DEF HandleInv, HandleTypes
    <3>2. CASE x.slot = h
      BY <1>2, <1>4, <1>5, <3>1, <3>2 DEF TokenAge, Open
    <3>3. CASE x.slot # h
      BY <1>5, <3>1, <3>3, Zenon DEF TokenAge, Open
    <3> QED
      BY <3>2, <3>3, Zenon
  <2>2. CASE x = y /\ x \notin issued
    <3>1. x \notin closed
      BY <2>2, Zenon DEF HandleInv, HandleTypes
    <3>2. local_gen[h] \in Nat
      BY <1>1, Zenon DEF HandleInv, HandleTypes
    <3> QED
      BY <1>4, <1>5, <1>6, <2>2, <3>1, <3>2 DEF TokenAge, Open
  <2> QED
    BY <1>3, <2>1, <2>2, Zenon
<1> QED
  BY <1>7, <1>8, <1>9, Zenon DEF HandleInv

LEMMA InsertStep ==
  ASSUME HandleInv, NEW i \in Idx, wubu_cap_handle_insert(i)
  PROVE  HandleInv'
<1>0. capacity \in 1..HandleMax /\ HandleMax \in Nat
  BY HandleAssumption, Zenon DEF HandleInv, HandleTypes
<1>1. CASE free # <<>>
  <2>1. Take(i, free) /\ capacity' = capacity /\ UNCHANGED <<local_gen, closed>>
    BY <1>1, Zenon DEF wubu_cap_handle_insert
  <2>2. FreeExact(free, capacity) /\ capacity \in capacity..HandleMax
    BY <1>0 DEF HandleInv
  <2> QED
    BY <1>1, <2>1, <2>2, TakeStep, Zenon
<1>2. CASE free = <<>>
  <2> DEFINE cap == IF 2 * capacity > HandleMax THEN HandleMax ELSE 2 * capacity
             list == RebuildFree(<<>>, capacity, cap)
  <2>1. /\ capacity < HandleMax /\ Take(i, list) /\ capacity' = cap
        /\ UNCHANGED <<local_gen, closed>>
    BY <1>2, Zenon DEF wubu_cap_handle_insert
  <2>2. cap \in capacity..HandleMax /\ cap > capacity
    BY <1>0, <2>1
  <2> HIDE DEF cap
  <2>3. /\ list \in Seq(Slot) /\ Len(list) = cap - capacity
        /\ \A k \in 1..(cap - capacity) : list[k] = (capacity + k) - 1
    BY <1>0, <2>2, Rebuilt, Zenon
  <2> HIDE DEF list
  <2>4. Len(free) = 0
    BY <1>2, Zenon
  <2>5. \A s \in Slot : s < capacity <=> object_idx[s] # None
    BY <2>4 DEF HandleInv, HandleTypes, FreeExact
  <2>6. FreeExact(list, cap)
    <3>1. \A j, k \in 1..Len(list) : j # k => list[j] # list[k]
      BY <1>0, <2>2, <2>3
    <3>2. ASSUME NEW s \in Slot
          PROVE  (\E k \in 1..Len(list) : list[k] = s) <=> s < cap /\ object_idx[s] = None
      <4>1. ASSUME NEW k \in 1..Len(list), list[k] = s
            PROVE  s < cap /\ ~(s < capacity)
        BY <1>0, <2>2, <2>3, <4>1
      <4>2. ASSUME s < cap, ~(s < capacity)
            PROVE  \E k \in 1..Len(list) : list[k] = s
        <5>1. s \in Nat
          BY HandleAssumption DEF Slot
        <5>2. s - capacity + 1 \in 1..Len(list) /\ (capacity + (s - capacity + 1)) - 1 = s
          BY <1>0, <2>2, <2>3, <4>2, <5>1
        <5>3. list[s - capacity + 1] = s
          BY <2>3, <5>2, Zenon
        <5> QED
          BY <5>2, <5>3, Zenon
      <4> QED
        BY <2>5, <4>1, <4>2, Zenon
    <3> QED
      BY <2>3, <3>1, <3>2, Zenon DEF FreeExact
  <2>7. list # <<>>
    BY <2>2, <2>3, <1>0
  <2> QED
    BY <2>1, <2>2, <2>6, <2>7, TakeStep, Zenon
<1> QED
  BY <1>1, <1>2, Zenon

LEMMA CloseStep ==
  ASSUME HandleInv, NEW x \in issued, wubu_cap_handle_close(x)
  PROVE  HandleInv'
<1> DEFINE h == x.slot
<1>1. /\ h \in Slot /\ object_idx[h] # None /\ h < capacity
      /\ object_idx' = [object_idx EXCEPT ![h] = None]
      /\ local_gen' = [local_gen EXCEPT ![h] = @ + 1]
      /\ free' = <<h>> \o free /\ closed' = closed \cup {x}
      /\ UNCHANGED <<capacity, issued>>
  BY Zenon DEF wubu_cap_handle_close, HandleInv, HandleTypes
<1> HIDE DEF h
<1>2. /\ object_idx'[h] = None /\ local_gen'[h] = local_gen[h] + 1
      /\ \A s \in Slot \ {h} : object_idx'[s] = object_idx[s] /\ local_gen'[s] = local_gen[s]
      /\ object_idx' \in [Slot -> Idx \cup {None}] /\ local_gen' \in [Slot -> Nat]
      /\ \A s \in Slot : local_gen[s] \in Nat
  BY <1>1 DEF HandleInv, HandleTypes
<1>3. HandleTypes'
  BY <1>1, <1>2, Zenon DEF HandleInv, HandleTypes
<1>4. FreeExact(free, capacity)'
  <2>1. free \in Seq(Slot) /\ Len(free) \in Nat
    BY DEF HandleInv, FreeExact
  <2>2. /\ free' \in Seq(Slot) /\ Len(free') = Len(free) + 1 /\ free'[1] = h
        /\ \A k \in 1..Len(free) : free'[k + 1] = free[k]
    BY <1>1, <2>1
  <2>3. \A k \in 1..Len(free) : free[k] # h
    BY <1>1, Zenon DEF HandleInv, FreeExact
  <2>4. \A j, k \in 1..Len(free') : j # k => free'[j] # free'[k]
    <3> SUFFICES ASSUME NEW j \in 1..Len(free'), NEW k \in 1..Len(free'), j < k
                 PROVE  free'[j] # free'[k]
      BY <2>2
    <3>1. k - 1 \in 1..Len(free) /\ free'[k] = free[k - 1]
      BY <2>1, <2>2
    <3>2. CASE j = 1
      BY <2>2, <2>3, <3>1, <3>2, Zenon
    <3>3. CASE j # 1
      <4>1. j - 1 \in 1..Len(free) /\ free'[j] = free[j - 1] /\ j - 1 # k - 1
        BY <2>1, <2>2, <3>3
      <4> QED
        BY <3>1, <4>1, SMTT(30) DEF HandleInv, FreeExact
    <3> QED
      BY <3>2, <3>3, Zenon
  <2>5. ASSUME NEW s \in Slot
        PROVE  (\E k \in 1..Len(free') : free'[k] = s) <=> s < capacity /\ object_idx'[s] = None
    <3>1. CASE s = h
      BY <1>1, <1>2, <2>1, <2>2, <3>1
    <3>2. CASE s # h
      <4>1. ASSUME NEW k \in 1..Len(free'), free'[k] = s
            PROVE  \E m \in 1..Len(free) : free[m] = s
        <5>1. k - 1 \in 1..Len(free) /\ free'[k] = free[k - 1]
          BY <2>1, <2>2, <3>2, <4>1
        <5> QED
          BY <4>1, <5>1, Zenon
      <4>2. ASSUME NEW m \in 1..Len(free), free[m] = s
            PROVE  \E k \in 1..Len(free') : free'[k] = s
        <5>1. m + 1 \in 1..Len(free')
          BY <2>1, <2>2
        <5> QED
          BY <2>2, <4>2, <5>1, Zenon
      <4> QED
        <5>1. (\E m \in 1..Len(free) : free[m] = s) <=> s < capacity /\ object_idx[s] = None
          BY Zenon DEF HandleInv, FreeExact
        <5>2. object_idx'[s] = object_idx[s]
          BY <1>2, <3>2, Zenon DEF HandleInv, HandleTypes
        <5> QED
          BY <4>1, <4>2, <5>1, <5>2, Zenon
    <3> QED
      BY <3>1, <3>2, Zenon
  <2> QED
    BY <1>1, <2>2, <2>4, <2>5, Zenon DEF FreeExact
<1>5. ASSUME NEW y \in issued PROVE TokenAge(y)'
  <2>1. y.slot \in Slot /\ y.gen \in Nat /\ local_gen[y.slot] \in Nat /\ TokenAge(y)
    BY Zenon DEF HandleInv, HandleTypes
  <2>2. CASE y.slot = h
    BY <1>2, <2>1, <2>2 DEF TokenAge, Open
  <2>3. CASE y.slot # h
    <3>1. y # x
      BY <2>3, Zenon DEF h
    <3> QED
      BY <1>1, <1>2, <2>1, <2>3, <3>1, Zenon DEF TokenAge, Open
  <2> QED
    BY <2>2, <2>3, Zenon
<1> QED
  BY <1>1, <1>3, <1>4, <1>5, Zenon DEF HandleInv

LEMMA HandleStep == HandleInv /\ [HNext]_allvars => HandleInv'
<1> SUFFICES ASSUME HandleInv, [HNext]_allvars PROVE HandleInv'
  BY Zenon
<1>1. CASE UNCHANGED hvars
  BY <1>1 DEF hvars, table, HandleInv, HandleTypes, FreeExact, TokenAge, Open
<1> QED
  BY <1>1, InsertStep, CloseStep, Zenon
     DEF HNext, Registry, wubu_cap_handle_revoke_by_slot, allvars

(* Whatever is inserted, closed and revoked, in any order and by any number *)
(* of threads, the table of wubu_cap_handle.c keeps each slot in use or     *)
(* free exactly once, and no token ever resolves to an object other than    *)
(* the one it was given out for, nor at all once it was closed or revoked.  *)
THEOREM HandlesExactHolds == HSpec => []HandlesExact
<1>1. HandleInv => HandlesExact
  <2> SUFFICES ASSUME HandleInv PROVE HandlesExact
    BY Zenon
  <2>1. SlotsAccounted
    <3>1. free \in Seq(Slot) /\ DOMAIN free = 1..Len(free)
      BY DEF HandleInv, FreeExact
    <3>2. IsInjective(free)
      BY <3>1, Zenon DEF HandleInv, FreeExact, IsInjective
    <3>3. \A x : x \in Range(free) <=> \E k \in 1..Len(free) : free[k] = x
      BY <3>1, Zenon DEF Range
    <3>4. \A k \in 1..Len(free) : free[k] \in Slot
      BY <3>1
    <3> QED
      BY <3>2, <3>3, <3>4 DEF HandleInv, FreeExact, SlotsAccounted
  <2>2. TokensExact
    <3> SUFFICES ASSUME NEW x \in issued
                 PROVE  /\ Open(x.slot, x.gen) => object_idx[x.slot] = x.obj
                        /\ x \in closed \/ deleted[x.obj] = 1
                             => \A t \in Threads : ~HandleResolves(t, x, {})
      BY Zenon DEF TokensExact
    <3>1. TokenAge(x) /\ x.gen \in Nat /\ local_gen[x.slot] \in Nat
      BY Zenon DEF HandleInv, HandleTypes
    <3> QED
      BY <3>1 DEF TokenAge, HandleResolves, Resolves, Open
  <2> QED
    BY <2>1, <2>2, Zenon DEF HandlesExact
<1> QED
  BY <1>1, HandleInit, HandleStep, PTL DEF HSpec

(* Handles add nothing to the registry: a system that uses it through       *)
(* handles behaves as one that calls it directly, so that what is proved    *)
(* of the registry holds under wubu_cap_handle.c too.                       *)
THEOREM HandlesRefine == HSpec => Spec
<1>1. HInit => Init
  BY Zenon DEF HInit
<1>2. HandleInv /\ [HNext]_allvars => [Next]_vars
  <2> SUFFICES ASSUME HandleInv, [HNext]_allvars PROVE [Next]_vars
    BY Zenon
  <2>1. CASE \E t \in Threads, s \in Slot : wubu_cap_handle_revoke_by_slot(t, s)
    <3>1. PICK t \in Threads, s \in Slot : wubu_cap_handle_revoke_by_slot(t, s)
      BY <2>1, Zenon
    <3>2. object_idx[s] \in Idx /\ wubu_cap_revoke(t, object_idx[s])
      BY <3>1, Zenon DEF wubu_cap_handle_revoke_by_slot, HandleInv, HandleTypes
    <3> QED
      BY <3>2, Zenon DEF Next
  <2> QED
    BY <2>1, Zenon DEF HNext, Registry, wubu_cap_handle_insert, wubu_cap_handle_close, allvars
<1> QED
  BY <1>1, <1>2, HandleInit, HandleStep, PTL DEF HSpec, Spec

-----------------------------------------------------------------------------
(***************************************************************************)
(* Supervisor.  What the properties need besides themselves is what the    *)
(* fields of a unit mean: pid names a process forked for it (Own), a       *)
(* stopped unit has none (Down), notify_ready was set by one of its        *)
(* processes (Heard), and backoff_until is the delay after its last        *)
(* automatic restart (Window).                                             *)
(***************************************************************************)

FieldTypes ==
  /\ load \in Loads
  /\ pid \in [Units -> Nat]
  /\ state \in [Units -> {"DISABLED", "RESTARTING", "RUNNING", "FAILED"}]
  /\ notify_ready = [u \in Units |-> notify_ready[u]]

ProcTypes ==
  /\ forks \in 0..MaxForks /\ alive \subseteq 1..forks /\ declared \subseteq 1..forks
  /\ owner = [p \in 1..MaxForks |-> owner[p]]
  /\ \A p \in 1..forks : owner[p] \in Units

LoopTypes ==
  /\ units \in Seq(Units) /\ pi \in Nat /\ bi \in Nat
  /\ doing = "sweep" => pi > 0
  /\ doing = "boot" => bi > 0

Own == \A u \in Units : pid[u] # 0 => pid[u] \in 1..forks /\ owner[pid[u]] = u

Down == \A u \in Units : state[u] = "DISABLED" => pid[u] = 0

Heard == \A u \in Units : notify_ready[u] => \E p \in declared : owner[p] = u

Window ==
  /\ restart_count \in [Units -> Nat]
  /\ backoff_until = [u \in Units |-> backoff_until[u]]
  /\ restarted = [u \in Units |-> restarted[u]]
  /\ \A u \in Units : restarted[u] # Never =>
       backoff_until[u] = restarted[u] + Delay(restart_count[u])

Sound == FieldTypes /\ ProcTypes /\ Own /\ Down /\ Heard /\ Tracked

SuperInv == LoopTypes /\ Sound /\ Window /\ BootOrder

-----------------------------------------------------------------------------
(* What start and restart leave: a process forked for u, alive or already  *)
(* dead, beside the processes in kept.                                     *)
Forked(u, kept) ==
  /\ forks < load.forks /\ forks' = forks + 1
  /\ owner' = [owner EXCEPT ![forks'] = u] /\ declared' = declared
  /\ \/ /\ alive' = kept \cup {forks'}
        /\ pid' = [pid EXCEPT ![u] = forks']
        /\ state' = [state EXCEPT ![u] = IF u \in Notify THEN "RESTARTING" ELSE "RUNNING"]
     \/ /\ alive' = kept
        /\ pid' = [pid EXCEPT ![u] = 0]
        /\ state' = [state EXCEPT ![u] = "FAILED"]

(* A fork keeps every process in view if no older process of a unit that   *)
(* is not of Type=notify is left.                                          *)
LEMMA ForkedSound ==
  ASSUME Sound, NEW u \in Units, NEW kept \in SUBSET alive, Forked(u, kept),
         \A p \in kept : owner[p] = u => u \in Notify,
         UNCHANGED <<load, notify_ready>>
  PROVE  Sound'
<1> USE DEF Sound
<1>1. /\ forks' = forks + 1 /\ forks' \in 1..MaxForks /\ declared' = declared
      /\ alive \subseteq 1..forks /\ declared \subseteq 1..forks /\ forks \in Nat
  BY SupervisorAssumption DEF FieldTypes, ProcTypes, Forked
<1>2. owner' = [owner EXCEPT ![forks'] = u] /\ alive' \subseteq alive \cup {forks'}
  BY Zenon DEF Forked
<1>3. FieldTypes'
  <2>1. load' = load /\ notify_ready' = notify_ready
    BY Zenon
  <2>2. pid' \in [Units -> Nat]
    BY <1>1 DEF FieldTypes, Forked
  <2>3. state' \in [Units -> {"DISABLED", "RESTARTING", "RUNNING", "FAILED"}]
    BY Zenon DEF FieldTypes, Forked
  <2>4. QED
    BY <2>1, <2>2, <2>3, Zenon DEF FieldTypes
<1>4. \A p \in 1..forks : owner'[p] = owner[p]
  BY <1>1, <1>2 DEF ProcTypes
<1>5. owner'[forks'] = u /\ owner' = [p \in 1..MaxForks |-> owner'[p]]
  BY <1>1, <1>2, Zenon DEF ProcTypes
<1>6. ProcTypes'
  <2>1. forks' \in 0..MaxForks /\ alive' \subseteq 1..forks' /\ declared' \subseteq 1..forks'
    BY <1>1, <1>2
  <2>2. \A p \in 1..forks' : p \in 1..forks \/ p = forks'
    BY <1>1
  <2>3. \A p \in 1..forks' : owner'[p] \in Units
    BY <2>2, <1>4, <1>5, Zenon DEF ProcTypes
  <2>4. QED
    BY <2>1, <2>3, <1>5, Zenon DEF ProcTypes
<1>7. Own'
  <2> SUFFICES ASSUME NEW v \in Units, pid'[v] # 0
               PROVE  pid'[v] \in 1..forks' /\ owner'[pid'[v]] = v
    BY Zenon DEF Own
  <2>1. CASE v = u
    BY <2>1, <1>1, <1>5 DEF FieldTypes, Forked
  <2>2. CASE v # u
    <3>1. pid'[v] = pid[v]
      BY <2>2, Zenon DEF FieldTypes, Forked
    <3>2. pid[v] \in 1..forks /\ owner[pid[v]] = v
      BY <3>1, Zenon DEF Own
    <3>3. QED
      BY <3>1, <3>2, <1>1, <1>4
  <2>3. QED
    BY <2>1, <2>2, Zenon
<1>8. Down'
  BY <1>1, Zenon DEF Down, FieldTypes, Forked
<1>9. Heard'
  BY <1>1, <1>4, Zenon DEF Heard
<1>10. Tracked'
  <2> SUFFICES ASSUME NEW p \in alive', owner'[p] \notin Notify
               PROVE  pid'[owner'[p]] = p
    BY Zenon DEF Tracked, Notify
  <2>1. CASE p = forks'
    BY <2>1, <1>1, <1>5 DEF FieldTypes, Forked
  <2>2. CASE p # forks'
    <3>1. p \in kept /\ p \in alive /\ p \in 1..forks /\ owner[p] \in Units
      BY <2>2, <1>1, Zenon DEF Forked, ProcTypes
    <3>2. owner'[p] = owner[p] /\ pid[owner[p]] = p
      BY <3>1, <1>4, Zenon DEF Tracked
    <3>3. owner[p] # u
      BY <3>1, <3>2, Zenon
    <3>4. QED
      BY <3>1, <3>2, <3>3 DEF FieldTypes, Forked
  <2>3. QED
    BY <2>1, <2>2, Zenon
<1>11. QED
  BY <1>3, <1>6, <1>7, <1>8, <1>9, <1>10

(* start's fork of a unit that entry_ready does not call ready. *)
LEMMA StartSound ==
  ASSUME Sound, NEW u \in Units, ~Ready(u), ForkAlive(u) \/ ForkExits(u),
         UNCHANGED <<load, notify_ready>>
  PROVE  Sound'
<1>1. \A p \in alive : owner[p] = u => u \in Notify
  <2> SUFFICES ASSUME NEW p \in alive, owner[p] = u, u \notin Notify PROVE FALSE
    BY Zenon
  <2>1. pid[u] = p
    BY Zenon DEF Sound, Tracked
  <2>2. p # 0
    BY DEF Sound, ProcTypes
  <2>3. QED
    BY <2>1, <2>2, Zenon DEF Ready, Alive
<1>2. Forked(u, alive)
  BY Zenon DEF Forked, ForkAlive, ForkExits
<1>3. QED
  BY <1>1, <1>2, ForkedSound, Zenon

(* A unit whose process is gone, or is waited for, forgets its pid. *)
LEMMA ForgetSound ==
  ASSUME Sound, NEW u \in Units,
         NEW s \in {"DISABLED", "RESTARTING", "RUNNING", "FAILED"},
         alive' = alive \ {pid[u]},
         pid' = [pid EXCEPT ![u] = 0],
         state' = [state EXCEPT ![u] = s],
         UNCHANGED <<load, notify_ready, forks, owner, declared>>
  PROVE  Sound'
<1> USE DEF Sound
<1>1. FieldTypes' /\ ProcTypes'
  <2>1. pid' \in [Units -> Nat]
        /\ state' \in [Units -> {"DISABLED", "RESTARTING", "RUNNING", "FAILED"}]
    BY Zenon DEF FieldTypes
  <2>2. FieldTypes'
    BY <2>1, Zenon DEF FieldTypes
  <2>3. ProcTypes'
    BY SMTT(30) DEF ProcTypes
  <2>4. QED
    BY <2>2, <2>3, Zenon
<1>2. Own' /\ Down'
  BY Zenon DEF FieldTypes, Own, Down
<1>3. Heard'
  BY Zenon DEF Heard
<1>4. Tracked'
  BY Zenon DEF FieldTypes, ProcTypes, Tracked, Notify
<1>5. QED
  BY <1>1, <1>2, <1>3, <1>4, Zenon

(* What BootOrder says stays true while processes are added. *)
LEMMA BootGrows ==
  ASSUME BootOrder, ProcTypes, forks' \in {forks, forks + 1},
         \A p \in 1..forks : owner'[p] = owner[p],
         declared \subseteq declared', UNCHANGED <<load, booted>>
  PROVE  BootOrder'
<1>1. 1..forks \subseteq 1..forks'
  BY DEF ProcTypes
<1>2. QED
  BY <1>1, Zenon DEF BootOrder, Notify

(* A fork leaves the owners of the older processes alone. *)
LEMMA ForkGrows ==
  ASSUME ProcTypes, NEW u \in Units, forks' = forks + 1,
         owner' = [owner EXCEPT ![forks'] = u]
  PROVE  \A p \in 1..forks : owner'[p] = owner[p]
BY DEF ProcTypes

-----------------------------------------------------------------------------
(* The invariant holds before the first unit is started.                   *)
LEMMA InitSuperInv == SuperInit => SuperInv
<1> SUFFICES ASSUME SuperInit PROVE SuperInv
  BY Zenon
<1>1. LoopTypes
  BY DEF SuperInit, LoopTypes
<1>2. Sound
  BY SupervisorAssumption
     DEF SuperInit, Sound, FieldTypes, ProcTypes, Own, Down, Heard, Tracked
<1>3. Window
  BY Zenon DEF SuperInit, Window
<1>4. BootOrder
  BY Zenon DEF SuperInit, BootOrder
<1>5. QED
  BY <1>1, <1>2, <1>3, <1>4, Zenon DEF SuperInv

(* A step that changes no unit and no process. *)
LEMMA QuietStep ==
  ASSUME SuperInv, LoopTypes', UNCHANGED <<load, fields, procs, restarted, booted>>
  PROVE  SuperInv'
<1>1. Sound'
  BY Zenon DEF SuperInv, Sound, FieldTypes, ProcTypes, Own, Down, Heard, Tracked, Notify, fields, procs
<1>2. Window'
  BY Zenon DEF SuperInv, Window, fields
<1>3. BootOrder'
  BY Zenon DEF SuperInv, BootOrder, Notify, procs
<1>4. QED
  BY <1>1, <1>2, <1>3, Zenon DEF SuperInv

(* A step of one of the entry points that start and stop units. *)
LEMMA CallStep ==
  ASSUME SuperInv, Sound', UNCHANGED <<load, units, doing, pi, bi, restart_count, backoff_until,
                                   restarted, booted>>,
         forks' \in {forks, forks + 1},
         \A p \in 1..forks : owner'[p] = owner[p], declared \subseteq declared'
  PROVE  SuperInv'
<1>1. LoopTypes'
  BY Zenon DEF SuperInv, LoopTypes
<1>2. Window'
  BY Zenon DEF SuperInv, Window
<1>3. BootOrder'
  BY BootGrows, Zenon DEF SuperInv, Sound
<1>4. QED
  BY <1>1, <1>2, <1>3, Zenon DEF SuperInv

(* poll and reap keep every process in view, and the window of backoff_until *)
(* begins at the restart they make.                                          *)
LEMMA SweepStep ==
  ASSUME SuperInv, SweepUnit, UNCHANGED load
  PROVE  SuperInv'
<1> DEFINE u == units[pi]
<1>1. u \in Units /\ LoopTypes'
  BY DEF SuperInv, LoopTypes, SweepUnit
<1>2. CASE ~(pid[u] # 0 /\ ~Alive(u))
  <2>1. UNCHANGED <<load, fields, procs, restarted, booted>>
    BY <1>2, Zenon DEF SweepUnit, fields, procs
  <2>2. QED
    BY <2>1, <1>1, QuietStep, Zenon
<1>3. CASE pid[u] # 0 /\ ~Alive(u) /\ SweepRestarts(u)
  <2> HIDE DEF u
  <2>1. UNCHANGED <<load, notify_ready, booted>>
    BY Zenon DEF SweepUnit
  <2>2. Sound'
    <3>1. CASE ForkAlive(u) \/ ForkExits(u)
      BY <3>1, <1>1, <1>3, <2>1, StartSound DEF SuperInv, Ready
    <3>2. CASE ~(ForkAlive(u) \/ ForkExits(u))
      <4>1. /\ pid' = [pid EXCEPT ![u] = 0] /\ UNCHANGED <<forks, alive, owner, declared>>
            /\ state' = [state EXCEPT ![u] = IF sweep = "reap" THEN "FAILED" ELSE state[u]]
        BY <3>2, <1>3, Zenon DEF SweepRestarts, procs
      <4>2. alive' = alive \ {pid[u]}
        BY <4>1, <1>3, Zenon DEF Alive
      <4>3. (IF sweep = "reap" THEN "FAILED" ELSE state[u])
              \in {"DISABLED", "RESTARTING", "RUNNING", "FAILED"}
        BY <1>1, Zenon DEF SuperInv, Sound, FieldTypes
      <4>4. QED
        BY <4>1, <4>2, <4>3, <1>1, <2>1, ForgetSound, Zenon DEF SuperInv
    <3>3. QED
      BY <3>1, <3>2, Zenon
  <2>3. Window'
    <3>1. restart_count' = [restart_count EXCEPT ![u] = restart_count[u] + 1]
          /\ backoff_until' = [backoff_until EXCEPT ![u] = t0 + Delay(restart_count[u] + 1)]
          /\ restarted' = [restarted EXCEPT ![u] = t0]
      BY <1>3, Zenon DEF SweepRestarts
    <3>2. restart_count' \in [Units -> Nat]
      BY <1>1, <3>1 DEF SuperInv, Window
    <3>3. backoff_until' = [v \in Units |-> backoff_until'[v]]
      BY <3>1, Zenon DEF SuperInv, Window
    <3>4. restarted' = [v \in Units |-> restarted'[v]]
      BY <3>1, Zenon DEF SuperInv, Window
    <3>5. ASSUME NEW v \in Units, restarted'[v] # Never
          PROVE  backoff_until'[v] = restarted'[v] + Delay(restart_count'[v])
      <4>1. CASE v = u
        <5>1. /\ restarted'[u] = t0 /\ restart_count'[u] = restart_count[u] + 1
              /\ backoff_until'[u] = t0 + Delay(restart_count[u] + 1)
          BY <1>1, <3>1, Zenon DEF SuperInv, Window
        <5>2. QED
          BY <4>1, <5>1, Zenon
      <4>2. CASE v # u
        <5>1. /\ restarted'[v] = restarted[v] /\ restart_count'[v] = restart_count[v]
              /\ backoff_until'[v] = backoff_until[v]
          BY <4>2, <3>1, Zenon DEF SuperInv, Window
        <5>2. QED
          BY <5>1, <3>5, Zenon DEF SuperInv, Window
      <4>3. QED
        BY <4>1, <4>2, Zenon
    <3>6. QED
      BY <3>2, <3>3, <3>4, <3>5, Zenon DEF Window, Never
  <2>4. BootOrder'
    <3>1. forks' \in {forks, forks + 1} /\ declared' = declared
      BY <1>3, Zenon DEF SweepRestarts, ForkAlive, ForkExits, procs
    <3>2. \A p \in 1..forks : owner'[p] = owner[p]
      BY <1>1, <1>3, ForkGrows, Zenon DEF SuperInv, Sound, SweepRestarts, ForkAlive, ForkExits, procs
    <3>3. QED
      BY <3>1, <3>2, <2>1, BootGrows, Zenon DEF SuperInv, Sound
  <2>5. QED
    BY <1>1, <2>2, <2>3, <2>4, Zenon DEF SuperInv
<1>4. CASE pid[u] # 0 /\ ~Alive(u) /\ SweepGivesUp(u)
  <2> HIDE DEF u
  <2>1. UNCHANGED <<load, notify_ready, forks, alive, owner, declared, restart_count,
                    backoff_until, restarted, booted>>
    BY <1>4, Zenon DEF SweepUnit, SweepGivesUp, procs
  <2>2. alive' = alive \ {pid[u]}
    BY <2>1, <1>4, Zenon DEF Alive
  <2>3. Sound'
    BY <1>1, <1>4, <2>1, <2>2, ForgetSound, Zenon DEF SuperInv, SweepGivesUp
  <2>4. Window' /\ BootOrder'
    BY <2>1, Zenon DEF SuperInv, Window, BootOrder, Notify
  <2>5. QED
    BY <1>1, <2>3, <2>4, Zenon DEF SuperInv
<1>5. QED
  BY <1>2, <1>3, <1>4, Zenon DEF SweepUnit

(* boot starts a unit only when status answers RUNNING of each predecessor: *)
(* it has a process then, and if it is of Type=notify one of its processes  *)
(* has declared itself ready.                                               *)
LEMMA BootStep ==
  ASSUME SuperInv, BootUnit, UNCHANGED load
  PROVE  SuperInv'
<1> DEFINE u == units[bi]
<1>1. u \in Units /\ LoopTypes'
  BY DEF SuperInv, LoopTypes, BootUnit
<1>2. UNCHANGED <<load, notify_ready, restart_count, backoff_until, restarted>>
  BY Zenon DEF BootUnit
<1>3. Window'
  BY <1>2, Zenon DEF SuperInv, Window
<1>4. CASE UNCHANGED <<pid, state, procs>>
  <2>1. booted' = booted
    BY <1>4 DEF BootUnit, ForkAlive, procs, SuperInv, Sound, ProcTypes
  <2>2. QED
    BY <1>1, <1>2, <1>4, <2>1, QuietStep DEF fields
<1>5. CASE DependenciesRunning(u) /\ ~Ready(u) /\ (ForkAlive(u) \/ ForkExits(u))
  <2> HIDE DEF u
  <2>1. Sound'
    BY <1>1, <1>2, <1>5, StartSound, Zenon DEF SuperInv
  <2>2. \A p \in 1..forks : owner'[p] = owner[p]
    BY <1>1, <1>5, ForkGrows, Zenon DEF SuperInv, Sound, ForkAlive, ForkExits
  <2>3. forks' = forks + 1 /\ declared' = declared /\ forks \in Nat
        /\ declared \subseteq 1..forks
    BY <1>5 DEF ForkAlive, ForkExits, SuperInv, Sound, ProcTypes
  <2>4. booted' \subseteq booted \cup {u}
    BY Zenon DEF BootUnit, u
  <2>5. BootOrder'
    <3> SUFFICES ASSUME NEW v \in booted', NEW d \in Before[v]
                 PROVE  \E p \in 1..forks : owner[p] = d /\ (d \in Notify => p \in declared)
      BY <2>2, <2>3, <1>2 DEF BootOrder, Notify
    <3>1. CASE v \in booted
      BY <3>1, Zenon DEF SuperInv, BootOrder
    <3>2. CASE v = u
      <4>1. d \in Units /\ Ready(d)
        <5>1. d \in Units
          BY <1>1, <3>2, SupervisorAssumption, Zenon
        <5>2. status(d) = "RUNNING"
          BY <1>5, <3>2, Zenon DEF DependenciesRunning
        <5>3. QED
          BY <5>1, <5>2, Zenon DEF status
      <4>2. pid[d] \in 1..forks /\ owner[pid[d]] = d
        BY <4>1, Zenon DEF Ready, Alive, SuperInv, Sound, Own
      <4>3. CASE d \in Notify
        <5>1. PICK p \in declared : owner[p] = d
          BY <4>1, <4>3, Zenon DEF Ready, SuperInv, Sound, Heard
        <5>2. QED
          BY <5>1, <2>3, Zenon
      <4>4. QED
        BY <4>2, <4>3, Zenon
    <3>3. QED
      BY <2>4, <3>1, <3>2, Zenon
  <2>6. QED
    BY <1>1, <1>3, <2>1, <2>5, Zenon DEF SuperInv
<1>6. QED
  BY <1>4, <1>5, Zenon DEF BootUnit, ForkFails

(* Every step keeps the invariant.                                         *)
LEMMA NextSuperInv == SuperInv /\ [SuperNext]_superVars => SuperInv'
<1> SUFFICES ASSUME SuperInv, [SuperNext]_superVars PROVE SuperInv'
  BY Zenon
<1> USE DEF control
<1>1. CASE SweepUnit /\ UNCHANGED load
  BY <1>1, SweepStep, Zenon
<1>2. CASE SweepEnd /\ UNCHANGED load
  <2>1. LoopTypes'
    BY <1>2, Zenon DEF SuperInv, LoopTypes, SweepEnd
  <2>2. QED
    BY <2>1, <1>2, QuietStep, Zenon DEF SweepEnd
<1>3. CASE BootUnit /\ UNCHANGED load
  BY <1>3, BootStep, Zenon
<1>4. CASE (BootEnd \/ WaitPolls \/ WaitAgain \/ StartBoot \/ StartSweep("poll")
            \/ StartSweep("reap") \/ Tick) /\ UNCHANGED load
  <2>1. LoopTypes'
    BY <1>4 DEF SuperInv, LoopTypes, BootEnd, WaitPolls, WaitAgain, StartBoot, StartSweep, Tick
  <2>2. UNCHANGED <<load, fields, procs, restarted, booted>>
    BY <1>4, Zenon DEF BootEnd, WaitPolls, WaitAgain, StartBoot, StartSweep, Tick
  <2>3. QED
    BY <2>1, <2>2, QuietStep, Zenon
<1>5. CASE WaitEnds /\ UNCHANGED load
  <2> DEFINE u == units[bi]
  <2>1. /\ state' = [state EXCEPT ![u] = IF Ready(u) THEN state[u] ELSE "FAILED"]
        /\ UNCHANGED <<load, pid, notify_ready, restart_count, backoff_until, procs,
                       restarted, booted>>
    BY <1>5, Zenon DEF WaitEnds
  <2>2. LoopTypes'
    BY <1>5 DEF SuperInv, LoopTypes, WaitEnds
  <2> HIDE DEF u
  <2>3. Sound'
    <3>1. state' \in [Units -> {"DISABLED", "RESTARTING", "RUNNING", "FAILED"}]
      BY <2>1, Zenon DEF SuperInv, Sound, FieldTypes
    <3>2. Down'
      BY <2>1, Zenon DEF SuperInv, Sound, FieldTypes, Down
    <3>3. QED
      BY <2>1, <3>1, <3>2, Zenon
         DEF SuperInv, Sound, FieldTypes, ProcTypes, Own, Heard, Tracked, Notify, procs
  <2>4. Window' /\ BootOrder'
    BY <2>1, Zenon DEF SuperInv, Window, BootOrder, Notify, procs
  <2>5. QED
    BY <2>2, <2>3, <2>4, Zenon DEF SuperInv
<1>6. CASE wubu_svc_supervisor_stop_all /\ UNCHANGED load
  <2> DEFINE running == {u \in Managed : pid[u] # 0}
  <2>1. /\ alive' = alive \ {pid[u] : u \in running}
        /\ pid' = [u \in Units |-> IF u \in running THEN 0 ELSE pid[u]]
        /\ state' = [u \in Units |-> IF u \in running THEN "DISABLED" ELSE state[u]]
        /\ UNCHANGED <<load, units, notify_ready, forks, owner, declared, doing, pi, bi,
                       restart_count, backoff_until, restarted, booted>>
    BY <1>6, Zenon DEF wubu_svc_supervisor_stop_all
  <2> HIDE DEF running
  <2>2. Sound'
    <3>1. FieldTypes'
      BY <2>1, Zenon DEF SuperInv, Sound, FieldTypes
    <3>2. ProcTypes' /\ Own' /\ Down' /\ Heard'
      BY <2>1, Zenon DEF SuperInv, Sound, FieldTypes, ProcTypes, Own, Down, Heard
    <3>3. Tracked'
      <4> SUFFICES ASSUME NEW p \in alive', owner[p] \notin Notify
                   PROVE  pid'[owner[p]] = p
        BY <2>1, Zenon DEF Tracked, Notify
      <4>1. p \in alive /\ owner[p] \in Units /\ pid[owner[p]] = p
        BY <2>1, Zenon DEF SuperInv, Sound, ProcTypes, Tracked
      <4>2. owner[p] \notin running
        BY <2>1, <4>1, Zenon
      <4> QED
        BY <2>1, <4>1, <4>2, Zenon
    <3>4. QED
      BY <3>1, <3>2, <3>3, Zenon DEF Sound
  <2>3. QED
    BY <2>1, <2>2, CallStep, Zenon
<1>7. ASSUME NEW u \in Units, wubu_svc_supervisor_add(u), UNCHANGED load
      PROVE  SuperInv'
  <2>1. LoopTypes'
    BY <1>7 DEF SuperInv, LoopTypes, wubu_svc_supervisor_add
  <2>2. QED
    BY <2>1, <1>7, QuietStep, Zenon DEF wubu_svc_supervisor_add
<1>8. ASSUME NEW u \in Units, wubu_svc_supervisor_start(u), UNCHANGED load
      PROVE  SuperInv'
  <2>1. Sound'
    BY <1>8, StartSound, Zenon DEF SuperInv, wubu_svc_supervisor_start
  <2>2. \A p \in 1..forks : owner'[p] = owner[p]
    BY <1>8, ForkGrows, Zenon DEF SuperInv, Sound, wubu_svc_supervisor_start, ForkAlive, ForkExits
  <2>3. forks' = forks + 1 /\ declared' = declared
    BY <1>8, Zenon DEF wubu_svc_supervisor_start, ForkAlive, ForkExits
  <2>4. QED
    BY <1>8, <2>1, <2>2, <2>3, CallStep, Zenon DEF wubu_svc_supervisor_start
<1>9. ASSUME NEW u \in Units, wubu_svc_supervisor_stop(u), UNCHANGED load
      PROVE  SuperInv'
  <2>1. Sound'
    BY <1>9, ForgetSound, Zenon DEF SuperInv, wubu_svc_supervisor_stop, StopUnit
  <2>2. QED
    BY <1>9, <2>1, CallStep, Zenon DEF wubu_svc_supervisor_stop
<1>10. ASSUME NEW u \in Units, wubu_svc_supervisor_restart(u), UNCHANGED load
       PROVE  SuperInv'
  <2>1. \A p \in alive \ {pid[u]} : owner[p] = u => u \in Notify
    BY Zenon DEF SuperInv, Sound, Tracked
  <2>2. Forked(u, alive \ {pid[u]})
    BY <1>10, Zenon DEF Forked, wubu_svc_supervisor_restart
  <2>3. Sound'
    <3>1. UNCHANGED <<load, notify_ready>> /\ (alive \ {pid[u]}) \in SUBSET alive
      BY <1>10, Zenon DEF wubu_svc_supervisor_restart
    <3>2. QED
      BY <2>1, <2>2, <3>1, ForkedSound, Zenon DEF SuperInv
  <2>4. \A p \in 1..forks : owner'[p] = owner[p]
    BY <2>2, ForkGrows, Zenon DEF SuperInv, Sound, Forked
  <2>5. forks' = forks + 1 /\ declared' = declared
    BY <2>2, Zenon DEF Forked
  <2>6. QED
    BY <1>10, <2>3, <2>4, <2>5, CallStep, Zenon DEF wubu_svc_supervisor_restart
<1>11. ASSUME NEW p \in 1..MaxForks, wubu_svc_supervisor_notify_ready(p), UNCHANGED load
       PROVE  SuperInv'
  <2> DEFINE u == owner[p]
  <2>1. /\ p \in alive /\ u \in Units
        /\ declared' = declared \cup {p}
        /\ notify_ready' = [notify_ready EXCEPT ![u] = TRUE]
        /\ state' = [state EXCEPT ![u] = IF Alive(u) THEN "RUNNING" ELSE state[u]]
        /\ UNCHANGED <<load, units, pid, restart_count, backoff_until, forks, alive, owner,
                       doing, pi, bi, restarted, booted>>
    BY <1>11, Zenon DEF wubu_svc_supervisor_notify_ready, SuperInv, Sound, ProcTypes
  <2>2. Sound'
    <3>1. state' \in [Units -> {"DISABLED", "RESTARTING", "RUNNING", "FAILED"}]
      BY <2>1, Zenon DEF SuperInv, Sound, FieldTypes
    <3>2. Heard'
      <4>1. ASSUME NEW v \in Units, notify_ready'[v]
            PROVE  \E q \in declared' : owner'[q] = v
        <5>1. CASE v = u
          BY <5>1, <2>1, Zenon
        <5>2. CASE v # u
          <6>1. notify_ready[v]
            BY <5>2, <4>1, <2>1, Zenon DEF SuperInv, Sound, FieldTypes
          <6>2. QED
            BY <6>1, <2>1, Zenon DEF SuperInv, Sound, Heard
        <5>3. QED
          BY <5>1, <5>2, Zenon
      <4>2. QED
        BY <4>1, Zenon DEF Heard
    <3>3. notify_ready' = [v \in Units |-> notify_ready'[v]]
      BY <2>1, Zenon DEF SuperInv, Sound, FieldTypes
    <3>4. FieldTypes'
      BY <2>1, <3>1, <3>3, Zenon DEF SuperInv, Sound, FieldTypes
    <3>5. ProcTypes' /\ Own' /\ Tracked'
      BY <2>1, Zenon DEF SuperInv, Sound, ProcTypes, Own, Tracked, Notify
    <3>6. Down'
      BY <2>1, Zenon DEF SuperInv, Sound, FieldTypes, Down, Alive
    <3>7. QED
      BY <3>2, <3>4, <3>5, <3>6, Zenon DEF Sound
  <2>3. QED
    BY <2>1, <2>2, CallStep, Zenon
<1>12. ASSUME NEW p \in 1..MaxForks, Exit(p), UNCHANGED load
       PROVE  SuperInv'
  <2>1. Sound'
    BY <1>12, Zenon DEF Exit, fields, SuperInv, Sound, FieldTypes, ProcTypes, Own, Down, Heard, Tracked,
                 Notify
  <2>2. QED
    BY <1>12, <2>1, CallStep, Zenon DEF Exit, fields
<1>13. CASE UNCHANGED superVars
  <2>1. LoopTypes'
    BY <1>13, Zenon DEF superVars, SuperInv, LoopTypes
  <2>2. QED
    BY <1>13, <2>1, QuietStep, Zenon DEF superVars
<1>14. QED
  BY <1>1, <1>2, <1>3, <1>4, <1>5, <1>6, <1>7, <1>8, <1>9, <1>10, <1>11, <1>12, <1>13
     DEF SuperNext, Acts, SuperSteps

(* The invariant holds in every reachable state.                           *)
LEMMA Inductive == SuperSpec => []SuperInv
BY InitSuperInv, NextSuperInv, PTL DEF SuperSpec

(* However units are started, stopped, restarted, swept and booted, and     *)
(* whenever their processes exit, every live process of a unit that is not  *)
(* of Type=notify is the one its entry names (wubu_svc_supervisor_start).   *)
THEOREM ProcessesTracked == SuperSpec => []Tracked
<1>1. SuperInv => Tracked
  BY Zenon DEF SuperInv, Sound
<1>2. QED
  BY Inductive, <1>1, PTL

(* A unit that boot has started had every predecessor up, and declared      *)
(* ready if it is of Type=notify (wubu_svc_supervisor_boot).                *)
THEOREM BootOrdered == SuperSpec => []BootOrder
<1>1. SuperInv => BootOrder
  BY Zenon DEF SuperInv
<1>2. QED
  BY Inductive, <1>1, PTL

(* Two automatic restarts of a unit are at least its backoff delay apart,   *)
(* whichever of poll, reap and boot's polls makes them.                     *)
THEOREM BackoffHolds == SuperSpec => BackoffKept
<1> DEFINE Apart ==
      \A u \in Units :
        restart_count'[u] # restart_count[u] /\ restarted[u] # Never
          => restarted'[u] >= restarted[u] + Delay(restart_count[u])
<1>1. ASSUME SuperInv, [SuperNext]_superVars PROVE Apart
  <2>1. CASE restart_count' = restart_count
    BY <2>1, Zenon
  <2>2. CASE SweepUnit /\ UNCHANGED load
    <3> SUFFICES ASSUME NEW v \in Units, restart_count'[v] # restart_count[v],
                        restarted[v] # Never
                 PROVE  restarted'[v] >= restarted[v] + Delay(restart_count[v])
      BY Zenon
    <3> DEFINE u == units[pi]
    <3>1. u \in Units
      <4>1. doing = "sweep" /\ pi <= Len(units)
        BY <2>2, Zenon DEF SweepUnit
      <4>2. units \in Seq(Units) /\ pi \in Nat /\ pi > 0
        BY <1>1, <4>1, Zenon DEF SuperInv, LoopTypes
      <4> QED
        BY <4>1, <4>2
    <3>2. SweepRestarts(u)
      BY <2>2, Zenon DEF SweepUnit, SweepGivesUp
    <3> HIDE DEF u
    <3>3. v = u
      BY <3>2, <1>1, Zenon DEF SweepRestarts, SuperInv, Window
    <3>4. t0 >= backoff_until[v]
      BY <3>2, <3>3, Zenon DEF SweepRestarts, BackoffOver
    <3>5. backoff_until[v] = restarted[v] + Delay(restart_count[v])
      BY <1>1, Zenon DEF SuperInv, Window
    <3>6. restarted'[v] = t0
      BY <3>2, <3>3, <1>1, Zenon DEF SweepRestarts, SuperInv, Window
    <3>7. QED
      BY <3>4, <3>5, <3>6, Zenon
  <2>3. QED
    BY <1>1, <2>1, <2>2, Zenon
       DEF SuperNext, Acts, SuperSteps, superVars, fields, SweepEnd, BootUnit, BootEnd, WaitPolls, WaitAgain,
           WaitEnds, StartBoot, wubu_svc_supervisor_stop_all, Tick, StartSweep,
           wubu_svc_supervisor_add, wubu_svc_supervisor_start, wubu_svc_supervisor_stop,
           wubu_svc_supervisor_restart, wubu_svc_supervisor_notify_ready, Exit
<1>2. SuperInv /\ [SuperNext]_superVars => [Apart]_superVars
  BY <1>1, Zenon
<1>3. SuperSpec => [][Apart]_superVars
  BY Inductive, <1>2, PTL DEF SuperSpec
<1>4. QED
  BY <1>3, Zenon DEF BackoffKept

(* No sweep of poll or reap, and nothing that happens during one, gives a   *)
(* process to a unit that was stopped.                                      *)
THEOREM StopHolds == SuperSpec => StopSticks
<1> DEFINE Sticks ==
      \A u \in Units :
        doing = "sweep" /\ state[u] = "DISABLED" => state'[u] = "DISABLED" /\ pid'[u] = 0
<1>1. ASSUME SuperInv, [SuperNext]_superVars PROVE Sticks
  <2> SUFFICES ASSUME NEW v \in Units, doing = "sweep", state[v] = "DISABLED"
               PROVE  state'[v] = "DISABLED" /\ pid'[v] = 0
    BY Zenon
  <2>1. pid[v] = 0
    BY <1>1, Zenon DEF SuperInv, Sound, Down
  <2>2. CASE UNCHANGED <<pid, state>>
    BY <2>1, <2>2, Zenon
  <2>3. CASE SweepUnit /\ UNCHANGED load
    <3> DEFINE u == units[pi]
    <3>1. CASE ~(pid[u] # 0 /\ ~Alive(u))
      BY <2>3, <3>1, <2>1, Zenon DEF SweepUnit
    <3>2. CASE pid[u] # 0 /\ ~Alive(u)
      <4>1. u # v /\ (SweepRestarts(u) \/ SweepGivesUp(u))
        BY <3>2, <2>1, <2>3, Zenon DEF SweepUnit
      <4> HIDE DEF u
      <4>2. state'[v] = state[v] /\ pid'[v] = pid[v]
        BY <4>1, <1>1, Zenon
           DEF SweepRestarts, SweepGivesUp, ForkAlive, ForkExits, SuperInv, Sound, FieldTypes
      <4>3. QED
        BY <4>2, <2>1, Zenon
    <3>3. QED
      BY <3>1, <3>2, Zenon
  <2>4. ASSUME NEW p \in 1..MaxForks, wubu_svc_supervisor_notify_ready(p)
        PROVE  state'[v] = "DISABLED" /\ pid'[v] = 0
    BY <2>4, <2>1, <1>1, Zenon
       DEF wubu_svc_supervisor_notify_ready, Alive, SuperInv, Sound, FieldTypes
  <2>5. QED
    BY <1>1, <2>2, <2>3, <2>4
       DEF SuperNext, Acts, SuperSteps, superVars, fields, SweepEnd, BootUnit, BootEnd, WaitPolls, WaitAgain,
           WaitEnds, StartBoot, wubu_svc_supervisor_stop_all, Tick, StartSweep, Calls,
           wubu_svc_supervisor_add, wubu_svc_supervisor_start, wubu_svc_supervisor_stop,
           wubu_svc_supervisor_restart, Exit
<1>2. SuperInv /\ [SuperNext]_superVars => [Sticks]_superVars
  BY <1>1, Zenon
<1>3. SuperSpec => [][Sticks]_superVars
  BY Inductive, <1>2, PTL DEF SuperSpec
<1>4. QED
  BY <1>3, Zenon DEF StopSticks
=============================================================================
