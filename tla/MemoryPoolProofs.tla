--------------------------- MODULE MemoryPoolProofs ---------------------------
(***************************************************************************)
(* What holds of the lock-free pool for any number of slots and threads,   *)
(* of which at most one allocates.                                         *)
(***************************************************************************)
EXTENDS MemoryPool, Arithmetic, SequenceTheorems, FiniteSetTheorems

\* "single-writer alloc"
SingleAllocator == \A t, u \in Allocators : t = u

-----------------------------------------------------------------------------
(* The free list as a sequence.                                            *)

At(q, i) == IF i \in DOMAIN q THEN q[i] ELSE Null

\* From h, the pointers n lead through q, which names each slot once, and end.
Linked(n, h, q) ==
  /\ h = At(q, 1)
  /\ \A i \in DOMAIN q : n[q[i]] = At(q, i + 1)
  /\ \A i, j \in DOMAIN q : q[i] = q[j] => i = j

LEMMA Bounds == /\ Capacity \in Nat \ {0} /\ Null \notin Slot /\ 0 \in Slot
                /\ IsFiniteSet(Slot) /\ Cardinality(Slot) = Capacity
<1>1. Capacity \in Nat \ {0}
  BY PoolAssumption
<1>2. IsFiniteSet(0 .. Capacity - 1) /\ Cardinality(0 .. Capacity - 1) = Capacity
  BY <1>1, FS_Interval
<1>. QED  BY <1>1, <1>2 DEF Slot, Null

\* A list is not longer than there are slots.
LEMMA ListIsShort ==
  ASSUME NEW q \in Seq(Slot), \A i, j \in DOMAIN q : q[i] = q[j] => i = j
  PROVE  Len(q) \in 0 .. Capacity /\ DOMAIN q = 1 .. Len(q)
<1>1. Len(q) \in Nat /\ DOMAIN q = 1 .. Len(q) /\ q \in [1 .. Len(q) -> Slot]
  OBVIOUS
<1>2. IsFiniteSet(1 .. Len(q)) /\ Cardinality(1 .. Len(q)) = Len(q)
  BY <1>1, FS_Interval
<1>3. ~(Cardinality(Slot) < Cardinality(1 .. Len(q)))
  BY <1>1, <1>2, Bounds, FS_PigeonHole
<1>. QED  BY <1>1, <1>2, <1>3, Bounds

\* Following the pointers one by one yields the list they lead through.
LEMMA ChainIs ==
  ASSUME NEW n \in [Slot -> Link], NEW h \in Link, NEW q \in Seq(Slot), Linked(n, h, q)
  PROVE  Chain(n, h) = [i \in 0 .. Capacity |-> At(q, i + 1)]
<1>. DEFINE Solves(f) ==
              f = [i \in 0 .. Capacity |->
                     IF i = 0 THEN h ELSE IF f[i - 1] = Null THEN Null ELSE n[f[i - 1]]]
            g == [i \in 0 .. Capacity |-> At(q, i + 1)]
<1>1. /\ Capacity \in Nat /\ DOMAIN q = 1 .. Len(q) /\ Len(q) \in Nat
      /\ \A i \in DOMAIN q : q[i] # Null
  BY Bounds
<1>2. Solves(g)
  <2>1. ASSUME NEW i \in 0 .. Capacity
        PROVE  At(q, i + 1) =
                 IF i = 0 THEN h ELSE IF g[i - 1] = Null THEN Null ELSE n[g[i - 1]]
    <3>1. CASE i = 0
      BY <3>1 DEF Linked
    <3>2. CASE i # 0
      <4>1. i - 1 \in 0 .. Capacity /\ (i - 1) + 1 = i
        BY <1>1, <3>2
      <4>2. g[i - 1] = At(q, i)
        BY <4>1
      <4>3. CASE i \in DOMAIN q
        <5>1. At(q, i) = q[i] /\ q[i] # Null
          BY <1>1, <4>3 DEF At
        <5>2. n[q[i]] = At(q, i + 1)
          BY <4>3 DEF Linked
        <5>. HIDE DEF g
        <5>. QED  BY <3>2, <4>2, <5>1, <5>2
      <4>4. CASE i \notin DOMAIN q
        <5>1. i + 1 \notin DOMAIN q
          BY <1>1, <3>2, <4>4
        <5>. QED  BY <5>1, <3>2, <4>2, <4>4 DEF At
      <4>. QED  BY <4>3, <4>4
    <3>. QED  BY <3>1, <3>2
  <2>. QED  BY <2>1
<1>. DEFINE c == Chain(n, h)
<1>3. c = CHOOSE f : Solves(f)
  BY DEF Chain
<1>4. Solves(c)
  <2>. HIDE DEF Solves, g, c
  <2>. QED  BY <1>2, <1>3
<1>5. /\ c[0] = h /\ g[0] = h
      /\ \A i \in 0 .. Capacity : i # 0 =>
           /\ c[i] = IF c[i - 1] = Null THEN Null ELSE n[c[i - 1]]
           /\ g[i] = IF g[i - 1] = Null THEN Null ELSE n[g[i - 1]]
  <2>. HIDE DEF c, g
  <2>. QED  BY <1>1, <1>2, <1>4
<1>6. c = [i \in 0 .. Capacity |-> c[i]]
  <2>. HIDE DEF c
  <2>. QED  BY <1>4
<1>7. ASSUME NEW m \in 0 .. Capacity, c[m] # g[m] PROVE FALSE
  <2>. DEFINE D == {i \in 0 .. Capacity : c[i] # g[i]}
  <2>. HIDE DEF c, g
  <2>1. D \subseteq Nat /\ D # {}
    BY <1>1, <1>7
  <2>2. PICK k \in D : \A i \in D : k <= i
    <3>. HIDE DEF D
    <3>. QED  BY <2>1, LeastNatural
  <2>3. k # 0
    BY <1>5, <2>2
  <2>4. k - 1 \in 0 .. Capacity /\ k - 1 \notin D
    BY <1>1, <2>2, <2>3
  <2>. QED  BY <1>5, <2>2, <2>3, <2>4
<1>. QED
  BY <1>6, <1>7

LEMMA ListIs ==
  ASSUME NEW n \in [Slot -> Link], NEW h \in Link, NEW q \in Seq(Slot), Linked(n, h, q)
  PROVE  ListOf(n, h) = q
<1>. DEFINE c == [i \in 0 .. Capacity |-> At(q, i + 1)]
            X == {i \in 0 .. Capacity : c[i] # Null}
<1>1. /\ Len(q) \in 0 .. Capacity /\ DOMAIN q = 1 .. Len(q) /\ Capacity \in Nat
      /\ \A i \in DOMAIN q : q[i] # Null
  BY ListIsShort, Bounds DEF Linked
<1>2. \A i \in 0 .. Capacity : c[i] # Null <=> i + 1 \in DOMAIN q
  BY <1>1 DEF At
<1>3. X = 0 .. Len(q) - 1
  <2>. HIDE DEF c
  <2>. QED  BY <1>1, <1>2
<1>4. Cardinality(X) = Len(q)
  <2>. DEFINE b == Len(q) - 1
  <2>1. b \in Int /\ 0 \in Int
    BY <1>1
  <2>2. Cardinality(0 .. b) = IF 0 > b THEN 0 ELSE b - 0 + 1
    <3>. HIDE DEF b
    <3>. QED  BY <2>1, FS_Interval
  <2>3. Cardinality(0 .. b) = Len(q)
    BY <1>1, <2>2
  <2>. HIDE DEF X
  <2>. QED  BY <1>3, <2>3
<1>5. ListOf(n, h) = [i \in 1 .. Cardinality(X) |-> c[i - 1]]
  BY ChainIs DEF ListOf
<1>6. \A i \in 1 .. Len(q) : c[i - 1] = q[i]
  BY <1>1 DEF At
<1>7. ListOf(n, h) = [i \in 1 .. Len(q) |-> q[i]]
  <2>. HIDE DEF X, c
  <2>. QED  BY <1>4, <1>5, <1>6
<1>. QED
  BY <1>7, <1>1

-----------------------------------------------------------------------------
(* The inductive invariant.                                                *)

\* Each slot is in the list q, or a caller's, or in the hands of one thread.
Shared(q) ==
  /\ \A t \in Threads : \A s \in Held(t) : s \in Slot /\ s \notin owned /\ s \notin ToSet(q)
  /\ \A t, u \in Threads : \A s \in Held(t) : s \in Held(u) => t = u
  /\ \A s \in owned : s \notin ToSet(q)
  /\ \A s \in Slot : s \in ToSet(q) \/ s \in owned \/ \E t \in Threads : s \in Held(t)

\* What a thread has read is still true when it matters: the head that the
\* allocating thread read does not leave the list without it, so the next
\* pointer of that slot does not change either.
ReadsAreValid(q) ==
  \A t \in Threads :
    /\ call[t].pc \in {"pop_next", "pop_cas"} => t \in Allocators /\ call[t].head \in ToSet(q)
    /\ call[t].pc = "pop_cas" => call[t].next = next[call[t].head]
    /\ call[t].pc = "push_cas" => next[call[t].slot] = call[t].head

Sound(q) == Linked(next, free_head, q) /\ Shared(q) /\ ReadsAreValid(q)

IInv == TypeOK /\ \E q \in Seq(Slot) : Sound(q)

Pc     == {"idle", "pop_next", "pop_cas", "pop_done", "push_next", "push_cas", "push_done"}
Record == [pc : Pc, slot : Link, head : Link, next : Link]

\* The steps, one by one.
LEMMA Steps ==
  ASSUME [Next]_vars
  PROVE  \/ \E t \in Threads :
              \/ PopLoad(t) \/ PopNext(t) \/ PopSucceeds(t) \/ PopFails(t) \/ Allocated(t)
              \/ (\E s \in Slot : PushLoad(t, s))
              \/ PushNext(t) \/ PushSucceeds(t) \/ PushFails(t) \/ Deallocated(t)
         \/ UNCHANGED vars
BY Zenon DEF Next, Step, Call, Return

LEMMA Types ==
  ASSUME IInv, [Next]_vars
  PROVE  TypeOK'
<1>0. /\ next \in [Slot -> Link] /\ free_head \in Link /\ allocated \in 0 .. SizeMod - 1
      /\ call \in [Threads -> Record] /\ owned \subseteq Slot
  BY DEF IInv, TypeOK, Record, Pc
<1>1. /\ Null \in Link /\ Slot \subseteq Link /\ Idle \in Record
      /\ \A h \in Link : [Idle EXCEPT !.pc = "pop_next", !.head = h] \in Record
      /\ \A s, h \in Link : [Idle EXCEPT !.pc = "push_next", !.slot = s, !.head = h] \in Record
  BY DEF Link, Idle, Record, Pc
<1>2. \A n \in Int : n % SizeMod \in 0 .. SizeMod - 1
  <2>1. SizeMod \in Nat \ {0}
    <3>1. Cardinality(Threads) \in Nat /\ Capacity \in Nat
      BY PoolAssumption, FS_CardinalityType
    <3>. QED  BY <3>1, PoolAssumption
  <2>. QED  BY <2>1, Parts
<1>3. ASSUME NEW t \in Threads, NEW r \in Record, call' = [call EXCEPT ![t] = r],
             UNCHANGED <<next, free_head, allocated>>, owned' \subseteq Slot
      PROVE  TypeOK'
  BY <1>0, <1>3 DEF TypeOK, Record, Pc
<1>4. ASSUME NEW t \in Threads, PopLoad(t) \/ PopFails(t)
      PROVE  TypeOK'
  <2>1. PICK r \in Record : call' = [call EXCEPT ![t] = r]
    BY <1>0, <1>1, <1>4 DEF PopLoad, PopFails, PopWith
  <2>. QED  BY <1>0, <1>3, <1>4, <2>1 DEF PopLoad, PopFails
<1>5. ASSUME NEW t \in Threads, PopNext(t)
      PROVE  TypeOK'
  <2>1. next[call[t].head] \in Link
    <3>1. PICK q \in Seq(Slot) : call[t].head \in ToSet(q)
      BY <1>5 DEF PopNext, IInv, Sound, ReadsAreValid
    <3>2. ToSet(q) \subseteq Slot
      BY DEF ToSet
    <3>. QED  BY <1>0, <3>1, <3>2
  <2>2. [call[t] EXCEPT !.pc = "pop_cas", !.next = next[call[t].head]] \in Record
    BY <1>0, <2>1 DEF Record, Pc
  <2>. QED  BY <1>0, <1>3, <1>5, <2>2 DEF PopNext
<1>6. ASSUME NEW t \in Threads, PopSucceeds(t) \/ PushSucceeds(t)
      PROVE  TypeOK'
  BY <1>0, <1>6 DEF PopSucceeds, PushSucceeds, TypeOK, Record, Pc
<1>7. ASSUME NEW t \in Threads, NEW s \in Slot, PushLoad(t, s)
      PROVE  TypeOK'
  BY <1>0, <1>1, <1>3, <1>7 DEF PushLoad
<1>8. ASSUME NEW t \in Threads, PushNext(t) \/ PushFails(t)
      PROVE  TypeOK'
  BY <1>0, <1>8 DEF PushNext, PushFails, TypeOK, Record, Pc
<1>9. ASSUME NEW t \in Threads, Deallocated(t)
      PROVE  TypeOK'
  <2>1. allocated' \in 0 .. SizeMod - 1
    BY <1>0, <1>2, <1>9 DEF Deallocated
  <2>2. call' \in [Threads -> Record]
    BY <1>0, <1>1, <1>9 DEF Deallocated
  <2>. QED  BY <1>0, <1>9, <2>1, <2>2 DEF Deallocated, TypeOK, Record, Pc
<1>10. ASSUME NEW t \in Threads, Allocated(t)
       PROVE  TypeOK'
  <2>1. allocated' \in 0 .. SizeMod - 1
    BY <1>0, <1>2, <1>10 DEF Allocated
  <2>2. call[t].head \in Slot
    BY <1>10 DEF Allocated, IInv, Sound, Shared, Held
  <2>3. owned' \subseteq Slot /\ call' \in [Threads -> Record]
    BY <1>0, <1>1, <1>10, <2>2 DEF Allocated
  <2>. QED  BY <1>0, <1>10, <2>1, <2>3 DEF Allocated, TypeOK, Record, Pc
<1>11. CASE UNCHANGED vars
  BY <1>11 DEF vars, IInv, TypeOK
<1>. QED
  BY <1>4, <1>5, <1>6, <1>7, <1>8, <1>9, <1>10, <1>11, Steps

-----------------------------------------------------------------------------
(* Taking from the list and giving back.                                   *)

LEMMA TailOf ==
  ASSUME NEW n \in [Slot -> Link], NEW q \in Seq(Slot), Linked(n, At(q, 1), q), q # <<>>
  PROVE  /\ Tail(q) \in Seq(Slot) /\ Linked(n, n[q[1]], Tail(q))
         /\ q[1] \in Slot /\ ToSet(Tail(q)) = ToSet(q) \ {q[1]}
<1>. DEFINE z == Tail(q)
<1>1. /\ Len(q) \in Nat \ {0} /\ DOMAIN q = 1 .. Len(q) /\ q[1] \in Slot
      /\ z \in Seq(Slot) /\ DOMAIN z = 1 .. Len(q) - 1
      /\ \A i \in 1 .. Len(q) - 1 : z[i] = q[i + 1]
  OBVIOUS
<1>. HIDE DEF z
<1>2. \A i \in Nat \ {0} : At(z, i) = At(q, i + 1)
  BY <1>1 DEF At
<1>3. n[q[1]] = At(z, 1)
  <2>1. n[q[1]] = At(q, 1 + 1)
    BY <1>1 DEF Linked
  <2>. QED  BY <1>2, <2>1
<1>4. ASSUME NEW i \in DOMAIN z PROVE n[z[i]] = At(z, i + 1)
  <2>1. i + 1 \in DOMAIN q /\ z[i] = q[i + 1] /\ i + 1 \in Nat \ {0}
    BY <1>1
  <2>2. n[q[i + 1]] = At(q, (i + 1) + 1)
    BY <2>1 DEF Linked
  <2>. QED  BY <1>2, <2>1, <2>2
<1>5. ASSUME NEW i \in DOMAIN z, NEW j \in DOMAIN z, z[i] = z[j] PROVE i = j
  <2>1. i + 1 \in DOMAIN q /\ j + 1 \in DOMAIN q /\ q[i + 1] = q[j + 1] /\ i \in Int /\ j \in Int
    BY <1>1, <1>5
  <2>2. i + 1 = j + 1
    BY <2>1 DEF Linked
  <2>. QED  BY <2>1, <2>2
<1>6. ASSUME NEW s PROVE s \in ToSet(z) <=> s \in ToSet(q) /\ s # q[1]
  <2>1. ASSUME s \in ToSet(z) PROVE s \in ToSet(q) /\ s # q[1]
    <3>1. PICK i \in DOMAIN z : s = z[i]
      BY <2>1 DEF ToSet
    <3>2. s = q[i + 1] /\ i + 1 \in DOMAIN q /\ 1 \in DOMAIN q /\ i + 1 # 1
      BY <1>1, <3>1
    <3>. QED  BY <3>2 DEF ToSet, Linked
  <2>2. ASSUME s \in ToSet(q), s # q[1] PROVE s \in ToSet(z)
    <3>1. PICK i \in DOMAIN q : s = q[i]
      BY <2>2 DEF ToSet
    <3>2. i - 1 \in DOMAIN z /\ z[i - 1] = s
      BY <1>1, <2>2, <3>1
    <3>. QED  BY <3>2 DEF ToSet
  <2>. QED  BY <2>1, <2>2
<1>. QED
  BY <1>1, <1>3, <1>4, <1>5, <1>6 DEF Linked, z

LEMMA ConsOf ==
  ASSUME NEW n \in [Slot -> Link], NEW h, NEW q \in Seq(Slot), Linked(n, h, q),
         NEW s \in Slot, s \notin ToSet(q), n[s] = h
  PROVE  /\ <<s>> \o q \in Seq(Slot) /\ Linked(n, s, <<s>> \o q)
         /\ ToSet(<<s>> \o q) = ToSet(q) \cup {s}
<1>. DEFINE z == <<s>> \o q
<1>1. /\ Len(q) \in Nat /\ DOMAIN q = 1 .. Len(q)
      /\ z \in Seq(Slot) /\ DOMAIN z = 1 .. Len(q) + 1
      /\ z[1] = s /\ \A i \in 1 .. Len(q) : z[i + 1] = q[i]
  OBVIOUS
<1>. HIDE DEF z
<1>2. \A i \in 2 .. Len(q) + 1 : z[i] = q[i - 1] /\ i - 1 \in DOMAIN q
  <2>1. \A i \in 2 .. Len(q) + 1 : i - 1 \in 1 .. Len(q) /\ (i - 1) + 1 = i
    BY <1>1
  <2>. QED  BY <1>1, <2>1
<1>3. \A i \in Nat \ {0} : At(z, i + 1) = At(q, i)
  BY <1>1 DEF At
<1>4. s = At(z, 1)
  BY <1>1 DEF At
<1>5. ASSUME NEW i \in DOMAIN z PROVE n[z[i]] = At(z, i + 1)
  <2>1. CASE i = 1
    BY <2>1, <1>1, <1>3 DEF Linked
  <2>2. CASE i # 1
    <3>1. z[i] = q[i - 1] /\ i - 1 \in DOMAIN q /\ i \in Nat \ {0} /\ (i - 1) + 1 = i
      BY <1>1, <1>2, <2>2
    <3>2. n[q[i - 1]] = At(q, i)
      BY <3>1 DEF Linked
    <3>. QED  BY <1>3, <3>1, <3>2
  <2>. QED  BY <2>1, <2>2
<1>6. ASSUME NEW i \in DOMAIN z, NEW j \in DOMAIN z, z[i] = z[j] PROVE i = j
  <2>1. \A k \in DOMAIN z : k = 1 \/ k \in 2 .. Len(q) + 1
    BY <1>1
  <2>2. \A k \in 2 .. Len(q) + 1 : z[k] # s
    BY <1>2 DEF ToSet
  <2>3. CASE i = 1 \/ j = 1
    BY <2>1, <2>2, <2>3, <1>1, <1>6
  <2>4. CASE i # 1 /\ j # 1
    <3>1. q[i - 1] = q[j - 1] /\ i - 1 \in DOMAIN q /\ j - 1 \in DOMAIN q
      BY <2>1, <2>4, <1>2, <1>6
    <3>2. i - 1 = j - 1
      BY <3>1 DEF Linked
    <3>. QED  BY <3>2, <1>1
  <2>. QED  BY <2>3, <2>4
<1>7. ASSUME NEW x PROVE x \in ToSet(z) <=> x \in ToSet(q) \/ x = s
  <2>1. ASSUME x \in ToSet(z) PROVE x \in ToSet(q) \/ x = s
    <3>1. PICK i \in DOMAIN z : x = z[i]
      BY <2>1 DEF ToSet
    <3>2. CASE i = 1
      BY <3>1, <3>2, <1>1
    <3>3. CASE i # 1
      <4>1. z[i] = q[i - 1] /\ i - 1 \in DOMAIN q
        BY <1>1, <1>2, <3>3
      <4>. QED  BY <3>1, <4>1 DEF ToSet
    <3>. QED  BY <3>2, <3>3
  <2>2. ASSUME x \in ToSet(q) \/ x = s PROVE x \in ToSet(z)
    <3>1. CASE x = s
      BY <3>1, <1>1 DEF ToSet
    <3>2. CASE x \in ToSet(q)
      <4>1. PICK i \in DOMAIN q : x = q[i]
        BY <3>2 DEF ToSet
      <4>2. i + 1 \in DOMAIN z /\ z[i + 1] = x
        BY <4>1, <1>1
      <4>. QED  BY <4>2 DEF ToSet
    <3>. QED  BY <3>1, <3>2, <2>2
  <2>. QED  BY <2>1, <2>2
<1>. QED
  BY <1>1, <1>4, <1>5, <1>6, <1>7 DEF Linked, z

-----------------------------------------------------------------------------
(* The steps preserve the invariant.                                       *)

\* A call that goes on changes nothing of the others.
LEMMA OthersStay ==
  ASSUME TypeOK, NEW t \in Threads, NEW r, call' = [call EXCEPT ![t] = r]
  PROVE  /\ call'[t] = r
         /\ \A u \in Threads \ {t} : call'[u] = call[u] /\ Held(u)' = Held(u)
<1>1. call'[t] = r /\ \A u \in Threads \ {t} : call'[u] = call[u]
  BY DEF TypeOK
<1>2. ASSUME NEW u \in Threads \ {t} PROVE Held(u)' = Held(u)
  <2>1. call'[u] = call[u]
    BY <1>1
  <2>. QED  BY <2>1, Zenon DEF Held
<1>. QED
  BY <1>1, <1>2

\* A step of a call that leaves pool and owners as they are.
LEMMA ListStays ==
  ASSUME TypeOK, NEW q \in Seq(Slot), Sound(q), NEW t \in Threads, NEW r,
         call' = [call EXCEPT ![t] = r], UNCHANGED <<next, free_head, owned>>,
         Held(t)' = Held(t),
         r.pc \in {"pop_next", "pop_cas"} => t \in Allocators /\ r.head \in ToSet(q),
         r.pc = "pop_cas" => r.next = next[r.head],
         r.pc = "push_cas" => next[r.slot] = r.head
  PROVE  Sound(q)'
<1>1. call'[t] = r /\ \A u \in Threads \ {t} : call'[u] = call[u]
  BY OthersStay
<1>2. \A u \in Threads : Held(u)' = Held(u)
  BY OthersStay
<1>3. Linked(next, free_head, q)'
  BY DEF Sound, Linked, At
<1>4. Shared(q)'
  <2>. DEFINE H(u) == Held(u)
  <2>1. \A u \in Threads : H(u)' = H(u)
    BY <1>2
  <2>2. /\ \A u \in Threads : \A s \in H(u) : s \in Slot /\ s \notin owned /\ s \notin ToSet(q)
        /\ \A u, v \in Threads : \A s \in H(u) : s \in H(v) => u = v
        /\ \A s \in owned : s \notin ToSet(q)
        /\ \A s \in Slot : s \in ToSet(q) \/ s \in owned \/ \E u \in Threads : s \in H(u)
    BY DEF Sound, Shared
  <2>. HIDE DEF H
  <2>3. /\ \A u \in Threads : \A s \in H(u)' : s \in Slot /\ s \notin owned' /\ s \notin ToSet(q)
        /\ \A u, v \in Threads : \A s \in H(u)' : s \in H(v)' => u = v
        /\ \A s \in owned' : s \notin ToSet(q)
        /\ \A s \in Slot : s \in ToSet(q) \/ s \in owned' \/ \E u \in Threads : s \in H(u)'
    BY <2>1, <2>2
  <2>. QED  BY <2>3 DEF Shared, H
<1>5. ReadsAreValid(q)'
  <2>. SUFFICES ASSUME NEW u \in Threads
       PROVE  /\ call'[u].pc \in {"pop_next", "pop_cas"} => u \in Allocators /\ call'[u].head \in ToSet(q)
              /\ call'[u].pc = "pop_cas" => call'[u].next = next[call'[u].head]
              /\ call'[u].pc = "push_cas" => next[call'[u].slot] = call'[u].head
    BY DEF ReadsAreValid
  <2>1. CASE u = t
    BY <2>1, <1>1
  <2>2. CASE u # t
    BY <2>2, <1>1 DEF Sound, ReadsAreValid
  <2>. QED  BY <2>1, <2>2
<1>. QED
  BY <1>3, <1>4, <1>5 DEF Sound

\* A head that was read and is not null is in the list.
LEMMA HeadIsListed ==
  ASSUME NEW q \in Seq(Slot), Sound(q)
  PROVE  free_head = Null \/ (q # <<>> /\ free_head = q[1] /\ free_head \in ToSet(q))
<1>1. CASE 1 \in DOMAIN q
  <2>1. q # <<>> /\ q[1] \in ToSet(q)
    BY <1>1 DEF ToSet
  <2>. QED  BY <2>1, <1>1 DEF Sound, Linked, At
<1>2. CASE 1 \notin DOMAIN q
  BY <1>2 DEF Sound, Linked, At
<1>. QED
  BY <1>1, <1>2

\* The steps that only read.
LEMMA Reading ==
  ASSUME TypeOK, NEW q \in Seq(Slot), Sound(q), NEW t \in Threads,
         PopLoad(t) \/ PopNext(t) \/ PopFails(t) \/ PushFails(t) \/ Deallocated(t)
  PROVE  Sound(q)'
<1>0. call \in [Threads -> Record]
  BY DEF TypeOK, Record, Pc
<1>1. CASE PopLoad(t) \/ PopFails(t)
  <2>. DEFINE r == IF free_head = Null THEN Idle
                   ELSE [Idle EXCEPT !.pc = "pop_next", !.head = free_head]
  <2>1. /\ call' = [call EXCEPT ![t] = r] /\ UNCHANGED <<next, free_head, owned>>
        /\ call[t].pc \in {"idle", "pop_cas"}
    BY <1>1 DEF PopLoad, PopFails, PopWith
  <2>2. t \in Allocators
    BY <1>1 DEF PopLoad, PopFails, Sound, ReadsAreValid
  <2>3. /\ r.pc \in {"idle", "pop_next"}
        /\ r.pc = "pop_next" => free_head # Null /\ r.head = free_head
    BY DEF Idle
  <2>. HIDE DEF r
  <2>4. call'[t] = r
    BY <2>1, OthersStay
  <2>5. Held(t) = {} /\ Held(t)' = {}
    BY <2>1, <2>3, <2>4 DEF Held
  <2>. QED  BY <2>1, <2>2, <2>3, <2>5, ListStays, HeadIsListed
<1>2. CASE PopNext(t)
  <2>. DEFINE r == [call[t] EXCEPT !.pc = "pop_cas", !.next = next[call[t].head]]
  <2>1. /\ call' = [call EXCEPT ![t] = r] /\ UNCHANGED <<next, free_head, owned>>
        /\ call[t].pc = "pop_next"
    BY <1>2 DEF PopNext
  <2>2. r.pc = "pop_cas" /\ r.head = call[t].head /\ r.next = next[r.head]
    BY <1>0 DEF Record
  <2>3. t \in Allocators /\ r.head \in ToSet(q)
    BY <2>1, <2>2 DEF Sound, ReadsAreValid
  <2>. HIDE DEF r
  <2>4. call'[t] = r
    BY <2>1, OthersStay
  <2>5. Held(t) = {} /\ Held(t)' = {}
    BY <2>1, <2>2, <2>4 DEF Held
  <2>. QED  BY <2>1, <2>2, <2>3, <2>5, ListStays
<1>3. CASE PushFails(t)
  <2>. DEFINE r == [call[t] EXCEPT !.pc = "push_next", !.head = free_head]
  <2>1. /\ call' = [call EXCEPT ![t] = r] /\ UNCHANGED <<next, free_head, owned>>
        /\ call[t].pc = "push_cas"
    BY <1>3 DEF PushFails
  <2>2. r.pc = "push_next" /\ r.slot = call[t].slot
    BY <1>0 DEF Record
  <2>. HIDE DEF r
  <2>4. call'[t] = r
    BY <2>1, OthersStay
  <2>5. Held(t) = {call[t].slot} /\ Held(t)' = {call[t].slot}
    BY <2>1, <2>2, <2>4 DEF Held
  <2>. QED  BY <2>1, <2>2, <2>5, ListStays
<1>4. CASE Deallocated(t)
  <2>1. /\ call' = [call EXCEPT ![t] = Idle] /\ UNCHANGED <<next, free_head, owned>>
        /\ call[t].pc = "push_done" /\ Idle.pc = "idle"
    BY <1>4 DEF Deallocated, Idle
  <2>2. call'[t] = Idle
    BY <2>1, OthersStay
  <2>3. Held(t) = {} /\ Held(t)' = {}
    BY <2>1, <2>2 DEF Held
  <2>. QED  BY <2>1, <2>3, ListStays
<1>. QED
  BY <1>1, <1>2, <1>3, <1>4

\* A slot passes from a thread t to the list or to its caller, or the other
\* way: A is what t holds afterwards, q2 the list, O the callers' slots.
LEMMA Passing ==
  ASSUME TypeOK, NEW q, Shared(q), NEW t \in Threads, NEW r, call' = [call EXCEPT ![t] = r],
         NEW q2, NEW A, NEW O, Held(t)' = A, owned' = O,
         \A s \in A : s \in Slot /\ s \notin O /\ s \notin ToSet(q2),
         \A s \in O : s \notin ToSet(q2),
         A \cup O \cup ToSet(q2) = Held(t) \cup owned \cup ToSet(q)
  PROVE  Shared(q2)'
<1>. DEFINE H(u) == Held(u)
<1>1. H(t)' = A /\ \A u \in Threads \ {t} : H(u)' = H(u)
  BY OthersStay
<1>2. /\ \A u \in Threads : \A s \in H(u) : s \in Slot /\ s \notin owned /\ s \notin ToSet(q)
      /\ \A u, v \in Threads : \A s \in H(u) : s \in H(v) => u = v
      /\ \A s \in owned : s \notin ToSet(q)
      /\ \A s \in Slot : s \in ToSet(q) \/ s \in owned \/ \E u \in Threads : s \in H(u)
  BY DEF Shared
<1>3. \A s : s \in A \/ s \in O \/ s \in ToSet(q2) <=> s \in H(t) \/ s \in owned \/ s \in ToSet(q)
  OBVIOUS
<1>. HIDE DEF H
<1>. DEFINE P == ToSet(q)
            P2 == ToSet(q2)
<1>4. /\ \A u \in Threads : \A s \in H(u)' : s \in Slot /\ s \notin O /\ s \notin P2
      /\ \A u, v \in Threads : \A s \in H(u)' : s \in H(v)' => u = v
      /\ \A s \in O : s \notin P2
      /\ \A s \in Slot : s \in P2 \/ s \in O \/ \E u \in Threads : s \in H(u)'
  <2>. HIDE DEF P, P2
  <2>1. /\ \A s \in A : s \in Slot /\ s \notin O /\ s \notin P2
        /\ \A s \in O : s \notin P2
    BY DEF P2
  <2>2. \A s : s \in A \/ s \in O \/ s \in P2 <=> s \in H(t) \/ s \in owned \/ s \in P
    BY <1>3 DEF P, P2
  <2>3. /\ \A u \in Threads : \A s \in H(u) : s \in Slot /\ s \notin owned /\ s \notin P
        /\ \A s \in owned : s \notin P
        /\ \A s \in Slot : s \in P \/ s \in owned \/ \E u \in Threads : s \in H(u)
    BY <1>2 DEF P
  <2>4. ASSUME NEW u \in Threads \ {t}, NEW s \in H(u)
        PROVE  s \notin A /\ s \notin O /\ s \notin P2 /\ s \in Slot
    BY <1>2, <2>2, <2>3, <2>4
  <2>5. ASSUME NEW u \in Threads, NEW s \in H(u)'
        PROVE  s \in Slot /\ s \notin O /\ s \notin P2
    BY <1>1, <2>1, <2>4, <2>5
  <2>6. ASSUME NEW u \in Threads, NEW v \in Threads, NEW s \in H(u)', s \in H(v)'
        PROVE  u = v
    BY <1>1, <1>2, <2>4, <2>6
  <2>7. ASSUME NEW s \in Slot, s \notin P2, s \notin O
        PROVE  \E u \in Threads : s \in H(u)'
    <3>1. CASE s \in A
      BY <1>1, <3>1
    <3>2. CASE s \notin A
      <4>1. PICK u \in Threads : s \in H(u)
        BY <2>2, <2>3, <2>7, <3>2
      <4>2. u # t
        BY <2>2, <2>7, <3>2, <4>1
      <4>. QED  BY <1>1, <4>1, <4>2
    <3>. QED  BY <3>1, <3>2
  <2>. QED  BY <2>1, <2>5, <2>6, <2>7
<1>. QED
  BY <1>4 DEF Shared, H

\* The object of a finished allocate is its caller's.
LEMMA Allocating ==
  ASSUME TypeOK, NEW q \in Seq(Slot), Sound(q), NEW t \in Threads, Allocated(t)
  PROVE  Sound(q)'
<1>. DEFINE O == owned \cup {call[t].head}
<1>1. /\ call' = [call EXCEPT ![t] = Idle] /\ UNCHANGED <<next, free_head>>
      /\ call[t].pc = "pop_done" /\ owned' = O
  BY DEF Allocated
<1>2. call'[t] = Idle /\ \A u \in Threads \ {t} : call'[u] = call[u]
  BY <1>1, OthersStay
<1>3. Held(t) = {call[t].head} /\ Held(t)' = {}
  BY <1>1, <1>2 DEF Held, Idle
<1>4. call[t].head \notin ToSet(q) /\ \A s \in owned : s \notin ToSet(q)
  BY <1>3 DEF Sound, Shared
<1>5. Shared(q)'
  <2>1. \A s \in O : s \notin ToSet(q)
    BY <1>4
  <2>2. {} \cup O \cup ToSet(q) = Held(t) \cup owned \cup ToSet(q)
    BY <1>3
  <2>. HIDE DEF O
  <2>. QED  BY <1>1, <1>3, <2>1, <2>2, Passing DEF Sound
<1>6. Linked(next, free_head, q)'
  BY <1>1 DEF Sound, Linked, At
<1>7. ReadsAreValid(q)'
  BY <1>1, <1>2 DEF Sound, ReadsAreValid, Idle
<1>. QED
  BY <1>5, <1>6, <1>7 DEF Sound

\* The caller gives an object up: it is in the hands of the thread.
LEMMA GivingUp ==
  ASSUME TypeOK, NEW q \in Seq(Slot), Sound(q), NEW t \in Threads, NEW s \in Slot, PushLoad(t, s)
  PROVE  Sound(q)'
<1>. DEFINE r == [Idle EXCEPT !.pc = "push_next", !.slot = s, !.head = free_head]
            O == owned \ {s}
<1>1. /\ call' = [call EXCEPT ![t] = r] /\ UNCHANGED <<next, free_head>>
      /\ call[t].pc = "idle" /\ owned' = O /\ s \in owned
  BY DEF PushLoad
<1>2. r.pc = "push_next" /\ r.slot = s
  BY DEF Idle
<1>. HIDE DEF r
<1>3. call'[t] = r /\ \A u \in Threads \ {t} : call'[u] = call[u]
  BY <1>1, OthersStay
<1>4. Held(t) = {} /\ Held(t)' = {s}
  BY <1>1, <1>2, <1>3 DEF Held
<1>5. \A x \in owned : x \notin ToSet(q)
  BY DEF Sound, Shared
<1>6. Shared(q)'
  <2>1. /\ \A x \in {s} : x \in Slot /\ x \notin O /\ x \notin ToSet(q)
        /\ \A x \in O : x \notin ToSet(q)
    BY <1>1, <1>5
  <2>2. {s} \cup O \cup ToSet(q) = Held(t) \cup owned \cup ToSet(q)
    BY <1>1, <1>4
  <2>. HIDE DEF O
  <2>. QED  BY <1>1, <1>4, <2>1, <2>2, Passing DEF Sound
<1>7. Linked(next, free_head, q)'
  BY <1>1 DEF Sound, Linked, At
<1>8. ReadsAreValid(q)'
  BY <1>1, <1>2, <1>3 DEF Sound, ReadsAreValid
<1>. QED
  BY <1>6, <1>7, <1>8 DEF Sound

\* The next pointer that changes is of a slot outside the list.
LEMMA Linking ==
  ASSUME TypeOK, NEW q \in Seq(Slot), Sound(q), NEW t \in Threads, PushNext(t)
  PROVE  Sound(q)'
<1>0. call \in [Threads -> Record] /\ next \in [Slot -> Link]
  BY DEF TypeOK, Record, Pc
<1>. DEFINE s == call[t].slot
            r == [call[t] EXCEPT !.pc = "push_cas"]
<1>1. /\ call' = [call EXCEPT ![t] = r] /\ UNCHANGED <<free_head, owned>>
      /\ call[t].pc = "push_next" /\ next' = [next EXCEPT ![s] = call[t].head]
  BY DEF PushNext
<1>2. r.pc = "push_cas" /\ r.slot = s /\ r.head = call[t].head
  BY <1>0 DEF Record
<1>. HIDE DEF r
<1>3. call'[t] = r /\ \A u \in Threads \ {t} : call'[u] = call[u]
  BY <1>1, OthersStay
<1>4. Held(t) = {s} /\ Held(t)' = {s}
  BY <1>1, <1>2, <1>3 DEF Held
<1>5. s \in Slot /\ s \notin owned /\ s \notin ToSet(q)
  BY <1>4 DEF Sound, Shared
<1>6. next'[s] = call[t].head /\ \A x \in Slot : x # s => next'[x] = next[x]
  BY <1>0, <1>1, <1>5
<1>. HIDE DEF s
<1>7. \A x \in ToSet(q) : x \in Slot /\ next'[x] = next[x]
  <2>1. ToSet(q) \subseteq Slot
    BY DEF ToSet
  <2>. QED  BY <1>5, <1>6, <2>1
<1>8. Linked(next, free_head, q)'
  <2>1. /\ free_head = At(q, 1)
        /\ \A i \in DOMAIN q : next[q[i]] = At(q, i + 1)
        /\ \A i, j \in DOMAIN q : q[i] = q[j] => i = j
    BY DEF Sound, Linked
  <2>2. \A i \in DOMAIN q : next'[q[i]] = next[q[i]]
    BY <1>7 DEF ToSet
  <2>3. /\ free_head' = At(q, 1)
        /\ \A i \in DOMAIN q : next'[q[i]] = At(q, i + 1)
    BY <1>1, <2>1, <2>2
  <2>. QED  BY <2>1, <2>3 DEF Linked, At
<1>9. Shared(q)'
  <2>1. \A x \in owned : x \notin ToSet(q)
    BY DEF Sound, Shared
  <2>. QED  BY <1>1, <1>4, <1>5, <2>1, Passing DEF Sound
<1>10. ReadsAreValid(q)'
  <2>. SUFFICES ASSUME NEW u \in Threads
       PROVE  /\ call'[u].pc \in {"pop_next", "pop_cas"} => u \in Allocators /\ call'[u].head \in ToSet(q)
              /\ call'[u].pc = "pop_cas" => call'[u].next = next'[call'[u].head]
              /\ call'[u].pc = "push_cas" => next'[call'[u].slot] = call'[u].head
    BY DEF ReadsAreValid
  <2>1. CASE u = t
    BY <2>1, <1>2, <1>3, <1>6
  <2>2. CASE u # t
    <3>1. call'[u] = call[u]
      BY <1>3, <2>2
    <3>2. /\ call[u].pc \in {"pop_next", "pop_cas"} => u \in Allocators /\ call[u].head \in ToSet(q)
          /\ call[u].pc = "pop_cas" => call[u].next = next[call[u].head]
          /\ call[u].pc = "push_cas" => next[call[u].slot] = call[u].head
      BY DEF Sound, ReadsAreValid
    <3>3. ASSUME call[u].pc = "push_cas" PROVE next'[call[u].slot] = next[call[u].slot]
      <4>1. Held(u) = {call[u].slot}
        BY <3>3 DEF Held
      <4>2. call[u].slot \in Slot /\ call[u].slot # s
        BY <4>1, <1>4, <2>2 DEF Sound, Shared
      <4>. QED  BY <1>6, <4>2
    <3>4. call[u].pc = "pop_cas" => next'[call[u].head] = next[call[u].head]
      BY <1>7, <3>2
    <3>. QED  BY <3>1, <3>2, <3>3, <3>4
  <2>. QED  BY <2>1, <2>2
<1>. QED
  BY <1>8, <1>9, <1>10 DEF Sound

\* With one allocating thread a pop takes the top of the list.
LEMMA Popping ==
  ASSUME SingleAllocator, TypeOK, NEW q \in Seq(Slot), Sound(q), NEW t \in Threads, PopSucceeds(t)
  PROVE  q # <<>> /\ Tail(q) \in Seq(Slot) /\ Sound(Tail(q))'
<1>0. call \in [Threads -> Record] /\ next \in [Slot -> Link]
  BY DEF TypeOK, Record, Pc
<1>. DEFINE h == call[t].head
            r == [call[t] EXCEPT !.pc = "pop_done"]
            z == Tail(q)
<1>1. /\ call' = [call EXCEPT ![t] = r] /\ UNCHANGED <<next, owned>>
      /\ call[t].pc = "pop_cas" /\ free_head = h /\ free_head' = call[t].next
  BY DEF PopSucceeds
<1>2. r.pc = "pop_done" /\ r.head = h
  BY <1>0 DEF Record
<1>. HIDE DEF r
<1>3. call'[t] = r /\ \A u \in Threads \ {t} : call'[u] = call[u]
  BY <1>1, OthersStay
<1>4. Held(t) = {} /\ Held(t)' = {h}
  BY <1>1, <1>2, <1>3 DEF Held
<1>5. t \in Allocators /\ h \in ToSet(q) /\ call[t].next = next[h] /\ ToSet(q) \subseteq Slot
  BY <1>1 DEF Sound, ReadsAreValid, ToSet
<1>6. q # <<>> /\ h = q[1]
  <2>1. h # Null
    BY <1>5, Bounds
  <2>. QED  BY <1>1, <2>1, HeadIsListed
<1>7. Linked(next, At(q, 1), q)
  BY DEF Sound, Linked
<1>8. /\ z \in Seq(Slot) /\ Linked(next, next[h], z) /\ ToSet(z) = ToSet(q) \ {h}
  BY <1>0, <1>6, <1>7, TailOf
<1>. HIDE DEF z, h
<1>9. Linked(next, free_head, z)'
  BY <1>1, <1>5, <1>8 DEF Linked, At
<1>10. Shared(z)'
  <2>1. \A x \in owned : x \notin ToSet(q)
    BY DEF Sound, Shared
  <2>2. /\ \A x \in {h} : x \in Slot /\ x \notin owned /\ x \notin ToSet(z)
        /\ \A x \in owned : x \notin ToSet(z)
    BY <1>5, <1>8, <2>1
  <2>3. {h} \cup owned \cup ToSet(z) = Held(t) \cup owned \cup ToSet(q)
    BY <1>4, <1>5, <1>8
  <2>. QED  BY <1>1, <1>4, <2>2, <2>3, Passing DEF Sound
<1>11. ReadsAreValid(z)'
  <2>. SUFFICES ASSUME NEW u \in Threads
       PROVE  /\ call'[u].pc \in {"pop_next", "pop_cas"} => u \in Allocators /\ call'[u].head \in ToSet(z)
              /\ call'[u].pc = "pop_cas" => call'[u].next = next'[call'[u].head]
              /\ call'[u].pc = "push_cas" => next'[call'[u].slot] = call'[u].head
    BY DEF ReadsAreValid
  <2>1. CASE u = t
    BY <2>1, <1>2, <1>3
  <2>2. CASE u # t
    <3>1. call'[u] = call[u]
      BY <1>3, <2>2
    <3>2. u \notin Allocators
      BY <1>5, <2>2 DEF SingleAllocator
    <3>. QED  BY <1>1, <3>1, <3>2 DEF Sound, ReadsAreValid
  <2>. QED  BY <2>1, <2>2
<1>. QED
  BY <1>6, <1>8, <1>9, <1>10, <1>11 DEF Sound, z

\* A push puts its slot on top.
LEMMA Pushing ==
  ASSUME TypeOK, NEW q \in Seq(Slot), Sound(q), NEW t \in Threads, PushSucceeds(t),
         NEW s, s = call[t].slot
  PROVE  s \in Slot /\ s \notin ToSet(q) /\ <<s>> \o q \in Seq(Slot) /\ Sound(<<s>> \o q)'
<1>0. call \in [Threads -> Record] /\ next \in [Slot -> Link]
  BY DEF TypeOK, Record, Pc
<1>. DEFINE r == [call[t] EXCEPT !.pc = "push_done"]
            z == <<s>> \o q
<1>1. /\ call' = [call EXCEPT ![t] = r] /\ UNCHANGED <<next, owned>>
      /\ call[t].pc = "push_cas" /\ free_head = call[t].head /\ free_head' = s
  BY DEF PushSucceeds
<1>2. r.pc = "push_done"
  BY <1>0 DEF Record
<1>. HIDE DEF r
<1>3. call'[t] = r /\ \A u \in Threads \ {t} : call'[u] = call[u]
  BY <1>1, OthersStay
<1>4. Held(t) = {s} /\ Held(t)' = {}
  BY <1>1, <1>2, <1>3 DEF Held
<1>5. s \in Slot /\ s \notin owned /\ s \notin ToSet(q)
  BY <1>4 DEF Sound, Shared
<1>6. next[s] = free_head /\ Linked(next, free_head, q)
  BY <1>1 DEF Sound, ReadsAreValid
<1>7. z \in Seq(Slot) /\ Linked(next, s, z) /\ ToSet(z) = ToSet(q) \cup {s}
  BY <1>0, <1>5, <1>6, ConsOf
<1>. HIDE DEF z
<1>8. Linked(next, free_head, z)'
  BY <1>1, <1>7 DEF Linked, At
<1>9. Shared(z)'
  <2>1. \A x \in owned : x \notin ToSet(q)
    BY DEF Sound, Shared
  <2>2. \A x \in owned : x \notin ToSet(z)
    BY <1>5, <1>7, <2>1
  <2>3. {} \cup owned \cup ToSet(z) = Held(t) \cup owned \cup ToSet(q)
    BY <1>4, <1>7
  <2>. QED  BY <1>1, <1>4, <2>2, <2>3, Passing DEF Sound
<1>10. ReadsAreValid(z)'
  <2>1. \A x \in ToSet(q) : x \in ToSet(z)
    BY <1>7
  <2>. QED  BY <1>1, <1>2, <1>3, <2>1 DEF Sound, ReadsAreValid
<1>. QED
  BY <1>5, <1>7, <1>8, <1>9, <1>10 DEF Sound, z

-----------------------------------------------------------------------------
(* The theorems.                                                           *)

LEMMA InitIInv ==
  ASSUME Init
  PROVE  IInv /\ Sound([i \in 1 .. Capacity |-> i - 1])
<1>. DEFINE q == [i \in 1 .. Capacity |-> i - 1]
<1>1. /\ Capacity \in Nat \ {0} /\ DOMAIN q = 1 .. Capacity
      /\ q \in [1 .. Capacity -> Slot] /\ q \in Seq(Slot)
      /\ \A i \in 1 .. Capacity : q[i] = i - 1 /\ i - 1 \in Slot
  <2>1. Capacity \in Nat \ {0} /\ DOMAIN q = 1 .. Capacity
        /\ \A i \in 1 .. Capacity : q[i] = i - 1 /\ i - 1 \in Slot
    BY Bounds DEF Slot
  <2>2. q \in [1 .. Capacity -> Slot]
    BY <2>1
  <2>. QED  BY <2>1, <2>2
<1>. HIDE DEF q
<1>2. \A s \in Slot : s + 1 \in DOMAIN q /\ q[s + 1] = s
  BY <1>1 DEF Slot
<1>3. ToSet(q) = Slot
  <2>1. \A s \in ToSet(q) : s \in Slot
    BY <1>1 DEF ToSet
  <2>2. \A s \in Slot : s \in ToSet(q)
    BY <1>2 DEF ToSet
  <2>. QED  BY <2>1, <2>2
<1>4. /\ \A s \in Slot : next[s] = IF s + 1 < Capacity THEN s + 1 ELSE Null
      /\ free_head = 0 /\ owned = {} /\ \A t \in Threads : call[t] = Idle
  BY DEF Init
<1>5. Linked(next, free_head, q)
  <2>1. free_head = At(q, 1)
    BY <1>1, <1>4 DEF At
  <2>2. ASSUME NEW i \in DOMAIN q PROVE next[q[i]] = At(q, i + 1)
    <3>1. CASE i < Capacity
      <4>1. i + 1 \in DOMAIN q /\ q[i + 1] = i /\ next[q[i]] = i
        BY <1>1, <1>4, <3>1
      <4>. QED  BY <4>1 DEF At
    <3>2. CASE ~(i < Capacity)
      <4>1. i + 1 \notin DOMAIN q /\ next[q[i]] = Null
        BY <1>1, <1>4, <3>2
      <4>. QED  BY <4>1 DEF At
    <3>. QED  BY <3>1, <3>2
  <2>3. \A i, j \in DOMAIN q : q[i] = q[j] => i = j
    BY <1>1
  <2>. QED  BY <2>1, <2>2, <2>3 DEF Linked
<1>6. \A t \in Threads : Held(t) = {} /\ call[t].pc = "idle"
  BY <1>4 DEF Held, Idle
<1>7. Sound(q)
  BY <1>3, <1>4, <1>5, <1>6 DEF Sound, Shared, ReadsAreValid
<1>8. TypeOK
  <2>1. next \in [Slot -> Link]
    <3>1. \A s \in Slot : (IF s + 1 < Capacity THEN s + 1 ELSE Null) \in Link
      BY <1>1 DEF Slot, Link
    <3>. QED  BY <3>1 DEF Init
  <2>2. free_head \in Link /\ owned \subseteq Slot
    BY <1>4, Bounds DEF Link
  <2>3. allocated \in 0 .. SizeMod - 1
    <3>1. Cardinality(Threads) \in Nat
      BY PoolAssumption, FS_CardinalityType
    <3>. QED  BY <1>1, <3>1, PoolAssumption DEF Init
  <2>4. call \in [Threads -> Record]
    BY DEF Init, Idle, Record, Pc, Link
  <2>. QED  BY <2>1, <2>2, <2>3, <2>4 DEF TypeOK, Record, Pc
<1>. QED
  BY <1>1, <1>7, <1>8 DEF IInv, q

\* A stutter keeps everything.
LEMMA Stutter ==
  ASSUME NEW q \in Seq(Slot), Sound(q), UNCHANGED vars
  PROVE  Sound(q)'
<1>1. \A t \in Threads : Held(t)' = Held(t)
  BY Zenon DEF Held, vars
<1>2. Linked(next, free_head, q)'
  BY DEF Sound, Linked, At, vars
<1>3. ReadsAreValid(q)'
  BY DEF Sound, ReadsAreValid, vars
<1>4. Shared(q)'
  <2>. DEFINE H(u) == Held(u)
  <2>1. \A u \in Threads : H(u)' = H(u)
    BY <1>1
  <2>2. /\ \A u \in Threads : \A s \in H(u) : s \in Slot /\ s \notin owned /\ s \notin ToSet(q)
        /\ \A u, v \in Threads : \A s \in H(u) : s \in H(v) => u = v
        /\ \A s \in owned : s \notin ToSet(q)
        /\ \A s \in Slot : s \in ToSet(q) \/ s \in owned \/ \E u \in Threads : s \in H(u)
    BY DEF Sound, Shared
  <2>3. owned' = owned
    BY DEF vars
  <2>. HIDE DEF H
  <2>4. /\ \A u \in Threads : \A s \in H(u)' : s \in Slot /\ s \notin owned' /\ s \notin ToSet(q)
        /\ \A u, v \in Threads : \A s \in H(u)' : s \in H(v)' => u = v
        /\ \A s \in owned' : s \notin ToSet(q)
        /\ \A s \in Slot : s \in ToSet(q) \/ s \in owned' \/ \E u \in Threads : s \in H(u)'
    BY <2>1, <2>2, <2>3
  <2>. QED  BY <2>4 DEF Shared, H
<1>. QED
  BY <1>2, <1>3, <1>4 DEF Sound

\* What becomes of the list in a step: nothing, or a pop, or a push.
LEMMA ListSteps ==
  ASSUME SingleAllocator, TypeOK, NEW q \in Seq(Slot), Sound(q), [Next]_vars
  PROVE  \/ Sound(q)'
         \/ q # <<>> /\ Tail(q) \in Seq(Slot) /\ Sound(Tail(q))'
         \/ \E s \in Slot : s \notin ToSet(q) /\ <<s>> \o q \in Seq(Slot) /\ Sound(<<s>> \o q)'
<1>1. ASSUME NEW t \in Threads, PopSucceeds(t)
      PROVE  q # <<>> /\ Tail(q) \in Seq(Slot) /\ Sound(Tail(q))'
  BY <1>1, Popping
<1>2. ASSUME NEW t \in Threads, PushSucceeds(t)
      PROVE  \E s \in Slot : s \notin ToSet(q) /\ <<s>> \o q \in Seq(Slot) /\ Sound(<<s>> \o q)'
  <2>1. PICK s : s = call[t].slot
    OBVIOUS
  <2>. QED  BY <1>2, <2>1, Pushing
<1>3. ASSUME NEW t \in Threads,
             \/ PopLoad(t) \/ PopNext(t) \/ PopFails(t) \/ PushFails(t) \/ Deallocated(t)
             \/ Allocated(t) \/ PushNext(t) \/ (\E s \in Slot : PushLoad(t, s))
      PROVE  Sound(q)'
  BY <1>3, Reading, Allocating, Linking, GivingUp
<1>4. CASE UNCHANGED vars
  BY <1>4, Stutter
<1>. QED
  BY <1>1, <1>2, <1>3, <1>4, Steps

\* The slots are linked in one list, or a caller's, or in the hands of one
\* thread, and what the threads have read is still true when they use it.
THEOREM Invariance == SingleAllocator => (Spec => []IInv)
<1>. SUFFICES ASSUME SingleAllocator PROVE Spec => []IInv
  OBVIOUS
<1>1. Init => IInv
  BY InitIInv
<1>2. IInv /\ [Next]_vars => IInv'
  <2>. SUFFICES ASSUME IInv, [Next]_vars PROVE IInv'
    OBVIOUS
  <2>1. TypeOK'
    BY Types
  <2>2. PICK q \in Seq(Slot) : Sound(q)
    BY DEF IInv
  <2>3. TypeOK
    BY DEF IInv
  <2>4. \E z \in Seq(Slot) : Sound(z)'
    BY <2>2, <2>3, ListSteps
  <2>. QED  BY <2>1, <2>4 DEF IInv
<1>. QED
  BY <1>1, <1>2, PTL DEF Spec

\* Every variable keeps its type: no pointer leaves the pool, and no thread
\* reads the next pointer of null (memory_pool.hpp:114).
THEOREM TypeCorrect == SingleAllocator => (Spec => []TypeOK)
<1>. SUFFICES ASSUME SingleAllocator PROVE Spec => []TypeOK
  OBVIOUS
<1>1. IInv => TypeOK
  BY DEF IInv
<1>. QED
  BY <1>1, Invariance, PTL

\* FreeList is the list that the invariant speaks of.
LEMMA FreeListIs ==
  ASSUME TypeOK, NEW q \in Seq(Slot), Sound(q)
  PROVE  FreeList = q
BY ListIs DEF FreeList, TypeOK, Sound

\* No slot has two owners and none is lost, for any number of slots and of
\* threads that give back, as long as one thread allocates.
THEOREM SlotsShared == SingleAllocator => (Spec => []SlotsAreShared)
<1>. SUFFICES ASSUME SingleAllocator PROVE Spec => []SlotsAreShared
  OBVIOUS
<1>1. ASSUME IInv PROVE SlotsAreShared
  <2>1. PICK q \in Seq(Slot) : Sound(q)
    BY <1>1 DEF IInv
  <2>2. FreeList = q /\ owned \subseteq Slot
    BY <1>1, <2>1, FreeListIs DEF IInv, TypeOK
  <2>. DEFINE H(u) == Held(u)
              P == ToSet(q)
  <2>3. /\ \A u \in Threads : \A s \in H(u) : s \in Slot /\ s \notin owned /\ s \notin P
        /\ \A u, v \in Threads : \A s \in H(u) : s \in H(v) => u = v
        /\ \A s \in owned : s \notin P
        /\ \A s \in Slot : s \in P \/ s \in owned \/ \E u \in Threads : s \in H(u)
    BY <2>1 DEF Sound, Shared
  <2>4. P \subseteq Slot
    BY DEF ToSet
  <2>5. \A i, j \in DOMAIN q : q[i] = q[j] => i = j
    BY <2>1 DEF Sound, Linked
  <2>. HIDE DEF H, P
  <2>6. /\ \A t \in Threads :
             /\ H(t) \cap owned = {}
             /\ \A u \in Threads \ {t} : H(t) \cap H(u) = {}
        /\ P = Slot \ (owned \cup UNION {H(t) : t \in Threads})
    <3>1. ASSUME NEW t \in Threads PROVE H(t) \cap owned = {}
      BY <2>3
    <3>2. ASSUME NEW t \in Threads, NEW u \in Threads \ {t} PROVE H(t) \cap H(u) = {}
      BY <2>3
    <3>3. ASSUME NEW s \in P PROVE s \in Slot \ (owned \cup UNION {H(t) : t \in Threads})
      BY <2>3, <2>4
    <3>4. ASSUME NEW s \in Slot \ (owned \cup UNION {H(t) : t \in Threads}) PROVE s \in P
      BY <2>3
    <3>. QED  BY <3>1, <3>2, <3>3, <3>4
  <2>. QED  BY <2>2, <2>5, <2>6 DEF SlotsAreShared, H, P
<1>. QED
  BY <1>1, Invariance, PTL

\* With one allocating thread the pool is a stack of free slots, of which a pop
\* takes the present top and on which a push puts a slot that is not there.
THEOREM RefinesSlotPool == SingleAllocator => (Spec => ImplementsSlotPool)
<1>. SUFFICES ASSUME SingleAllocator PROVE Spec => ImplementsSlotPool
  OBVIOUS
<1>1. ASSUME Init PROVE Pool!Init
  <2>. DEFINE q == [i \in 1 .. Capacity |-> i - 1]
  <2>1. q \in Seq(Slot)
    BY Bounds DEF Slot
  <2>2. Sound(q) /\ TypeOK
    BY <1>1, InitIInv DEF IInv
  <2>3. FreeList = q
    <3>. HIDE DEF q
    <3>. QED  BY <2>1, <2>2, FreeListIs
  <2>. QED  BY <2>3 DEF Pool!Init
<1>2. ASSUME IInv, IInv', [Next]_vars PROVE [Pool!Next]_FreeList
  <2>1. PICK q \in Seq(Slot) : Sound(q)
    BY <1>2 DEF IInv
  <2>2. TypeOK /\ TypeOK'
    BY <1>2 DEF IInv
  <2>3. FreeList = q
    BY <2>1, <2>2, FreeListIs
  <2>4. ASSUME NEW z \in Seq(Slot), Sound(z)' PROVE FreeList' = z
    BY <2>2, <2>4, ListIs DEF FreeList, TypeOK, Sound
  <2>5. CASE Sound(q)'
    BY <2>3, <2>4, <2>5
  <2>6. CASE q # <<>> /\ Tail(q) \in Seq(Slot) /\ Sound(Tail(q))'
    <3>1. FreeList' = Tail(q)
      BY <2>4, <2>6
    <3>2. Pool!Take
      BY <2>3, <2>6, <3>1 DEF Pool!Take
    <3>. QED  BY <3>2 DEF Pool!Next
  <2>7. ASSUME NEW s \in Slot, s \notin ToSet(q), <<s>> \o q \in Seq(Slot), Sound(<<s>> \o q)'
        PROVE  Pool!Next
    <3>1. FreeList' = <<s>> \o q
      BY <2>4, <2>7
    <3>2. Pool!Give(s)
      BY <2>3, <2>7, <3>1 DEF Pool!Give, ToSet, Pool!ToSet
    <3>. QED  BY <3>2 DEF Pool!Next, Slot
  <2>8. \/ Sound(q)'
        \/ q # <<>> /\ Tail(q) \in Seq(Slot) /\ Sound(Tail(q))'
        \/ \E s \in Slot : s \notin ToSet(q) /\ <<s>> \o q \in Seq(Slot) /\ Sound(<<s>> \o q)'
    BY <1>2, <2>1, <2>2, ListSteps
  <2>. QED  BY <2>5, <2>6, <2>7, <2>8
<1>. QED
  BY <1>1, <1>2, Invariance, PTL DEF Spec, ImplementsSlotPool, Pool!Spec

-----------------------------------------------------------------------------
(* The counter.                                                            *)

\* The threads that are giving an object back.
Way == {t \in Threads : call[t].pc \in {"push_next", "push_cas", "push_done"}}

CounterIsRight == allocated = Cardinality(owned) + Cardinality(Way)

\* The two sets are finite and small, so the sum does not reach SizeMod.
LEMMA CountsAreSmall ==
  ASSUME TypeOK
  PROVE  /\ IsFiniteSet(owned) /\ IsFiniteSet(Way)
         /\ Cardinality(owned) \in 0 .. Capacity
         /\ Cardinality(Way) \in Nat /\ SizeMod \in Nat
         /\ Cardinality(owned) + Cardinality(Way) < SizeMod
<1>1. /\ owned \subseteq Slot /\ IsFiniteSet(Slot) /\ Cardinality(Slot) = Capacity
      /\ Capacity \in Nat
  BY Bounds DEF TypeOK
<1>2. IsFiniteSet(owned) /\ Cardinality(owned) <= Capacity /\ Cardinality(owned) \in Nat
  BY <1>1, FS_Subset, FS_CardinalityType
<1>3. Way \subseteq Threads /\ IsFiniteSet(Threads)
  BY PoolAssumption DEF Way
<1>4. /\ IsFiniteSet(Way) /\ Cardinality(Way) <= Cardinality(Threads)
      /\ Cardinality(Way) \in Nat /\ Cardinality(Threads) \in Nat
  BY <1>3, FS_Subset, FS_CardinalityType
<1>. QED
  BY <1>1, <1>2, <1>4, PoolAssumption

\* What a step of the thread t makes of the set of those giving back.
LEMMA WayOf ==
  ASSUME TypeOK, NEW t \in Threads, NEW r, call' = [call EXCEPT ![t] = r]
  PROVE  Way' = IF r.pc \in {"push_next", "push_cas", "push_done"} THEN Way \cup {t} ELSE Way \ {t}
<1>1. call'[t] = r /\ \A u \in Threads \ {t} : call'[u] = call[u]
  BY OthersStay
<1>. QED
  BY <1>1 DEF Way

LEMMA CounterSteps ==
  ASSUME IInv, CounterIsRight, TypeOK', [Next]_vars
  PROVE  CounterIsRight'
<1>0. /\ TypeOK /\ call \in [Threads -> Record]
      /\ allocated = Cardinality(owned) + Cardinality(Way)
  BY DEF IInv, CounterIsRight, TypeOK, Record, Pc
<1>1. /\ IsFiniteSet(owned) /\ IsFiniteSet(Way) /\ SizeMod \in Nat
      /\ Cardinality(owned) \in Nat /\ Cardinality(Way) \in Nat
      /\ Cardinality(owned) + Cardinality(Way) < SizeMod
  BY <1>0, CountsAreSmall
<1>2. /\ Cardinality(owned') \in Nat /\ Cardinality(Way') \in Nat
      /\ Cardinality(owned') + Cardinality(Way') < SizeMod
  <2>1. /\ owned' \subseteq Slot /\ IsFiniteSet(Slot) /\ Cardinality(Slot) = Capacity
        /\ Capacity \in Nat
    BY Bounds DEF TypeOK
  <2>2. IsFiniteSet(owned') /\ Cardinality(owned') <= Capacity /\ Cardinality(owned') \in Nat
    BY <2>1, FS_Subset, FS_CardinalityType
  <2>3. Way' \subseteq Threads /\ IsFiniteSet(Threads)
    BY PoolAssumption DEF Way
  <2>4. /\ IsFiniteSet(Way') /\ Cardinality(Way') <= Cardinality(Threads)
        /\ Cardinality(Way') \in Nat /\ Cardinality(Threads) \in Nat
    BY <2>3, FS_Subset, FS_CardinalityType
  <2>. QED  BY <2>1, <2>2, <2>4, PoolAssumption
<1>3. ASSUME NEW t \in Threads, NEW r, call' = [call EXCEPT ![t] = r],
             UNCHANGED <<allocated, owned>>,
             r.pc \in {"push_next", "push_cas", "push_done"} <=> t \in Way
      PROVE  CounterIsRight'
  <2>1. Way' = IF t \in Way THEN Way \cup {t} ELSE Way \ {t}
    BY <1>0, <1>3, WayOf
  <2>2. Way' = Way
    <3>. HIDE DEF Way
    <3>1. CASE t \in Way
      BY <2>1, <3>1
    <3>2. CASE t \notin Way
      BY <2>1, <3>2
    <3>. QED  BY <3>1, <3>2
  <2>. QED  BY <1>0, <1>3, <2>2 DEF CounterIsRight
<1>4. ASSUME NEW t \in Threads, PopLoad(t) \/ PopFails(t)
      PROVE  CounterIsRight'
  <2>1. PICK r \in Record : /\ call' = [call EXCEPT ![t] = r]
                            /\ r.pc \in {"idle", "pop_next"}
    <3>1. /\ Idle \in Record /\ Idle.pc = "idle" /\ free_head \in Link
          /\ \A h \in Link : /\ [Idle EXCEPT !.pc = "pop_next", !.head = h] \in Record
                             /\ [Idle EXCEPT !.pc = "pop_next", !.head = h].pc = "pop_next"
      BY <1>0 DEF TypeOK, Link, Idle, Record, Pc
    <3>. QED  BY <1>4, <3>1 DEF PopLoad, PopFails, PopWith
  <2>2. t \notin Way /\ UNCHANGED <<allocated, owned>>
    BY <1>4 DEF PopLoad, PopFails, Way
  <2>. QED  BY <1>3, <2>1, <2>2
<1>5. ASSUME NEW t \in Threads, PopNext(t) \/ PopSucceeds(t)
      PROVE  CounterIsRight'
  <2>1. PICK r : call' = [call EXCEPT ![t] = r] /\ r.pc \in {"pop_cas", "pop_done"}
    <3>1. CASE PopNext(t)
      <4>1. [call[t] EXCEPT !.pc = "pop_cas", !.next = next[call[t].head]].pc = "pop_cas"
        BY <1>0 DEF Record
      <4>. QED  BY <3>1, <4>1 DEF PopNext
    <3>2. CASE PopSucceeds(t)
      <4>1. [call[t] EXCEPT !.pc = "pop_done"].pc = "pop_done"
        BY <1>0 DEF Record
      <4>. QED  BY <3>2, <4>1 DEF PopSucceeds
    <3>. QED  BY <1>5, <3>1, <3>2
  <2>2. t \notin Way /\ UNCHANGED <<allocated, owned>>
    BY <1>5 DEF PopNext, PopSucceeds, Way
  <2>. QED  BY <1>3, <2>1, <2>2
<1>6. ASSUME NEW t \in Threads, PushNext(t) \/ PushSucceeds(t) \/ PushFails(t)
      PROVE  CounterIsRight'
  <2>1. PICK r : /\ call' = [call EXCEPT ![t] = r]
                 /\ r.pc \in {"push_next", "push_cas", "push_done"}
    <3>1. CASE PushNext(t)
      <4>1. [call[t] EXCEPT !.pc = "push_cas"].pc = "push_cas"
        BY <1>0 DEF Record
      <4>. QED  BY <3>1, <4>1 DEF PushNext
    <3>2. CASE PushSucceeds(t)
      <4>1. [call[t] EXCEPT !.pc = "push_done"].pc = "push_done"
        BY <1>0 DEF Record
      <4>. QED  BY <3>2, <4>1 DEF PushSucceeds
    <3>3. CASE PushFails(t)
      <4>1. [call[t] EXCEPT !.pc = "push_next", !.head = free_head].pc = "push_next"
        BY <1>0 DEF Record
      <4>. QED  BY <3>3, <4>1 DEF PushFails
    <3>. QED  BY <1>6, <3>1, <3>2, <3>3
  <2>2. t \in Way /\ UNCHANGED <<allocated, owned>>
    BY <1>6 DEF PushNext, PushSucceeds, PushFails, Way
  <2>. QED  BY <1>3, <2>1, <2>2
<1>7. ASSUME NEW t \in Threads, NEW s \in Slot, PushLoad(t, s)
      PROVE  CounterIsRight'
  <2>. DEFINE r == [Idle EXCEPT !.pc = "push_next", !.slot = s, !.head = free_head]
  <2>1. /\ call' = [call EXCEPT ![t] = r] /\ r.pc = "push_next" /\ t \notin Way
        /\ s \in owned /\ owned' = owned \ {s} /\ allocated' = allocated
    BY <1>7 DEF PushLoad, Idle, Way
  <2>. HIDE DEF r
  <2>2. Way' = Way \cup {t}
    BY <1>0, <2>1, WayOf
  <2>3. Cardinality(owned') = Cardinality(owned) - 1
    BY <1>1, <2>1, FS_RemoveElement
  <2>4. Cardinality(Way') = Cardinality(Way) + 1
    BY <1>1, <2>1, <2>2, FS_AddElement
  <2>. QED  BY <1>0, <1>1, <2>1, <2>3, <2>4 DEF CounterIsRight
<1>8. ASSUME NEW t \in Threads, Allocated(t)
      PROVE  CounterIsRight'
  <2>1. /\ call' = [call EXCEPT ![t] = Idle] /\ Idle.pc = "idle" /\ t \notin Way
        /\ owned' = owned \cup {call[t].head} /\ allocated' = (allocated + 1) % SizeMod
        /\ Held(t) = {call[t].head}
    BY <1>8 DEF Allocated, Idle, Way, Held
  <2>2. Way' = Way
    <3>1. Way' = Way \ {t}
      BY <1>0, <2>1, WayOf
    <3>. HIDE DEF Way
    <3>. QED  BY <2>1, <3>1
  <2>3. call[t].head \notin owned
    BY <2>1 DEF IInv, Sound, Shared
  <2>4. Cardinality(owned') = Cardinality(owned) + 1
    BY <1>1, <2>1, <2>3, FS_AddElement
  <2>5. allocated + 1 \in 0 .. SizeMod - 1 /\ SizeMod \in Nat \ {0}
    BY <1>0, <1>1, <1>2, <2>2, <2>4
  <2>6. allocated' = allocated + 1
    BY <2>1, <2>5, ModOfSmall
  <2>. QED  BY <1>0, <1>1, <2>2, <2>4, <2>6 DEF CounterIsRight
<1>9. ASSUME NEW t \in Threads, Deallocated(t)
      PROVE  CounterIsRight'
  <2>1. /\ call' = [call EXCEPT ![t] = Idle] /\ Idle.pc = "idle" /\ t \in Way
        /\ owned' = owned /\ allocated' = (allocated - 1) % SizeMod
    BY <1>9 DEF Deallocated, Idle, Way
  <2>2. Way' = Way \ {t}
    BY <1>0, <2>1, WayOf
  <2>3. Cardinality(Way') = Cardinality(Way) - 1
    BY <1>1, <2>1, <2>2, FS_RemoveElement
  <2>4. allocated - 1 \in 0 .. SizeMod - 1 /\ SizeMod \in Nat \ {0}
    BY <1>0, <1>1, <1>2, <2>3
  <2>5. allocated' = allocated - 1
    BY <2>1, <2>4, ModOfSmall
  <2>. QED  BY <1>0, <1>1, <2>1, <2>3, <2>5 DEF CounterIsRight
<1>10. CASE UNCHANGED vars
  BY <1>0, <1>10 DEF CounterIsRight, Way, vars
<1>. QED
  BY <1>4, <1>5, <1>6, <1>7, <1>8, <1>9, <1>10, Steps

\* in_use() counts the objects of callers and those on their way back, and with
\* none on its way available() is right, although the counter is kept apart
\* from the list and lowered after the slot may have been handed out again.
THEOREM CounterExplained == SingleAllocator => (Spec => []CounterIsExplained)
<1>. SUFFICES ASSUME SingleAllocator PROVE Spec => []CounterIsExplained
  OBVIOUS
<1>1. Init => CounterIsRight
  <2>1. ASSUME Init PROVE Way = {} /\ owned = {} /\ allocated = 0
    BY <2>1 DEF Init, Way, Idle
  <2>. QED  BY <2>1, FS_EmptySet DEF CounterIsRight
<1>2. IInv /\ IInv' /\ CounterIsRight /\ [Next]_vars => CounterIsRight'
  BY CounterSteps DEF IInv
<1>3. ASSUME IInv, CounterIsRight PROVE CounterIsExplained
  <2>1. /\ Cardinality(owned) \in 0 .. Capacity /\ Cardinality(Way) \in Nat
        /\ allocated = Cardinality(owned) + Cardinality(Way)
        /\ Capacity \in Nat /\ Cardinality(Threads) \in Nat
    BY <1>3, CountsAreSmall, Bounds, PoolAssumption, FS_CardinalityType DEF IInv, CounterIsRight
  <2>2. ASSUME Cardinality(Way) = 0 PROVE Available = Capacity - Cardinality(owned)
    <3>1. Capacity - allocated \in 0 .. SizeMod - 1 /\ SizeMod \in Nat \ {0}
      BY <2>1, <2>2, PoolAssumption
    <3>. QED  BY <2>1, <2>2, <3>1, ModOfSmall DEF Available
  <2>. QED  BY <2>1, <2>2 DEF CounterIsExplained, InUse, Way
<1>. QED
  BY <1>1, <1>2, <1>3, Invariance, PTL DEF Spec

=============================================================================
