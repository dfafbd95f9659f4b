--------------------------- MODULE PriceLevelProofs ---------------------------
(***************************************************************************)
(* The intrusive lists, for any number of orders and levels: the links of  *)
(* each level stay what its queue says, and its total what its orders have *)
(* left.                                                                   *)
(***************************************************************************)
EXTENDS PriceLevel, Arithmetic, SequenceTheorems

-----------------------------------------------------------------------------
(* Sequences.                                                              *)

\* What the library's RemoveAt does to a sequence.
LEMMA RemoveAtIs ==
  ASSUME NEW S, NEW q \in Seq(S), NEW k \in 1 .. Len(q)
  PROVE  /\ RemoveAt(q, k) \in Seq(S)
         /\ Len(RemoveAt(q, k)) = Len(q) - 1
         /\ \A i \in 1 .. Len(q) - 1 :
              RemoveAt(q, k)[i] = IF i < k THEN q[i] ELSE q[i + 1]
<1>. DEFINE a == SubSeq(q, 1, k - 1)
            z == SubSeq(q, k + 1, Len(q))
<1>1. /\ a \in Seq(S) /\ Len(a) = k - 1
      /\ \A i \in 1 .. k - 1 : a[i] = q[i]
  BY SubSeqProperties
<1>2. /\ z \in Seq(S) /\ Len(z) = Len(q) - k
      /\ \A i \in 1 .. Len(q) - k : z[i] = q[i + k]
  BY SubSeqProperties
<1>3. RemoveAt(q, k) = a \o z
  BY DEF RemoveAt
<1>. HIDE DEF a, z
<1>4. /\ a \o z \in Seq(S)
      /\ Len(a \o z) = Len(q) - 1
      /\ \A i \in 1 .. Len(q) - 1 : (a \o z)[i] = IF i <= k - 1 THEN a[i] ELSE z[i - (k - 1)]
  <2>1. Len(a) + Len(z) = Len(q) - 1
    BY <1>1, <1>2
  <2>2. /\ a \o z \in Seq(S)
        /\ Len(a \o z) = Len(a) + Len(z)
        /\ \A i \in 1 .. Len(a) + Len(z) :
             (a \o z)[i] = IF i <= Len(a) THEN a[i] ELSE z[i - Len(a)]
    BY <1>1, <1>2, ConcatProperties
  <2>. QED  BY <2>1, <2>2, <1>1
<1>5. ASSUME NEW i \in 1 .. Len(q) - 1
      PROVE  (a \o z)[i] = IF i < k THEN q[i] ELSE q[i + 1]
  <2>1. CASE i < k
    BY <2>1, <1>1, <1>4
  <2>2. CASE ~(i < k)
    <3>1. i - (k - 1) \in 1 .. Len(q) - k /\ (i - (k - 1)) + k = i + 1
      BY <2>2
    <3>. QED  BY <3>1, <2>2, <1>2, <1>4
  <2>. QED  BY <2>1, <2>2
<1>. QED
  BY <1>3, <1>4, <1>5

-----------------------------------------------------------------------------
(* One list: its links n and p, head h, tail t and the queue q they follow. *)

Once(q) == \A i, j \in DOMAIN q : q[i] = q[j] => i = j

Follows(n, p, h, t, q) ==
  /\ h = At(q, 1) /\ t = At(q, Len(q))
  /\ \A i \in DOMAIN q : n[q[i]] = At(q, i + 1) /\ p[q[i]] = At(q, i - 1)

\* What is at a place of a queue.
LEMMA AtIs ==
  ASSUME NEW q \in Seq(Slot)
  PROVE  /\ \A i \in 1 .. Len(q) : At(q, i) = q[i] /\ q[i] \in Slot /\ At(q, i) # Null
         /\ \A i \in Int : i \notin 1 .. Len(q) => At(q, i) = Null
         /\ Len(q) \in Nat /\ DOMAIN q = 1 .. Len(q)
  BY LevelAssumption DEF At

\* Appending an order that is not in the list.
LEMMA LinkOne ==
  ASSUME NEW q \in Seq(Slot), NEW n \in [Slot -> Link], NEW p \in [Slot -> Link], NEW h, NEW t,
         Follows(n, p, h, t, q), Once(q), NEW s \in Slot, s \notin ToSet(q),
         NEW n2, n2 = [x \in Slot |-> IF x = s THEN Null ELSE IF x = t THEN s ELSE n[x]],
         NEW p2, p2 = [p EXCEPT ![s] = t],
         NEW h2, h2 = IF t = Null THEN s ELSE h
  PROVE  Follows(n2, p2, h2, s, Append(q, s)) /\ Once(Append(q, s))
<1>. DEFINE r == Append(q, s)
<1>1. /\ r \in Seq(Slot) /\ Len(r) = Len(q) + 1 /\ r[Len(q) + 1] = s
      /\ \A i \in 1 .. Len(q) : r[i] = q[i] /\ q[i] # s /\ q[i] \in Slot
      /\ Len(q) \in Nat /\ DOMAIN q = 1 .. Len(q) /\ DOMAIN r = 1 .. Len(q) + 1
  BY AppendProperties DEF ToSet
<1>2. Once(r)
  BY <1>1 DEF Once
<1>. HIDE DEF r
<1>3. /\ t = At(q, Len(q)) /\ h = At(q, 1)
      /\ \A i \in 1 .. Len(q) : n[q[i]] = At(q, i + 1) /\ p[q[i]] = At(q, i - 1)
  BY <1>1 DEF Follows
<1>0. /\ \A i \in Int : i \in 1 .. Len(q) => At(q, i) = q[i] /\ At(r, i) = q[i]
      /\ \A i \in Int : i \notin 1 .. Len(q) => At(q, i) = Null
      /\ \A i \in Int : i \notin 1 .. Len(q) + 1 => At(r, i) = Null
      /\ At(r, Len(q) + 1) = s
  <2>1. /\ \A i \in 1 .. Len(q) + 1 : At(r, i) = r[i]
        /\ \A i \in Int : i \notin 1 .. Len(q) + 1 => At(r, i) = Null
    BY <1>1, AtIs
  <2>2. /\ \A i \in 1 .. Len(q) : At(q, i) = q[i]
        /\ \A i \in Int : i \notin 1 .. Len(q) => At(q, i) = Null
    BY AtIs
  <2>. QED  BY <2>1, <2>2, <1>1
<1>4. h2 = At(r, 1) /\ s = At(r, Len(r))
  <2>1. s = At(r, Len(r))
    BY <1>1, AtIs
  <2>2. CASE Len(q) = 0
    <3>1. t = Null /\ Len(q) + 1 = 1
      <4>1. 0 \in Int /\ 0 \notin 1 .. 0
        OBVIOUS
      <4>. QED  BY <4>1, <2>2, <1>0, <1>3
    <3>2. At(r, 1) = s
      BY <3>1, <1>0
    <3>. QED  BY <2>1, <3>1, <3>2
  <2>3. CASE Len(q) # 0
    <3>1. t # Null /\ 1 \in 1 .. Len(q) /\ 1 \in 1 .. Len(r)
      BY <2>3, <1>1, <1>3, AtIs
    <3>2. At(r, 1) = r[1] /\ At(q, 1) = q[1] /\ r[1] = q[1]
      BY <3>1, <1>1, AtIs
    <3>. QED  BY <2>1, <3>1, <3>2, <1>3
  <2>. QED  BY <2>2, <2>3
<1>5. ASSUME NEW i \in 1 .. Len(q) + 1
      PROVE  n2[r[i]] = At(r, i + 1) /\ p2[r[i]] = At(r, i - 1)
  <2>1. CASE i = Len(q) + 1
    <3>1. r[i] = s /\ At(r, i + 1) = Null
      BY <2>1, <1>1, AtIs
    <3>2. n2[s] = Null /\ p2[s] = t
      OBVIOUS
    <3>3. t = At(r, i - 1)
      <4>1. CASE Len(q) = 0
        <5>1. i - 1 = 0 /\ 0 \notin 1 .. Len(q) /\ 0 \notin 1 .. Len(q) + 1
          BY <4>1, <2>1
        <5>2. At(q, 0) = Null /\ At(r, 0) = Null
          BY <5>1, <1>0
        <5>. QED  BY <5>1, <5>2, <4>1, <1>3
      <4>2. CASE Len(q) # 0
        <5>1. i - 1 \in 1 .. Len(q) /\ i - 1 \in 1 .. Len(r) /\ i - 1 = Len(q)
          BY <4>2, <2>1, <1>1
        <5>2. At(q, i - 1) = q[i - 1] /\ At(r, i - 1) = r[i - 1] /\ r[i - 1] = q[i - 1]
          BY <5>1, <1>1, AtIs
        <5>. QED  BY <5>1, <5>2, <1>3
      <4>. QED  BY <4>1, <4>2
    <3>. QED  BY <3>1, <3>2, <3>3
  <2>2. CASE i = Len(q)
    <3>1. /\ r[i] = q[i] /\ q[i] # s /\ q[i] \in Slot /\ i \in 1 .. Len(q)
          /\ At(q, i) = q[i] /\ At(r, i + 1) = s
      BY <2>2, <1>1, AtIs
    <3>2. n2[q[i]] = s /\ p2[q[i]] = p[q[i]]
      BY <3>1, <2>2, <1>3
    <3>3. At(r, i - 1) = At(q, i - 1)
      <4>1. i - 1 \in Int /\ (i - 1 \in 1 .. Len(q) \/ i - 1 \notin 1 .. Len(q) + 1)
        BY <2>2, <1>1
      <4>. QED  BY <4>1, <1>0
    <3>. QED  BY <3>1, <3>2, <3>3, <1>3
  <2>3. CASE i < Len(q)
    <3>1. /\ r[i] = q[i] /\ q[i] # s /\ q[i] \in Slot /\ i \in 1 .. Len(q)
          /\ Len(q) \in 1 .. Len(q) /\ t = q[Len(q)]
      BY <2>3, <1>1, <1>3, AtIs
    <3>2. q[i] # t
      BY <3>1, <2>3, <1>1 DEF Once
    <3>3. n2[q[i]] = n[q[i]] /\ p2[q[i]] = p[q[i]]
      BY <3>1, <3>2
    <3>4. At(r, i + 1) = At(q, i + 1)
      <4>1. i + 1 \in 1 .. Len(q) /\ i + 1 \in Int
        BY <2>3, <1>1
      <4>. QED  BY <4>1, <1>0
    <3>5. At(r, i - 1) = At(q, i - 1)
      <4>1. i - 1 \in Int /\ (i - 1 \in 1 .. Len(q) \/ i - 1 \notin 1 .. Len(q) + 1)
        BY <2>3, <1>1
      <4>. QED  BY <4>1, <1>0
    <3>. QED  BY <3>1, <3>3, <3>4, <3>5, <1>3
  <2>4. i = Len(q) + 1 \/ i = Len(q) \/ i < Len(q)
    <3>1. Len(q) \in Nat
      BY <1>1
    <3>. QED  BY <3>1
  <2>. QED  BY <2>1, <2>2, <2>3, <2>4
<1>. QED
  BY <1>1, <1>2, <1>4, <1>5 DEF Follows, r

\* The links n when s is taken out, p being the links the other way.
Without(n, p, s) ==
  [x \in Slot |-> IF x = s THEN Null ELSE IF x = p[s] THEN n[s] ELSE n[x]]

\* The end e of the list, likewise.
EndWithout(n, p, s, e) == IF p[s] = Null THEN n[s] ELSE e

\* Taking an order out of the list.
LEMMA UnlinkOne ==
  ASSUME NEW q \in Seq(Slot), NEW n \in [Slot -> Link], NEW p \in [Slot -> Link], NEW h, NEW t,
         Follows(n, p, h, t, q), Once(q), NEW k, k \in 1 .. Len(q), NEW s, s = q[k]
  PROVE  /\ Follows(Without(n, p, s), Without(p, n, s), EndWithout(n, p, s, h),
                    EndWithout(p, n, s, t), RemoveAt(q, k))
         /\ Once(RemoveAt(q, k))
         /\ ToSet(RemoveAt(q, k)) = ToSet(q) \ {s}
<1>0. /\ RemoveAt(q, k) \in Seq(Slot) /\ Len(RemoveAt(q, k)) = Len(q) - 1
      /\ \A i \in 1 .. Len(q) - 1 :
           RemoveAt(q, k)[i] = IF i < k THEN q[i] ELSE q[i + 1]
  BY RemoveAtIs
<1>. DEFINE r == RemoveAt(q, k)
            N == Len(q)
            n2 == Without(n, p, s)
            p2 == Without(p, n, s)
            h2 == EndWithout(n, p, s, h)
            t2 == EndWithout(p, n, s, t)
<1>1. /\ r \in Seq(Slot) /\ Len(r) = N - 1
      /\ \A i \in 1 .. N - 1 : r[i] = IF i < k THEN q[i] ELSE q[i + 1]
      /\ N \in Nat /\ DOMAIN q = 1 .. N /\ DOMAIN r = 1 .. N - 1
  BY <1>0
<1>. HIDE DEF r, N, n2, p2, h2, t2
<1>2. /\ h = At(q, 1) /\ t = At(q, N)
      /\ \A i \in 1 .. N : n[q[i]] = At(q, i + 1) /\ p[q[i]] = At(q, i - 1)
  BY <1>1 DEF Follows, N
<1>3. k \in 1 .. N /\ s \in Slot /\ n[s] = At(q, k + 1) /\ p[s] = At(q, k - 1)
  BY <1>1, <1>2 DEF N
<1>4. /\ \A i \in 1 .. N : At(q, i) = q[i] /\ q[i] \in Slot /\ q[i] # Null
      /\ \A i \in Int : i \notin 1 .. N => At(q, i) = Null
      /\ \A i \in 1 .. N - 1 : At(r, i) = r[i]
      /\ \A i \in Int : i \notin 1 .. N - 1 => At(r, i) = Null
  BY <1>1, AtIs DEF N
<1>5. \A i \in Int : At(r, i) = IF i < k THEN At(q, i) ELSE At(q, i + 1)
  <2>1. ASSUME NEW i \in 1 .. N - 1 PROVE At(r, i) = IF i < k THEN At(q, i) ELSE At(q, i + 1)
    BY <1>1, <1>4
  <2>2. ASSUME NEW i \in Int, i \notin 1 .. N - 1
        PROVE  At(r, i) = IF i < k THEN At(q, i) ELSE At(q, i + 1)
    <3>1. IF i < k THEN i \notin 1 .. N ELSE i + 1 \notin 1 .. N
      BY <2>2, <1>1, <1>3
    <3>. QED  BY <2>2, <3>1, <1>1, <1>4
  <2>. QED  BY <2>1, <2>2
<1>6. \A i, j \in 1 .. N : q[i] = q[j] => i = j
  BY <1>1 DEF Once
<1>7. Once(r)
  <2>1. ASSUME NEW i \in 1 .. N - 1, NEW j \in 1 .. N - 1, r[i] = r[j] PROVE i = j
    <3>1. /\ (IF i < k THEN i ELSE i + 1) \in 1 .. N
          /\ (IF j < k THEN j ELSE j + 1) \in 1 .. N
      BY <1>1
    <3>2. (IF i < k THEN i ELSE i + 1) = (IF j < k THEN j ELSE j + 1)
      BY <2>1, <3>1, <1>1, <1>6
    <3>. QED  BY <3>2, <1>1, <1>3
  <2>. QED  BY <2>1, <1>1 DEF Once
<1>8. ToSet(r) = ToSet(q) \ {s}
  <2>1. ASSUME NEW x \in ToSet(r) PROVE x \in ToSet(q) \ {s}
    <3>1. PICK i \in 1 .. N - 1 : x = r[i]
      BY <1>1 DEF ToSet
    <3>2. PICK j \in 1 .. N : x = q[j] /\ j # k
      BY <3>1, <1>1, <1>3
    <3>. QED  BY <3>2, <1>1, <1>3, <1>6 DEF ToSet
  <2>2. ASSUME NEW x \in ToSet(q) \ {s} PROVE x \in ToSet(r)
    <3>1. PICK j \in 1 .. N : x = q[j]
      BY <1>1 DEF ToSet
    <3>2. j # k
      BY <3>1, <2>2
    <3>3. \E i \in 1 .. N - 1 : x = r[i]
      <4>1. CASE j < k
        BY <4>1, <3>1, <1>1, <1>3
      <4>2. CASE j > k
        <5>1. j - 1 \in 1 .. N - 1 /\ ~(j - 1 < k) /\ (j - 1) + 1 = j
          BY <4>2, <1>1, <1>3
        <5>. QED  BY <5>1, <3>1, <1>1
      <4>. QED  BY <3>2, <4>1, <4>2, <1>3
    <3>. QED  BY <3>3, <1>1 DEF ToSet
  <2>. QED  BY <2>1, <2>2
<1>9. h2 = At(r, 1)
  <2>1. CASE k = 1
    <3>1. At(r, 1) = At(q, 2)
      BY <2>1, <1>5
    <3>2. p[s] = Null
      BY <2>1, <1>3, <1>4
    <3>. QED  BY <3>1, <3>2, <2>1, <1>3 DEF h2, EndWithout
  <2>2. CASE k # 1
    <3>1. At(r, 1) = At(q, 1)
      BY <2>2, <1>3, <1>5
    <3>2. p[s] # Null
      <4>1. k - 1 \in 1 .. N
        BY <2>2, <1>1, <1>3
      <4>. QED  BY <4>1, <1>3, <1>4
    <3>. QED  BY <3>1, <3>2, <1>2 DEF h2, EndWithout
  <2>. QED  BY <2>1, <2>2
<1>10. t2 = At(r, N - 1)
  <2>1. CASE k = N
    <3>1. At(r, N - 1) = At(q, k - 1)
      BY <2>1, <1>1, <1>5
    <3>2. n[s] = Null
      BY <2>1, <1>1, <1>3, <1>4
    <3>. QED  BY <3>1, <3>2, <1>3 DEF t2, EndWithout
  <2>2. CASE k # N
    <3>1. At(r, N - 1) = At(q, N)
      BY <2>2, <1>1, <1>3, <1>5
    <3>2. n[s] # Null
      <4>1. k + 1 \in 1 .. N
        BY <2>2, <1>1, <1>3
      <4>. QED  BY <4>1, <1>3, <1>4
    <3>. QED  BY <3>1, <3>2, <1>2 DEF t2, EndWithout
  <2>. QED  BY <2>1, <2>2
<1>11. ASSUME NEW j \in 1 .. N, j # k
       PROVE  /\ q[j] \in Slot /\ q[j] # s
              /\ q[j] = p[s] <=> j = k - 1
              /\ q[j] = n[s] <=> j = k + 1
  <2>1. q[j] \in Slot /\ q[j] # s /\ q[j] # Null
    BY <1>11, <1>3, <1>4, <1>6
  <2>2. q[j] = p[s] <=> j = k - 1
    <3>1. CASE k - 1 \in 1 .. N
      BY <3>1, <1>3, <1>4, <1>6
    <3>2. CASE k - 1 \notin 1 .. N
      BY <3>2, <2>1, <1>3, <1>4
    <3>. QED  BY <3>1, <3>2
  <2>3. q[j] = n[s] <=> j = k + 1
    <3>1. CASE k + 1 \in 1 .. N
      BY <3>1, <1>3, <1>4, <1>6
    <3>2. CASE k + 1 \notin 1 .. N
      BY <3>2, <2>1, <1>3, <1>4
    <3>. QED  BY <3>1, <3>2
  <2>. QED  BY <2>1, <2>2, <2>3
<1>12. ASSUME NEW j \in 1 .. N, j # k
       PROVE  /\ n2[q[j]] = IF j = k - 1 THEN At(q, k + 1) ELSE At(q, j + 1)
              /\ p2[q[j]] = IF j = k + 1 THEN At(q, k - 1) ELSE At(q, j - 1)
  <2>1. /\ n2[q[j]] = IF j = k - 1 THEN n[s] ELSE n[q[j]]
        /\ p2[q[j]] = IF j = k + 1 THEN p[s] ELSE p[q[j]]
    BY <1>11, <1>12 DEF n2, p2, Without
  <2>. QED  BY <2>1, <1>2, <1>3
<1>13. ASSUME NEW i \in 1 .. N - 1
       PROVE  n2[r[i]] = At(r, i + 1) /\ p2[r[i]] = At(r, i - 1)
  <2>1. CASE i < k
    <3>1. i \in 1 .. N /\ i # k /\ r[i] = q[i] /\ i \in Int /\ k \in Int
      BY <2>1, <1>1, <1>3
    <3>2. At(r, i + 1) = IF i = k - 1 THEN At(q, k + 1) ELSE At(q, i + 1)
      <4>1. At(r, i + 1) = IF i + 1 < k THEN At(q, i + 1) ELSE At(q, (i + 1) + 1)
        <5>1. i + 1 \in Int
          BY <3>1
        <5>. QED  BY <5>1, <1>5
      <4>. QED  BY <4>1, <3>1, <2>1
    <3>3. At(r, i - 1) = At(q, i - 1) /\ i # k + 1
      BY <3>1, <2>1, <1>5
    <3>. QED  BY <3>1, <3>2, <3>3, <1>12
  <2>2. CASE ~(i < k)
    <3>1. i + 1 \in 1 .. N /\ i + 1 # k /\ r[i] = q[i + 1] /\ i \in Int /\ k \in Int
          /\ i + 1 # k - 1
      BY <2>2, <1>1, <1>3
    <3>2. At(r, i + 1) = At(q, (i + 1) + 1)
      BY <3>1, <2>2, <1>5
    <3>3. At(r, i - 1) = IF i + 1 = k + 1 THEN At(q, k - 1) ELSE At(q, (i + 1) - 1)
      <4>1. At(r, i - 1) = IF i - 1 < k THEN At(q, i - 1) ELSE At(q, (i - 1) + 1)
        <5>1. i - 1 \in Int
          BY <3>1
        <5>. QED  BY <5>1, <1>5
      <4>2. CASE i = k
        BY <4>1, <4>2, <3>1
      <4>3. CASE i # k
        <5>1. ~(i - 1 < k) /\ (i - 1) + 1 = (i + 1) - 1 /\ i + 1 # k + 1
          BY <4>3, <3>1, <2>2
        <5>. QED  BY <5>1, <4>1
      <4>. QED  BY <4>2, <4>3
    <3>. QED  BY <3>1, <3>2, <3>3, <1>12
  <2>. QED  BY <2>1, <2>2
<1>. QED
  BY <1>1, <1>7, <1>8, <1>9, <1>10, <1>13 DEF Follows, r, n2, p2, h2, t2

-----------------------------------------------------------------------------
(* All the lists.                                                          *)

\* The invariant.  That a link leads into no other list is what keeps a change
\* of one from breaking the others.
IInv == TypeOK /\ LinksFollowQueue /\ LevelsAreApart

\* What the invariant says of each list.
LEMMA EachList ==
  ASSUME TypeOK
  PROVE  /\ LinksFollowQueue <=>
              \A l \in Level : Follows(next, prev, head[l], tail[l], queue[l])
                               /\ order_count[l] = Len(queue[l])
         /\ LevelsAreApart =>
              /\ \A l \in Level : Once(queue[l])
              /\ \A l, k \in Level : l # k => ToSet(queue[l]) \cap ToSet(queue[k]) = {}
<1>1. LinksFollowQueue <=>
        \A l \in Level : Follows(next, prev, head[l], tail[l], queue[l])
                         /\ order_count[l] = Len(queue[l])
  BY DEF LinksFollowQueue, Follows
<1>2. LevelsAreApart => \A l \in Level : Once(queue[l])
  BY DEF LevelsAreApart, Once
<1>3. LevelsAreApart =>
        \A l, k \in Level : l # k => ToSet(queue[l]) \cap ToSet(queue[k]) = {}
  BY DEF LevelsAreApart, ToSet
<1>. QED
  BY <1>1, <1>2, <1>3

\* The converse, for the lists after a step.
LEMMA ListsAreApart ==
  ASSUME \A l \in Level : Once(queue'[l]),
         \A l, k \in Level : l # k => ToSet(queue'[l]) \cap ToSet(queue'[k]) = {},
         \A s \in Slot : (\A l \in Level : s \notin ToSet(queue'[l]))
                           => prev'[s] = Null /\ next'[s] = Null
  PROVE  LevelsAreApart'
<1>1. ASSUME NEW l \in Level, NEW k \in Level, NEW i \in DOMAIN queue'[l],
             NEW j \in DOMAIN queue'[k], queue'[l][i] = queue'[k][j]
      PROVE  l = k /\ i = j
  <2>1. l = k
    BY <1>1 DEF ToSet
  <2>. QED  BY <2>1, <1>1 DEF Once
<1>. QED
  BY <1>1 DEF LevelsAreApart, In

\* A list that no changed order is in still follows its queue.
LEMMA OtherList ==
  ASSUME NEW q \in Seq(Slot), NEW n, NEW p, NEW h, NEW t, Follows(n, p, h, t, q), NEW n2, NEW p2,
         \A x \in ToSet(q) : n2[x] = n[x] /\ p2[x] = p[x]
  PROVE  Follows(n2, p2, h, t, q)
BY DEF Follows, ToSet

\* The ends of a list are in it, and so are the neighbours of what is in it.
LEMMA Neighbours ==
  ASSUME NEW q \in Seq(Slot), NEW n, NEW p, NEW h, NEW t, Follows(n, p, h, t, q)
  PROVE  /\ t \in ToSet(q) \cup {Null} /\ h \in ToSet(q) \cup {Null}
         /\ \A x \in ToSet(q) : /\ n[x] \in ToSet(q) \cup {Null}
                              /\ p[x] \in ToSet(q) \cup {Null}
<1>1. \A i : At(q, i) \in ToSet(q) \cup {Null}
  BY DEF At, ToSet
<1>. QED
  BY <1>1 DEF Follows, ToSet

\* push_back keeps the lists in order.
LEMMA LinkBackKeeps ==
  ASSUME IInv, NEW l \in Level, NEW s \in Slot, \A k \in Level : ~In(s, k), LinkBack(l, s)
  PROVE  /\ \A k \in Level : Follows(next', prev', head'[k], tail'[k], queue'[k])
                             /\ order_count'[k] = Len(queue'[k])
         /\ LevelsAreApart'
         /\ next' \in [Slot -> Link] /\ prev' \in [Slot -> Link]
         /\ head' \in [Level -> Link] /\ tail' \in [Level -> Link]
         /\ order_count' \in [Level -> Nat] /\ queue' \in [Level -> Seq(Slot)]
<1>1. /\ next \in [Slot -> Link] /\ prev \in [Slot -> Link] /\ queue \in [Level -> Seq(Slot)]
      /\ head \in [Level -> Link] /\ tail \in [Level -> Link]
      /\ order_count \in [Level -> Nat]
  BY DEF IInv, TypeOK
<1>2. /\ \A k \in Level : Follows(next, prev, head[k], tail[k], queue[k])
                          /\ order_count[k] = Len(queue[k]) /\ Once(queue[k])
                          /\ s \notin ToSet(queue[k])
      /\ \A j, k \in Level : j # k => ToSet(queue[j]) \cap ToSet(queue[k]) = {}
  BY EachList DEF IInv, In
<1>3. /\ prev' = [prev EXCEPT ![s] = tail[l]]
      /\ next' = [x \in Slot |-> IF x = s THEN Null ELSE IF x = tail[l] THEN s ELSE next[x]]
      /\ head' = IF tail[l] = Null THEN [head EXCEPT ![l] = s] ELSE head
      /\ tail' = [tail EXCEPT ![l] = s]
      /\ order_count' = [order_count EXCEPT ![l] = @ + 1]
      /\ queue' = [queue EXCEPT ![l] = Append(@, s)]
  BY DEF LinkBack
<1>4. /\ queue[l] \in Seq(Slot) /\ queue'[l] = Append(queue[l], s)
      /\ queue'[l] \in Seq(Slot) /\ Len(queue'[l]) = Len(queue[l]) + 1
      /\ ToSet(queue'[l]) = ToSet(queue[l]) \cup {s}
  <2>1. queue[l] \in Seq(Slot) /\ queue'[l] = Append(queue[l], s)
    BY <1>1, <1>3
  <2>2. ASSUME NEW q \in Seq(Slot)
        PROVE  /\ Append(q, s) \in Seq(Slot) /\ Len(Append(q, s)) = Len(q) + 1
               /\ ToSet(Append(q, s)) = ToSet(q) \cup {s}
    BY AppendProperties DEF ToSet
  <2>. QED  BY <2>1, <2>2
<1>5. \A k \in Level : k # l => /\ queue'[k] = queue[k] /\ head'[k] = head[k]
                              /\ tail'[k] = tail[k] /\ order_count'[k] = order_count[k]
  BY <1>1, <1>3
<1>6. /\ next' \in [Slot -> Link] /\ prev' \in [Slot -> Link]
      /\ head' \in [Level -> Link] /\ tail' \in [Level -> Link]
      /\ order_count' \in [Level -> Nat] /\ queue' \in [Level -> Seq(Slot)]
  BY <1>1, <1>3, <1>4 DEF Link
<1>7. /\ Follows(next', prev', head'[l], tail'[l], queue'[l]) /\ Once(queue'[l])
      /\ order_count'[l] = Len(queue'[l])
  <2>1. head'[l] = (IF tail[l] = Null THEN s ELSE head[l]) /\ tail'[l] = s
    BY <1>1, <1>3
  <2>2. Follows(next', prev', head'[l], s, Append(queue[l], s)) /\ Once(Append(queue[l], s))
    <3>1. /\ queue[l] \in Seq(Slot) /\ next \in [Slot -> Link] /\ prev \in [Slot -> Link]
          /\ Follows(next, prev, head[l], tail[l], queue[l])
          /\ Once(queue[l]) /\ s \notin ToSet(queue[l])
          /\ next' = [x \in Slot |-> IF x = s THEN Null ELSE IF x = tail[l] THEN s ELSE next[x]]
          /\ prev' = [prev EXCEPT ![s] = tail[l]]
          /\ head'[l] = IF tail[l] = Null THEN s ELSE head[l]
      BY <1>1, <1>2, <1>3, <1>4, <2>1
    <3>. QED  BY <3>1, LinkOne
  <2>3. order_count'[l] = order_count[l] + 1
    BY <1>1, <1>3
  <2>. QED  BY <2>1, <2>2, <2>3, <1>2, <1>4
<1>8. ASSUME NEW k \in Level, k # l
      PROVE  Follows(next', prev', head'[k], tail'[k], queue'[k])
  <2>1. ASSUME NEW x \in ToSet(queue[k]) PROVE next'[x] = next[x] /\ prev'[x] = prev[x]
    <3>1. tail[l] \in ToSet(queue[l]) \cup {Null}
      BY <1>2, <1>4, Neighbours
    <3>2. x \in Slot /\ x # s
      <4>1. queue[k] \in Seq(Slot)
        BY <1>1
      <4>. QED  BY <4>1, <1>2 DEF ToSet
    <3>3. x # tail[l]
      BY <3>1, <3>2, <1>2, <1>8, LevelAssumption
    <3>. QED  BY <3>2, <3>3, <1>1, <1>3
  <2>2. queue[k] \in Seq(Slot) /\ Follows(next, prev, head[k], tail[k], queue[k])
    BY <1>1, <1>2
  <2>3. Follows(next', prev', head[k], tail[k], queue[k])
    BY <2>1, <2>2, OtherList
  <2>. QED  BY <2>3, <1>5, <1>8
<1>9. LevelsAreApart'
  <2>1. \A k \in Level : Once(queue'[k])
    BY <1>2, <1>5, <1>7
  <2>2. ASSUME NEW j \in Level, NEW k \in Level, j # k
        PROVE  ToSet(queue'[j]) \cap ToSet(queue'[k]) = {}
    <3>1. /\ ToSet(queue[j]) \cap ToSet(queue[k]) = {}
          /\ s \notin ToSet(queue[j]) /\ s \notin ToSet(queue[k])
      BY <1>2, <2>2
    <3>2. \A h \in Level : ToSet(queue'[h]) = IF h = l THEN ToSet(queue[h]) \cup {s}
                                                       ELSE ToSet(queue[h])
      BY <1>4, <1>5
    <3>3. /\ ToSet(queue'[j]) \subseteq ToSet(queue[j]) \cup {s}
          /\ ToSet(queue'[k]) \subseteq ToSet(queue[k]) \cup {s}
          /\ s \notin ToSet(queue'[j]) \/ s \notin ToSet(queue'[k])
      BY <3>1, <3>2, <2>2
    <3>. QED  BY <3>1, <3>3
  <2>3. ASSUME NEW x \in Slot, \A k \in Level : x \notin ToSet(queue'[k])
        PROVE  prev'[x] = Null /\ next'[x] = Null
    <3>1. x # s /\ \A k \in Level : x \notin ToSet(queue[k])
      BY <2>3, <1>4, <1>5
    <3>2. prev[x] = Null /\ next[x] = Null
      BY <3>1 DEF IInv, LevelsAreApart, In
    <3>3. x # tail[l]
      <4>1. tail[l] \in ToSet(queue[l]) \cup {Null}
        BY <1>2, <1>4, Neighbours
      <4>. QED  BY <4>1, <3>1, LevelAssumption
    <3>. QED  BY <3>1, <3>2, <3>3, <1>1, <1>3
  <2>. QED  BY <2>1, <2>2, <2>3, ListsAreApart
<1>. QED
  BY <1>2, <1>5, <1>6, <1>7, <1>8, <1>9

\* remove keeps the lists in order.
LEMMA UnlinkKeeps ==
  ASSUME IInv, NEW l \in Level, NEW s \in Slot, In(s, l), Unlink(l, s)
  PROVE  /\ \A k \in Level : Follows(next', prev', head'[k], tail'[k], queue'[k])
                             /\ order_count'[k] = Len(queue'[k])
         /\ LevelsAreApart'
         /\ next' \in [Slot -> Link] /\ prev' \in [Slot -> Link]
         /\ head' \in [Level -> Link] /\ tail' \in [Level -> Link]
         /\ order_count' \in [Level -> Nat] /\ queue' \in [Level -> Seq(Slot)]
<1>. DEFINE q == queue[l]
            i == Position(l, s)
<1>1. /\ next \in [Slot -> Link] /\ prev \in [Slot -> Link] /\ queue \in [Level -> Seq(Slot)]
      /\ head \in [Level -> Link] /\ tail \in [Level -> Link]
      /\ order_count \in [Level -> Nat]
  BY DEF IInv, TypeOK
<1>2. /\ \A k \in Level : Follows(next, prev, head[k], tail[k], queue[k])
                          /\ order_count[k] = Len(queue[k]) /\ Once(queue[k])
      /\ \A j, k \in Level : j # k => ToSet(queue[j]) \cap ToSet(queue[k]) = {}
  BY EachList DEF IInv
<1>3. /\ next' = [x \in Slot |-> IF x = s THEN Null ELSE IF x = prev[s] THEN next[s] ELSE next[x]]
      /\ prev' = [x \in Slot |-> IF x = s THEN Null ELSE IF x = next[s] THEN prev[s] ELSE prev[x]]
      /\ head' = IF prev[s] = Null THEN [head EXCEPT ![l] = next[s]] ELSE head
      /\ tail' = IF next[s] = Null THEN [tail EXCEPT ![l] = prev[s]] ELSE tail
      /\ order_count' = [order_count EXCEPT ![l] = @ - 1]
      /\ queue' = [queue EXCEPT ![l] = RemoveAt(@, i)]
  BY DEF Unlink
<1>4. q \in Seq(Slot) /\ i \in 1 .. Len(q) /\ s = q[i] /\ Len(q) \in Nat
  <2>1. q \in Seq(Slot) /\ s \in ToSet(q)
    BY <1>1 DEF In
  <2>2. \E j \in DOMAIN q : q[j] = s
    BY <2>1 DEF ToSet
  <2>3. i \in DOMAIN q /\ q[i] = s
    BY <2>2 DEF Position
  <2>. HIDE DEF q, i
  <2>. QED  BY <2>1, <2>3
<1>5. /\ queue'[l] = RemoveAt(q, i)
      /\ \A k \in Level : k # l => /\ queue'[k] = queue[k] /\ head'[k] = head[k]
                                   /\ tail'[k] = tail[k] /\ order_count'[k] = order_count[k]
  BY <1>1, <1>3
<1>6. /\ head'[l] = (IF prev[s] = Null THEN next[s] ELSE head[l])
      /\ tail'[l] = (IF next[s] = Null THEN prev[s] ELSE tail[l])
      /\ order_count'[l] = Len(q) - 1
  BY <1>1, <1>2, <1>3
<1>7. Follows(next, prev, head[l], tail[l], q) /\ Once(q)
  BY <1>2
<1>. HIDE DEF i, q
<1>8. RemoveAt(q, i) \in Seq(Slot) /\ Len(RemoveAt(q, i)) = Len(q) - 1
  BY <1>4, RemoveAtIs
<1>9. /\ Follows(next', prev', head'[l], tail'[l], RemoveAt(q, i)) /\ Once(RemoveAt(q, i))
      /\ ToSet(RemoveAt(q, i)) = ToSet(q) \ {s}
  <2>1. /\ next' = Without(next, prev, s) /\ prev' = Without(prev, next, s)
        /\ next \in [Slot -> Link] /\ prev \in [Slot -> Link]
        /\ q \in Seq(Slot) /\ i \in 1 .. Len(q) /\ s = q[i]
        /\ Follows(next, prev, head[l], tail[l], q) /\ Once(q)
        /\ head'[l] = EndWithout(next, prev, s, head[l])
        /\ tail'[l] = EndWithout(prev, next, s, tail[l])
    BY <1>1, <1>3, <1>4, <1>6, <1>7 DEF Without, EndWithout
  <2>2. /\ Follows(Without(next, prev, s), Without(prev, next, s),
                   EndWithout(next, prev, s, head[l]), EndWithout(prev, next, s, tail[l]),
                   RemoveAt(q, i))
        /\ Once(RemoveAt(q, i)) /\ ToSet(RemoveAt(q, i)) = ToSet(q) \ {s}
    <3>1. /\ next \in [Slot -> Link] /\ prev \in [Slot -> Link] /\ q \in Seq(Slot)
          /\ i \in 1 .. Len(q) /\ s = q[i]
          /\ Follows(next, prev, head[l], tail[l], q) /\ Once(q)
      BY <2>1
    <3>. QED  BY <3>1, UnlinkOne
  <2>. QED  BY <2>1, <2>2
<1>10. /\ next' \in [Slot -> Link] /\ prev' \in [Slot -> Link]
       /\ head' \in [Level -> Link] /\ tail' \in [Level -> Link]
       /\ order_count' \in [Level -> Nat] /\ queue' \in [Level -> Seq(Slot)]
  <2>1. /\ next' \in [Slot -> Link] /\ prev' \in [Slot -> Link]
        /\ head' \in [Level -> Link] /\ tail' \in [Level -> Link]
    BY <1>1, <1>3 DEF Link
  <2>2. order_count' \in [Level -> Nat]
    BY <1>1, <1>3, <1>4, <1>6
  <2>3. queue' \in [Level -> Seq(Slot)]
    BY <1>1, <1>3, <1>5, <1>8
  <2>. QED  BY <2>1, <2>2, <2>3
<1>11. prev[s] \in ToSet(q) \cup {Null} /\ next[s] \in ToSet(q) \cup {Null} /\ s \in ToSet(q)
  <2>1. s \in ToSet(q)
    BY <1>4 DEF ToSet
  <2>. QED  BY <2>1, <1>4, <1>7, Neighbours
<1>12. ASSUME NEW k \in Level, k # l
       PROVE  Follows(next', prev', head'[k], tail'[k], queue'[k])
  <2>1. ASSUME NEW x \in ToSet(queue[k]) PROVE next'[x] = next[x] /\ prev'[x] = prev[x]
    <3>1. x \in Slot
      <4>1. queue[k] \in Seq(Slot)
        BY <1>1
      <4>. QED  BY <4>1 DEF ToSet
    <3>2. x # s /\ x # prev[s] /\ x # next[s]
      BY <3>1, <1>2, <1>11, <1>12, LevelAssumption DEF q
    <3>. QED  BY <3>1, <3>2, <1>3
  <2>2. queue[k] \in Seq(Slot) /\ Follows(next, prev, head[k], tail[k], queue[k])
    BY <1>1, <1>2
  <2>3. Follows(next', prev', head[k], tail[k], queue[k])
    BY <2>1, <2>2, OtherList
  <2>. QED  BY <2>3, <1>5, <1>12
<1>13. LevelsAreApart'
  <2>1. \A k \in Level : Once(queue'[k])
    BY <1>2, <1>5, <1>9
  <2>2. \A j, k \in Level : j # k => ToSet(queue'[j]) \cap ToSet(queue'[k]) = {}
    BY <1>2, <1>5, <1>9 DEF q
  <2>3. ASSUME NEW x \in Slot, \A k \in Level : x \notin ToSet(queue'[k])
        PROVE  prev'[x] = Null /\ next'[x] = Null
    <3>1. CASE x = s
      BY <3>1, <1>3
    <3>2. CASE x # s
      <4>1. \A k \in Level : x \notin ToSet(queue[k])
        BY <3>2, <2>3, <1>5, <1>9 DEF q
      <4>2. prev[x] = Null /\ next[x] = Null
        BY <4>1 DEF IInv, LevelsAreApart, In
      <4>3. x # prev[s] /\ x # next[s]
        BY <4>1, <1>11, LevelAssumption DEF q
      <4>. QED  BY <3>2, <4>2, <4>3, <1>3
    <3>. QED  BY <3>1, <3>2
  <2>. QED  BY <2>1, <2>2, <2>3, ListsAreApart
<1>. QED
  BY <1>5, <1>6, <1>8, <1>9, <1>10, <1>12, <1>13, <1>2

\* A quantity computed modulo QtyMod is a Quantity.
LEMMA ModIsQuantity == ASSUME NEW a \in Int PROVE a % QtyMod \in Quantity
  BY LevelAssumption DEF Quantity

LEMMA RestIInv ==
  ASSUME IInv, NEW l \in Level, NEW s \in Slot, NEW qty \in Quantity, NEW filled \in Quantity,
         Rest(l, s, qty, filled)
  PROVE  IInv'
<1>1. LinkBack(l, s) /\ \A k \in Level : ~In(s, k)
  BY DEF Rest
<1>2. /\ quantity' \in [Slot -> Quantity] /\ filled_qty' \in [Slot -> Quantity]
      /\ total_qty' \in [Level -> Quantity]
  <2>1. /\ quantity' = [quantity EXCEPT ![s] = qty] /\ filled_qty' = [filled_qty EXCEPT ![s] = filled]
        /\ total_qty' = [total_qty EXCEPT ![l] =
                           (((total_qty[l] + qty) % QtyMod) - filled) % QtyMod]
        /\ total_qty \in [Level -> Quantity]
        /\ quantity \in [Slot -> Quantity] /\ filled_qty \in [Slot -> Quantity]
    BY DEF Rest, IInv, TypeOK
  <2>2. total_qty[l] \in Int /\ qty \in Int /\ filled \in Int
    BY <2>1, LevelAssumption DEF Quantity
  <2>3. (total_qty[l] + qty) % QtyMod \in Int
    BY <2>2, ModIsQuantity DEF Quantity
  <2>. DEFINE t == (((total_qty[l] + qty) % QtyMod) - filled) % QtyMod
  <2>4. t \in Quantity
    BY <2>2, <2>3, ModIsQuantity
  <2>. QED  BY <2>1, <2>4
<1>3. /\ \A k \in Level : Follows(next', prev', head'[k], tail'[k], queue'[k])
                          /\ order_count'[k] = Len(queue'[k])
      /\ LevelsAreApart'
      /\ next' \in [Slot -> Link] /\ prev' \in [Slot -> Link]
      /\ head' \in [Level -> Link] /\ tail' \in [Level -> Link]
      /\ order_count' \in [Level -> Nat] /\ queue' \in [Level -> Seq(Slot)]
  BY <1>1, LinkBackKeeps
<1>. QED
  BY <1>2, <1>3 DEF IInv, TypeOK, LinksFollowQueue, Follows

LEMMA RemoveOrderIInv ==
  ASSUME IInv, NEW l \in Level, NEW s \in Slot, RemoveOrder(l, s)
  PROVE  IInv'
<1>1. Unlink(l, s) /\ In(s, l)
  BY DEF RemoveOrder
<1>2. /\ quantity' \in [Slot -> Quantity] /\ filled_qty' \in [Slot -> Quantity]
      /\ total_qty' \in [Level -> Quantity]
  <2>1. /\ quantity' = quantity /\ filled_qty' = filled_qty
        /\ total_qty' = [total_qty EXCEPT ![l] = (total_qty[l] - Remaining(s)) % QtyMod]
        /\ total_qty \in [Level -> Quantity]
        /\ quantity \in [Slot -> Quantity] /\ filled_qty \in [Slot -> Quantity]
    BY DEF RemoveOrder, IInv, TypeOK
  <2>2. total_qty[l] - Remaining(s) \in Int
    BY <2>1, LevelAssumption DEF Quantity, Remaining
  <2>. DEFINE t == (total_qty[l] - Remaining(s)) % QtyMod
  <2>3. t \in Quantity
    BY <2>2, ModIsQuantity
  <2>. QED  BY <2>1, <2>3
<1>3. /\ \A k \in Level : Follows(next', prev', head'[k], tail'[k], queue'[k])
                          /\ order_count'[k] = Len(queue'[k])
      /\ LevelsAreApart'
      /\ next' \in [Slot -> Link] /\ prev' \in [Slot -> Link]
      /\ head' \in [Level -> Link] /\ tail' \in [Level -> Link]
      /\ order_count' \in [Level -> Nat] /\ queue' \in [Level -> Seq(Slot)]
  BY <1>1, UnlinkKeeps
<1>. QED
  BY <1>2, <1>3 DEF IInv, TypeOK, LinksFollowQueue, Follows

\* The quantities alone change.
LEMMA LinksKept ==
  ASSUME IInv, UNCHANGED links,
         quantity' \in [Slot -> Quantity], filled_qty' \in [Slot -> Quantity],
         total_qty' \in [Level -> Quantity]
  PROVE  IInv'
<1>1. /\ prev' = prev /\ next' = next /\ head' = head /\ tail' = tail
      /\ order_count' = order_count /\ queue' = queue
  BY DEF links
<1>2. TypeOK'
  BY <1>1 DEF IInv, TypeOK
<1>3. LinksFollowQueue'
  BY <1>1 DEF IInv, LinksFollowQueue
<1>4. LevelsAreApart'
  BY <1>1 DEF IInv, LevelsAreApart, In
<1>. QED
  BY <1>2, <1>3, <1>4 DEF IInv

LEMMA FillIInv ==
  ASSUME IInv, NEW l \in Level, NEW s \in Slot, NEW qty \in Quantity, Fill(l, s, qty)
  PROVE  IInv'
<1>1. /\ s = head[l] /\ s # Null /\ qty \in 1 .. Remaining(s)
      /\ filled_qty' = [filled_qty EXCEPT ![s] = filled_qty[s] + qty]
      /\ total_qty' = [total_qty EXCEPT ![l] = (total_qty[l] - qty) % QtyMod]
      /\ Unlink(l, s) \/ UNCHANGED links
      /\ quantity' = quantity
      /\ total_qty \in [Level -> Quantity]
      /\ quantity \in [Slot -> Quantity] /\ filled_qty \in [Slot -> Quantity]
  BY DEF Fill, IInv, TypeOK
<1>2. /\ quantity' \in [Slot -> Quantity] /\ filled_qty' \in [Slot -> Quantity]
      /\ total_qty' \in [Level -> Quantity]
  <2>1. filled_qty[s] + qty \in Quantity /\ total_qty[l] - qty \in Int
    BY <1>1, LevelAssumption DEF Quantity, Remaining
  <2>. DEFINE t == (total_qty[l] - qty) % QtyMod
  <2>2. t \in Quantity
    BY <2>1, ModIsQuantity
  <2>. QED  BY <1>1, <2>1, <2>2
<1>3. CASE Unlink(l, s)
  <2>1. In(s, l)
    <3>1. queue[l] \in Seq(Slot) /\ Follows(next, prev, head[l], tail[l], queue[l])
      BY EachList DEF IInv, TypeOK
    <3>2. head[l] \in ToSet(queue[l]) \cup {Null}
      BY <3>1, Neighbours
    <3>. QED  BY <3>2, <1>1 DEF In
  <2>2. /\ \A k \in Level : Follows(next', prev', head'[k], tail'[k], queue'[k])
                            /\ order_count'[k] = Len(queue'[k])
        /\ LevelsAreApart'
        /\ next' \in [Slot -> Link] /\ prev' \in [Slot -> Link]
        /\ head' \in [Level -> Link] /\ tail' \in [Level -> Link]
        /\ order_count' \in [Level -> Nat] /\ queue' \in [Level -> Seq(Slot)]
    BY <1>3, <2>1, UnlinkKeeps
  <2>. QED  BY <1>2, <2>2 DEF IInv, TypeOK, LinksFollowQueue, Follows
<1>4. CASE UNCHANGED links
  BY <1>2, <1>4, LinksKept
<1>. QED
  BY <1>1, <1>3, <1>4

LEMMA ReduceIInv ==
  ASSUME IInv, NEW l \in Level, NEW s \in Slot, NEW qty \in Quantity, Reduce(l, s, qty)
  PROVE  IInv'
<1>1. /\ UNCHANGED links /\ filled_qty' = filled_qty
      /\ quantity' = [quantity EXCEPT ![s] = qty]
      /\ total_qty' = [total_qty EXCEPT ![l] = (total_qty[l] - (quantity[s] - qty)) % QtyMod]
      /\ total_qty \in [Level -> Quantity]
      /\ quantity \in [Slot -> Quantity] /\ filled_qty \in [Slot -> Quantity]
  BY DEF Reduce, IInv, TypeOK
<1>2. total_qty[l] - (quantity[s] - qty) \in Int
  BY <1>1, LevelAssumption DEF Quantity
<1>. DEFINE t == (total_qty[l] - (quantity[s] - qty)) % QtyMod
<1>3. t \in Quantity
  BY <1>2, ModIsQuantity
<1>4. /\ quantity' \in [Slot -> Quantity] /\ filled_qty' \in [Slot -> Quantity]
      /\ total_qty' \in [Level -> Quantity]
  BY <1>1, <1>3
<1>. QED
  BY <1>1, <1>4, LinksKept

LEMMA InitIInv == Init => IInv
<1>. SUFFICES ASSUME Init PROVE IInv
  OBVIOUS
<1>1. 0 \in Quantity /\ <<>> \in Seq(Slot) /\ Null \in Link
  BY LevelAssumption DEF Quantity, Link
<1>2. TypeOK
  BY <1>1 DEF Init, TypeOK
<1>3. LinksFollowQueue /\ LevelsAreApart
  BY DEF Init, LinksFollowQueue, LevelsAreApart, At
<1>. QED
  BY <1>2, <1>3 DEF IInv

-----------------------------------------------------------------------------
\* The invariant is inductive: whatever orders rest, leave and fill, in as many
\* levels as there are.
THEOREM Invariance == Spec => []IInv
<1>1. IInv /\ [Next]_vars => IInv'
  <2>. SUFFICES ASSUME IInv, [Next]_vars PROVE IInv'
    OBVIOUS
  <2>1. CASE UNCHANGED vars
    <3>1. UNCHANGED links /\ UNCHANGED <<quantity, filled_qty, total_qty>>
      BY <2>1 DEF vars
    <3>. QED  BY <3>1, LinksKept DEF IInv, TypeOK
  <2>2. CASE Next
    <3>1. PICK l \in Level, s \in Slot :
            \/ RemoveOrder(l, s)
            \/ \E qty \in Quantity :
                 \/ Fill(l, s, qty) \/ Reduce(l, s, qty)
                 \/ \E filled \in Quantity : Rest(l, s, qty, filled)
      BY <2>2 DEF Next
    <3>. QED  BY <3>1, RemoveOrderIInv, FillIInv, ReduceIInv, RestIInv
  <2>. QED  BY <2>1, <2>2
<1>. QED
  BY <1>1, InitIInv, PTL DEF Spec

\* push_back and remove, which change up to four orders and the level, keep
\* every list whole in both directions, and touch no other level: no order is
\* linked in two places, and one that left has no links.
THEOREM ListsAreSound == Spec => []LinksAreSound
BY Invariance, PTL DEF IInv, LinksAreSound

\* Every variable keeps its type; a level's count never runs below zero.
THEOREM TypeCorrect == Spec => []TypeOK
BY Invariance, PTL DEF IInv

-----------------------------------------------------------------------------
(* Totals.                                                                 *)

\* What each order has left.
Left(a, b) == [s \in Slot |-> a[s] - b[s]]

LEMMA LeftIs ==
  ASSUME NEW a \in [Slot -> Quantity], NEW b \in [Slot -> Quantity], NEW s \in Slot
  PROVE  Left(a, b)[s] = a[s] - b[s] /\ Left(a, b)[s] \in Int
BY LevelAssumption DEF Left, Quantity

LEMMA QueueIsFinite ==
  ASSUME NEW q \in Seq(Slot)
  PROVE  IsFiniteSet(ToSet(q)) /\ ToSet(q) \subseteq Slot
<1>1. /\ Len(q) \in Nat /\ DOMAIN q = 1 .. Len(q)
      /\ q = [i \in 1 .. Len(q) |-> q[i]]
      /\ \A i \in 1 .. Len(q) : q[i] \in Slot
  OBVIOUS
<1>2. IsFiniteSet(1 .. Len(q))
  <2>1. 1 \in Int /\ Len(q) \in Int
    BY <1>1
  <2>. QED BY <2>1, FS_Interval
<1>3. IsFiniteSet({q[i] : i \in 1 .. Len(q)})
  BY <1>1, <1>2, RangeIsFinite
<1>4. ToSet(q) = {q[i] : i \in 1 .. Len(q)}
  BY <1>1 DEF ToSet
<1>. QED
  BY <1>1, <1>3, <1>4

\* The sum of the invariant, as a sum of one function over the slots.
LEMMA TotalIs ==
  ASSUME NEW q \in Seq(Slot), NEW a \in [Slot -> Quantity], NEW b \in [Slot -> Quantity]
  PROVE  SumFunction([s \in ToSet(q) |-> a[s] - b[s]]) = SumFunctionOnSet(Left(a, b), ToSet(q))
<1>1. IsFiniteSet(ToSet(q)) /\ ToSet(q) \subseteq Slot
  BY QueueIsFinite
<1>2. \A s \in ToSet(q) : Left(a, b)[s] = a[s] - b[s] /\ Left(a, b)[s] \in Int
  BY <1>1, LeftIs
<1>3. [s \in ToSet(q) |-> a[s] - b[s]] = [s \in ToSet(q) |-> Left(a, b)[s]]
  BY <1>2
<1>4. SumFunction([s \in ToSet(q) |-> Left(a, b)[s]]) = SumFunctionOnSet(Left(a, b), ToSet(q))
  BY <1>1, <1>2, SumOfAll
<1>. QED
  BY <1>3, <1>4

AddsUp(l, t, q, a, b) == t[l] = SumFunctionOnSet(Left(a, b), ToSet(q[l])) % QtyMod

LEMMA TotalsAre ==
  ASSUME NEW q \in [Level -> Seq(Slot)], NEW a \in [Slot -> Quantity], NEW b \in [Slot -> Quantity],
         NEW t
  PROVE  (\A l \in Level : t[l] = SumFunction([s \in ToSet(q[l]) |-> a[s] - b[s]]) % QtyMod)
           <=> \A l \in Level : AddsUp(l, t, q, a, b)
<1>1. ASSUME NEW l \in Level
      PROVE  SumFunction([s \in ToSet(q[l]) |-> a[s] - b[s]])
               = SumFunctionOnSet(Left(a, b), ToSet(q[l]))
  BY TotalIs
<1>. QED
  BY <1>1 DEF AddsUp

\* The invariant, before and after a step.
Totals ==
  \A l \in Level : AddsUp(l, total_qty, queue, quantity, filled_qty)

LEMMA TotalsNow == ASSUME IInv PROVE TotalsAddUp <=> Totals
<1>1. /\ queue \in [Level -> Seq(Slot)]
      /\ quantity \in [Slot -> Quantity] /\ filled_qty \in [Slot -> Quantity]
  BY DEF IInv, TypeOK
<1>2. (\A l \in Level : total_qty[l] =
         SumFunction([s \in ToSet(queue[l]) |-> quantity[s] - filled_qty[s]]) % QtyMod)
       <=> Totals
  BY <1>1, TotalsAre DEF Totals
<1>. QED
  BY <1>2 DEF TotalsAddUp, Remaining

LEMMA TotalsThen == ASSUME IInv' PROVE TotalsAddUp' <=> Totals'
<1>1. /\ queue' \in [Level -> Seq(Slot)]
      /\ quantity' \in [Slot -> Quantity] /\ filled_qty' \in [Slot -> Quantity]
  BY DEF IInv, TypeOK
<1>2. (\A l \in Level : total_qty'[l] =
         SumFunction([s \in ToSet(queue'[l]) |-> quantity'[s] - filled_qty'[s]]) % QtyMod)
       <=> \A l \in Level : AddsUp(l, total_qty', queue', quantity', filled_qty')
  BY <1>1, TotalsAre
<1>3. Totals' <=> \A l \in Level : AddsUp(l, total_qty', queue', quantity', filled_qty')
  BY DEF Totals
<1>4. TotalsAddUp' <=>
        (\A l \in Level : total_qty'[l] =
           SumFunction([s \in ToSet(queue'[l]) |-> quantity'[s] - filled_qty'[s]]) % QtyMod)
  BY DEF TotalsAddUp, Remaining
<1>. QED
  BY <1>2, <1>3, <1>4

\* A level whose orders keep what they have.
LEMMA OtherTotal ==
  ASSUME IInv, IInv', Totals, NEW l \in Level,
         total_qty'[l] = total_qty[l], queue'[l] = queue[l],
         \A s \in ToSet(queue[l]) : quantity'[s] = quantity[s] /\ filled_qty'[s] = filled_qty[s]
  PROVE  AddsUp(l, total_qty', queue', quantity', filled_qty')
<1>1. /\ queue[l] \in Seq(Slot)
      /\ quantity \in [Slot -> Quantity] /\ filled_qty \in [Slot -> Quantity]
      /\ quantity' \in [Slot -> Quantity] /\ filled_qty' \in [Slot -> Quantity]
  BY DEF IInv, TypeOK
<1>2. IsFiniteSet(ToSet(queue[l])) /\ ToSet(queue[l]) \subseteq Slot
  BY <1>1, QueueIsFinite
<1>. DEFINE f == Left(quantity, filled_qty)
            g == Left(quantity', filled_qty')
            S == ToSet(queue[l])
<1>3. \A s \in S : f[s] \in Int /\ g[s] = f[s]
  <2>1. ASSUME NEW s \in S
        PROVE  f[s] \in Int /\ g[s] = f[s]
    <3>1. s \in Slot /\ quantity'[s] - filled_qty'[s] = quantity[s] - filled_qty[s]
      BY <1>2
    <3>2. f[s] = quantity[s] - filled_qty[s] /\ f[s] \in Int
      BY <1>1, <3>1, LeftIs
    <3>3. g[s] = quantity'[s] - filled_qty'[s]
      BY <1>1, <3>1, LeftIs
    <3>. QED BY <3>1, <3>2, <3>3
  <2>. QED BY <2>1
<1>4. SumFunctionOnSet(g, S) = SumFunctionOnSet(f, S)
  <2>. HIDE DEF f, g, S
  <2>. QED BY <1>2, <1>3, SumOfSame DEF S
<1>. QED
  BY <1>4 DEF AddsUp, Totals

\* What one operation does to the links: the orders of level l become the set
\* given, and no other level changes.
Queued(l, S) ==
  /\ ToSet(queue'[l]) = S
  /\ \A k \in Level : k # l => queue'[k] = queue[k]

LEMMA LinkBackQueues ==
  ASSUME IInv, NEW l \in Level, NEW s \in Slot, LinkBack(l, s)
  PROVE  Queued(l, ToSet(queue[l]) \cup {s})
<1>1. queue \in [Level -> Seq(Slot)] /\ queue' = [queue EXCEPT ![l] = Append(queue[l], s)]
  BY DEF IInv, TypeOK, LinkBack
<1>2. queue[l] \in Seq(Slot)
  BY <1>1
<1>3. ToSet(Append(queue[l], s)) = ToSet(queue[l]) \cup {s}
  <2>. DEFINE q == queue[l]
  <2>1. q \in Seq(Slot)
    BY <1>2
  <2>. HIDE DEF q
  <2>2. /\ Len(q) \in Nat /\ DOMAIN q = 1 .. Len(q) /\ DOMAIN Append(q, s) = 1 .. Len(q) + 1
        /\ \A i \in 1 .. Len(q) : Append(q, s)[i] = q[i]
        /\ Append(q, s)[Len(q) + 1] = s
    BY <2>1
  <2>3. ToSet(Append(q, s)) \subseteq ToSet(q) \cup {s}
    BY <2>2 DEF ToSet
  <2>4. ToSet(q) \cup {s} \subseteq ToSet(Append(q, s))
    <3>1. ASSUME NEW x \in ToSet(q)
          PROVE  x \in ToSet(Append(q, s))
      <4>1. PICK i \in 1 .. Len(q) : x = q[i]
        BY <2>2 DEF ToSet
      <4>2. i \in 1 .. Len(q) + 1 /\ Append(q, s)[i] = x
        BY <4>1, <2>2
      <4>. QED BY <4>2, <2>2 DEF ToSet
    <3>2. s \in ToSet(Append(q, s))
      <4>1. Len(q) + 1 \in 1 .. Len(q) + 1
        BY <2>2
      <4>. QED BY <4>1, <2>2 DEF ToSet
    <3>. QED BY <3>1, <3>2
  <2>5. ToSet(Append(q, s)) = ToSet(q) \cup {s}
    BY <2>3, <2>4
  <2>. QED BY <2>5 DEF q
<1>. QED
  BY <1>1, <1>3 DEF Queued

LEMMA UnlinkQueues ==
  ASSUME IInv, NEW l \in Level, NEW s \in Slot, In(s, l), Unlink(l, s)
  PROVE  Queued(l, ToSet(queue[l]) \ {s})
<1>. DEFINE q == queue[l]
            i == Position(l, s)
<1>1. /\ queue \in [Level -> Seq(Slot)] /\ next \in [Slot -> Link] /\ prev \in [Slot -> Link]
      /\ queue' = [queue EXCEPT ![l] = RemoveAt(queue[l], i)]
  BY DEF IInv, TypeOK, Unlink
<1>2. q \in Seq(Slot) /\ i \in 1 .. Len(q) /\ s = q[i]
  <2>1. q \in Seq(Slot) /\ s \in ToSet(q)
    BY <1>1 DEF In
  <2>2. \E j \in DOMAIN q : q[j] = s
    BY <2>1 DEF ToSet
  <2>3. i \in DOMAIN q /\ q[i] = s
    BY <2>2 DEF Position
  <2>. HIDE DEF q, i
  <2>. QED  BY <2>1, <2>3
<1>3. Follows(next, prev, head[l], tail[l], q) /\ Once(q)
  BY EachList DEF IInv
<1>4. ToSet(RemoveAt(q, i)) = ToSet(q) \ {s}
  <2>. HIDE DEF q, i
  <2>. QED BY <1>1, <1>2, <1>3, UnlinkOne
<1>. HIDE DEF i
<1>. QED
  BY <1>1, <1>4 DEF Queued

-----------------------------------------------------------------------------
\* Each operation keeps the totals.

LEMMA RestTotals ==
  ASSUME IInv, IInv', TotalsAddUp, NEW l \in Level, NEW s \in Slot, NEW qty \in Quantity,
         NEW filled \in Quantity, Rest(l, s, qty, filled)
  PROVE  TotalsAddUp'
<1>1. /\ LinkBack(l, s) /\ \A k \in Level : s \notin ToSet(queue[k])
      /\ quantity' = [quantity EXCEPT ![s] = qty] /\ filled_qty' = [filled_qty EXCEPT ![s] = filled]
      /\ total_qty' = [total_qty EXCEPT ![l] = (((total_qty[l] + qty) % QtyMod) - filled) % QtyMod]
  BY DEF Rest, In
<1>2. /\ queue \in [Level -> Seq(Slot)] /\ queue' \in [Level -> Seq(Slot)]
      /\ quantity \in [Slot -> Quantity] /\ quantity' \in [Slot -> Quantity]
      /\ filled_qty \in [Slot -> Quantity] /\ filled_qty' \in [Slot -> Quantity]
      /\ total_qty \in [Level -> Quantity]
  BY DEF IInv, TypeOK
<1>3. Totals
  BY TotalsNow
<1>4. Queued(l, ToSet(queue[l]) \cup {s})
  BY <1>1, LinkBackQueues
<1>. DEFINE f == Left(quantity, filled_qty)
            g == Left(quantity', filled_qty')
            S == ToSet(queue[l])
<1>5. IsFiniteSet(S) /\ S \subseteq Slot
  BY <1>2, QueueIsFinite
<1>6. g[s] = qty - filled /\ g[s] \in Int
  <2>1. quantity'[s] = qty /\ filled_qty'[s] = filled
    BY <1>1, <1>2
  <2>2. g[s] = quantity'[s] - filled_qty'[s] /\ g[s] \in Int
    BY <1>2, LeftIs
  <2>. HIDE DEF g
  <2>. QED BY <2>1, <2>2
<1>7. \A y \in S : f[y] \in Int /\ g[y] = f[y]
  <2>1. ASSUME NEW y \in S
        PROVE  f[y] \in Int /\ g[y] = f[y]
    <3>1. y \in Slot /\ quantity'[y] = quantity[y] /\ filled_qty'[y] = filled_qty[y]
      BY <1>1, <1>2, <1>5
    <3>2. f[y] = quantity[y] - filled_qty[y] /\ f[y] \in Int
      BY <1>2, <3>1, LeftIs
    <3>3. g[y] = quantity'[y] - filled_qty'[y]
      BY <1>2, <3>1, LeftIs
    <3>. QED BY <3>1, <3>2, <3>3
  <2>. QED BY <2>1
<1>8. total_qty[l] = SumFunctionOnSet(f, S) % QtyMod /\ s \notin S
  BY <1>1, <1>3 DEF AddsUp, Totals
<1>9. (total_qty[l] + g[s]) % QtyMod = SumFunctionOnSet(g, S \cup {s}) % QtyMod
  <2>. HIDE DEF f, g, S
  <2>. QED BY <1>5, <1>6, <1>7, <1>8, LevelAssumption, TotalOfOneMore
<1>10. total_qty'[l] = (total_qty[l] + g[s]) % QtyMod
  <2>1. total_qty'[l] = (((total_qty[l] + qty) % QtyMod) - filled) % QtyMod
    BY <1>1, <1>2
  <2>. DEFINE a == total_qty[l] + qty
              b == -filled
  <2>2. a \in Int /\ b \in Int
    BY <1>2 DEF Quantity
  <2>3. (a % QtyMod) - filled = (a % QtyMod) + b /\ a + b = total_qty[l] + g[s]
    <3>1. a % QtyMod \in Int
      BY <2>2, LevelAssumption
    <3>2. total_qty[l] \in Int /\ qty \in Int /\ filled \in Int
      BY <1>2 DEF Quantity
    <3>. HIDE DEF g
    <3>. QED BY <3>1, <3>2, <1>6
  <2>4. ((a % QtyMod) + b) % QtyMod = (a + b) % QtyMod
    <3>. HIDE DEF a, b
    <3>. QED BY <2>2, LevelAssumption, ModOfSum
  <2>. QED
    BY <2>1, <2>3, <2>4
<1>11. AddsUp(l, total_qty', queue', quantity', filled_qty')
  BY <1>4, <1>9, <1>10 DEF AddsUp, Queued
<1>12. ASSUME NEW k \in Level, k # l
       PROVE  AddsUp(k, total_qty', queue', quantity', filled_qty')
  <2>1. total_qty'[k] = total_qty[k] /\ queue'[k] = queue[k]
    BY <1>1, <1>2, <1>4, <1>12 DEF Queued
  <2>2. \A x \in ToSet(queue[k]) : quantity'[x] = quantity[x] /\ filled_qty'[x] = filled_qty[x]
    BY <1>1, <1>2, QueueIsFinite
  <2>. QED
    BY <2>1, <2>2, <1>3, OtherTotal
<1>13. Totals'
  BY <1>11, <1>12 DEF Totals
<1>. QED
  BY <1>13, TotalsThen

LEMMA RemoveOrderTotals ==
  ASSUME IInv, IInv', TotalsAddUp, NEW l \in Level, NEW s \in Slot, RemoveOrder(l, s)
  PROVE  TotalsAddUp'
<1>1. /\ Unlink(l, s) /\ In(s, l) /\ s \in ToSet(queue[l])
      /\ quantity' = quantity /\ filled_qty' = filled_qty
      /\ total_qty' = [total_qty EXCEPT ![l] = (total_qty[l] - Remaining(s)) % QtyMod]
  BY DEF RemoveOrder, In
<1>2. /\ queue \in [Level -> Seq(Slot)] /\ queue' \in [Level -> Seq(Slot)]
      /\ quantity \in [Slot -> Quantity] /\ filled_qty \in [Slot -> Quantity]
      /\ total_qty \in [Level -> Quantity]
  BY DEF IInv, TypeOK
<1>3. Totals
  BY TotalsNow
<1>4. Queued(l, ToSet(queue[l]) \ {s})
  BY <1>1, UnlinkQueues
<1>. DEFINE f == Left(quantity, filled_qty)
            S == ToSet(queue[l])
<1>5. IsFiniteSet(S) /\ S \subseteq Slot
  BY <1>2, QueueIsFinite
<1>6. f[s] = Remaining(s) /\ \A y \in S : f[y] \in Int
  BY <1>2, <1>5, LeftIs DEF Remaining
<1>7. total_qty[l] = SumFunctionOnSet(f, S) % QtyMod
  BY <1>3 DEF AddsUp, Totals
<1>8. (total_qty[l] - f[s]) % QtyMod = SumFunctionOnSet(f, S \ {s}) % QtyMod
  <2>1. s \in S /\ \A y \in S \ {s} : f[y] = f[y]
    BY <1>1
  <2>. HIDE DEF f, S
  <2>. QED BY <2>1, <1>5, <1>6, <1>7, LevelAssumption, TotalOfOneLess
<1>9. AddsUp(l, total_qty', queue', quantity', filled_qty')
  <2>1. total_qty'[l] = (total_qty[l] - f[s]) % QtyMod
    BY <1>1, <1>2, <1>6
  <2>. QED BY <2>1, <1>1, <1>4, <1>8 DEF AddsUp, Queued
<1>10. ASSUME NEW k \in Level, k # l
       PROVE  AddsUp(k, total_qty', queue', quantity', filled_qty')
  <2>1. total_qty'[k] = total_qty[k] /\ queue'[k] = queue[k]
    BY <1>1, <1>2, <1>4, <1>10 DEF Queued
  <2>. QED
    BY <2>1, <1>1, <1>3, OtherTotal
<1>11. Totals'
  BY <1>9, <1>10, <1>1 DEF Totals
<1>. QED
  BY <1>11, TotalsThen

\* What an order has left shrinks by as much as its level's total, in a trade
\* that leaves it in the level and in a reduction.
LEMMA LessTotals ==
  ASSUME IInv, IInv', TotalsAddUp, NEW l \in Level, NEW s \in ToSet(queue[l]), NEW d \in Int,
         queue' = queue,
         quantity'[s] - filled_qty'[s] = quantity[s] - filled_qty[s] - d,
         \A x \in Slot \ {s} : quantity'[x] = quantity[x] /\ filled_qty'[x] = filled_qty[x],
         total_qty' = [total_qty EXCEPT ![l] = (total_qty[l] - d) % QtyMod]
  PROVE  TotalsAddUp'
<1>2. /\ queue \in [Level -> Seq(Slot)] /\ queue' \in [Level -> Seq(Slot)]
      /\ quantity \in [Slot -> Quantity] /\ quantity' \in [Slot -> Quantity]
      /\ filled_qty \in [Slot -> Quantity] /\ filled_qty' \in [Slot -> Quantity]
      /\ total_qty \in [Level -> Quantity]
  BY DEF IInv, TypeOK
<1>3. Totals
  BY TotalsNow
<1>. DEFINE f == Left(quantity, filled_qty)
            g == Left(quantity', filled_qty')
            S == ToSet(queue[l])
<1>5. IsFiniteSet(S) /\ S \subseteq Slot /\ s \in S
  BY <1>2, QueueIsFinite
<1>6. f[s] - g[s] = d
  <2>1. /\ f[s] = quantity[s] - filled_qty[s] /\ g[s] = quantity'[s] - filled_qty'[s]
        /\ f[s] \in Int
    BY <1>2, <1>5, LeftIs
  <2>. HIDE DEF f, g
  <2>. QED BY <2>1
<1>7. (\A y \in S : f[y] \in Int /\ g[y] \in Int) /\ \A y \in S \ {s} : g[y] = f[y]
  BY <1>2, <1>5, LeftIs
<1>8. total_qty[l] = SumFunctionOnSet(f, S) % QtyMod
  BY <1>3 DEF AddsUp, Totals
<1>9. (total_qty[l] - (f[s] - g[s])) % QtyMod = SumFunctionOnSet(g, S) % QtyMod
  <2>. HIDE DEF f, g, S
  <2>. QED BY <1>5, <1>7, <1>8, LevelAssumption, TotalOfChanged
<1>10. AddsUp(l, total_qty', queue', quantity', filled_qty')
  <2>1. total_qty'[l] = (total_qty[l] - (f[s] - g[s])) % QtyMod
    BY <1>2, <1>6
  <2>. QED BY <2>1, <1>9 DEF AddsUp
<1>11. ASSUME NEW k \in Level, k # l
       PROVE  AddsUp(k, total_qty', queue', quantity', filled_qty')
  <2>1. total_qty'[k] = total_qty[k] /\ queue'[k] = queue[k]
    BY <1>2, <1>11
  <2>2. \A x \in ToSet(queue[k]) : x \in Slot \ {s}
    <3>1. ToSet(queue[k]) \cap ToSet(queue[l]) = {}
      BY <1>11, EachList DEF IInv
    <3>. QED BY <3>1, <1>2, QueueIsFinite
  <2>. QED
    BY <2>1, <2>2, <1>3, OtherTotal
<1>12. Totals'
  BY <1>10, <1>11 DEF Totals
<1>. QED
  BY <1>12, TotalsThen

LEMMA ReduceTotals ==
  ASSUME IInv, IInv', TotalsAddUp, NEW l \in Level, NEW s \in Slot, NEW qty \in Quantity,
         Reduce(l, s, qty)
  PROVE  TotalsAddUp'
<1>1. /\ s \in ToSet(queue[l]) /\ queue' = queue /\ filled_qty' = filled_qty
      /\ quantity' = [quantity EXCEPT ![s] = qty]
      /\ total_qty' = [total_qty EXCEPT ![l] = (total_qty[l] - (quantity[s] - qty)) % QtyMod]
      /\ quantity \in [Slot -> Quantity] /\ filled_qty \in [Slot -> Quantity]
  BY DEF Reduce, In, links, IInv, TypeOK
<1>. DEFINE d == quantity[s] - qty
<1>2. /\ d \in Int
      /\ quantity'[s] - filled_qty'[s] = quantity[s] - filled_qty[s] - d
      /\ \A x \in Slot \ {s} : quantity'[x] = quantity[x] /\ filled_qty'[x] = filled_qty[x]
  BY <1>1 DEF Quantity
<1>3. total_qty' = [total_qty EXCEPT ![l] = (total_qty[l] - d) % QtyMod]
  BY <1>1
<1>. HIDE DEF d
<1>. QED
  BY <1>1, <1>2, <1>3, LessTotals

\* A trade that uses the order up takes it out of the level, and the sum of
\* the others is what the sum with it had become.
LEMMA FillTotals ==
  ASSUME IInv, IInv', TotalsAddUp, NEW l \in Level, NEW s \in Slot, NEW qty \in Quantity,
         Fill(l, s, qty)
  PROVE  TotalsAddUp'
<1>1. /\ s = head[l] /\ s # Null /\ qty \in 1 .. Remaining(s)
      /\ quantity' = quantity
      /\ filled_qty' = [filled_qty EXCEPT ![s] = filled_qty[s] + qty]
      /\ total_qty' = [total_qty EXCEPT ![l] = (total_qty[l] - qty) % QtyMod]
      /\ IF qty = Remaining(s) THEN Unlink(l, s) ELSE queue' = queue
  BY DEF Fill, links
<1>2. /\ queue \in [Level -> Seq(Slot)] /\ queue' \in [Level -> Seq(Slot)]
      /\ quantity \in [Slot -> Quantity] /\ quantity' \in [Slot -> Quantity]
      /\ filled_qty \in [Slot -> Quantity] /\ filled_qty' \in [Slot -> Quantity]
      /\ total_qty \in [Level -> Quantity]
  BY DEF IInv, TypeOK
<1>3. s \in ToSet(queue[l])
  <2>1. queue[l] \in Seq(Slot) /\ Follows(next, prev, head[l], tail[l], queue[l])
    BY EachList DEF IInv, TypeOK
  <2>2. head[l] \in ToSet(queue[l]) \cup {Null}
    BY <2>1, Neighbours
  <2>. QED  BY <2>2, <1>1
<1>4. /\ qty \in Int
      /\ quantity'[s] - filled_qty'[s] = quantity[s] - filled_qty[s] - qty
      /\ \A x \in Slot \ {s} : quantity'[x] = quantity[x] /\ filled_qty'[x] = filled_qty[x]
  BY <1>1, <1>2 DEF Quantity
<1>5. CASE qty # Remaining(s)
  BY <1>1, <1>3, <1>4, <1>5, LessTotals
<1>6. CASE qty = Remaining(s)
  <2>1. Queued(l, ToSet(queue[l]) \ {s})
    BY <1>1, <1>3, <1>6, UnlinkQueues DEF In
  <2>2. Totals
    BY TotalsNow
  <2>. DEFINE f == Left(quantity, filled_qty)
              g == Left(quantity', filled_qty')
              S == ToSet(queue[l])
  <2>3. IsFiniteSet(S) /\ S \subseteq Slot /\ s \in S
    BY <1>2, <1>3, QueueIsFinite
  <2>4. f[s] = qty /\ (\A y \in S : f[y] \in Int) /\ \A y \in S \ {s} : g[y] = f[y]
    <3>1. f[s] = qty
      BY <1>2, <1>6, LeftIs DEF Remaining
    <3>2. ASSUME NEW y \in S
          PROVE  f[y] \in Int /\ (y # s => g[y] = f[y])
      <4>1. f[y] = quantity[y] - filled_qty[y] /\ f[y] \in Int
        BY <1>2, <2>3, LeftIs
      <4>2. g[y] = quantity'[y] - filled_qty'[y]
        BY <1>2, <2>3, LeftIs
      <4>3. y # s => quantity'[y] - filled_qty'[y] = quantity[y] - filled_qty[y]
        BY <1>4, <2>3
      <4>. HIDE DEF f, g
      <4>. QED BY <4>1, <4>2, <4>3
    <3>. HIDE DEF f, g
    <3>. QED BY <3>1, <3>2
  <2>5. total_qty[l] = SumFunctionOnSet(f, S) % QtyMod
    BY <2>2 DEF AddsUp, Totals
  <2>6. (total_qty[l] - f[s]) % QtyMod = SumFunctionOnSet(g, S \ {s}) % QtyMod
    <3>. HIDE DEF f, g, S
    <3>. QED BY <2>3, <2>4, <2>5, LevelAssumption, TotalOfOneLess
  <2>7. AddsUp(l, total_qty', queue', quantity', filled_qty')
    <3>1. total_qty'[l] = (total_qty[l] - f[s]) % QtyMod
      BY <1>1, <1>2, <2>4
    <3>. QED BY <3>1, <2>1, <2>6 DEF AddsUp, Queued
  <2>8. ASSUME NEW k \in Level, k # l
        PROVE  AddsUp(k, total_qty', queue', quantity', filled_qty')
    <3>1. total_qty'[k] = total_qty[k] /\ queue'[k] = queue[k]
      BY <1>1, <1>2, <2>1, <2>8 DEF Queued
    <3>2. \A x \in ToSet(queue[k]) : x \in Slot \ {s}
      <4>1. ToSet(queue[k]) \cap ToSet(queue[l]) = {}
        BY <2>8, EachList DEF IInv
      <4>. QED BY <4>1, <1>2, <1>3, QueueIsFinite
    <3>. QED
      BY <3>1, <3>2, <1>4, <2>2, OtherTotal
  <2>9. Totals'
    BY <2>7, <2>8 DEF Totals
  <2>. QED
    BY <2>9, TotalsThen
<1>. QED
  BY <1>5, <1>6

LEMMA InitTotals == Init => TotalsAddUp
<1>. SUFFICES ASSUME Init, NEW l \in Level
     PROVE  total_qty[l] = SumFunction([s \in ToSet(queue[l]) |-> Remaining(s)]) % QtyMod
  BY DEF TotalsAddUp
<1>1. total_qty[l] = 0 /\ queue[l] = <<>>
  BY DEF Init
<1>2. ToSet(queue[l]) = {}
  BY <1>1 DEF ToSet
<1>3. DOMAIN [s \in ToSet(queue[l]) |-> Remaining(s)] = {}
  BY <1>2
<1>4. SumFunction([s \in ToSet(queue[l]) |-> Remaining(s)]) = 0
  BY <1>3, SumOfNone DEF SumFunction
<1>5. 0 % QtyMod = 0
  BY LevelAssumption
<1>. QED
  BY <1>1, <1>4, <1>5

\* The total of a level is the sum of what its orders have left, modulo the
\* width of Quantity, though push_back, remove, a trade and an amendment each
\* change it by another amount: for any number of orders and levels.
THEOREM TotalsAreSums == Spec => []TotalsAddUp
<1>1. IInv /\ IInv' /\ TotalsAddUp /\ [Next]_vars => TotalsAddUp'
  <2>. SUFFICES ASSUME IInv, IInv', TotalsAddUp, [Next]_vars PROVE TotalsAddUp'
    OBVIOUS
  <2>1. CASE UNCHANGED vars
    BY <2>1 DEF vars, links, TotalsAddUp, Remaining
  <2>2. CASE Next
    <3>1. PICK l \in Level, s \in Slot :
            \/ RemoveOrder(l, s)
            \/ \E qty \in Quantity :
                 \/ Fill(l, s, qty) \/ Reduce(l, s, qty)
                 \/ \E filled \in Quantity : Rest(l, s, qty, filled)
      BY <2>2 DEF Next
    <3>. QED  BY <3>1, RemoveOrderTotals, FillTotals, ReduceTotals, RestTotals
  <2>. QED  BY <2>1, <2>2
<1>. QED
  BY <1>1, InitTotals, Invariance, PTL DEF Spec

=============================================================================
