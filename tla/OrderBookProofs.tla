--------------------------- MODULE OrderBookProofs ---------------------------
(***************************************************************************)
(* What holds of the order book for every pool, every set of prices and    *)
(* quantities and every width of Quantity.                                 *)
(***************************************************************************)
EXTENDS OrderBook, Arithmetic, SequenceTheorems

-----------------------------------------------------------------------------
(* Arithmetic, sequences, and the best price of a side.                    *)

\* A quantity computed modulo QtyMod is a Quantity.
LEMMA ModIsQuantity == ASSUME NEW a \in Int PROVE a % QtyMod \in Quantity
  BY OrderBookAssumption DEF Quantity

\* A side that has levels has a best one, and it is unique.
LEMMA BestPriceIsBest ==
  ASSUME NEW b, NEW s \in Side, DOMAIN b[s] \subseteq Prices, DOMAIN b[s] # {}
  PROVE  /\ BestPrice(b, s) \in DOMAIN b[s]
         /\ \A q \in DOMAIN b[s] : ~Better(s, q, BestPrice(b, s))
<1>. DEFINE D == DOMAIN b[s]
<1>1. D \subseteq -MaxPrice .. MaxPrice /\ MaxPrice \in Nat
  BY OrderBookAssumption
<1>2. \E p \in D : \A q \in D : ~Better(s, q, p)
  <2>1. CASE s = "BID"
    <3>. DEFINE T == {MaxPrice - p : p \in D}
    <3>1. T \subseteq Nat /\ T # {}
      BY <1>1
    <3>2. PICK x \in T : \A y \in T : x <= y
      <4>. HIDE DEF T
      <4>. QED  BY <3>1, LeastNatural
    <3>3. PICK p \in D : x = MaxPrice - p
      BY <3>2
    <3>4. ASSUME NEW q \in D PROVE ~(q > p)
      <4>1. MaxPrice - q \in T
        OBVIOUS
      <4>2. MaxPrice - p <= MaxPrice - q
        BY <4>1, <3>2, <3>3
      <4>. QED  BY <4>2, <1>1
    <3>. QED  BY <3>3, <3>4, <2>1 DEF Better
  <2>2. CASE s = "ASK"
    <3>. DEFINE T == {MaxPrice + p : p \in D}
    <3>1. T \subseteq Nat /\ T # {}
      BY <1>1
    <3>2. PICK x \in T : \A y \in T : x <= y
      <4>. HIDE DEF T
      <4>. QED  BY <3>1, LeastNatural
    <3>3. PICK p \in D : x = MaxPrice + p
      BY <3>2
    <3>4. ASSUME NEW q \in D PROVE ~(q < p)
      <4>1. MaxPrice + q \in T
        OBVIOUS
      <4>2. MaxPrice + p <= MaxPrice + q
        BY <4>1, <3>2, <3>3
      <4>. QED  BY <4>2, <1>1
    <3>. QED  BY <3>3, <3>4, <2>2 DEF Better
  <2>. QED  BY <2>1, <2>2 DEF Side
<1>. QED
  BY <1>2 DEF BestPrice

\* What the library's RemoveAt does to a sequence.
LEMMA RemoveAtIs ==
  ASSUME NEW S, NEW q \in Seq(S), NEW k \in 1 .. Len(q)
  PROVE  /\ RemoveAt(q, k) \in Seq(S)
         /\ Len(RemoveAt(q, k)) = Len(q) - 1
         /\ \A i \in 1 .. Len(q) - 1 :
              RemoveAt(q, k)[i] = IF i < k THEN q[i] ELSE q[i + 1]
<1>. DEFINE a == SubSeq(q, 1, k - 1)
            z == SubSeq(q, k + 1, Len(q))
<1>1. /\ a \in Seq(S) /\ Len(a) = k - 1
      /\ \A i \in 1 .. k - 1 : a[i] = q[i]
  BY SubSeqProperties
<1>2. /\ z \in Seq(S) /\ Len(z) = Len(q) - k
      /\ \A i \in 1 .. Len(q) - k : z[i] = q[i + k]
  BY SubSeqProperties
<1>3. RemoveAt(q, k) = a \o z
  BY DEF RemoveAt
<1>. HIDE DEF a, z
<1>4. /\ a \o z \in Seq(S)
      /\ Len(a \o z) = Len(q) - 1
      /\ \A i \in 1 .. Len(q) - 1 : (a \o z)[i] = IF i <= k - 1 THEN a[i] ELSE z[i - (k - 1)]
  <2>1. Len(a) + Len(z) = Len(q) - 1
    BY <1>1, <1>2
  <2>2. /\ a \o z \in Seq(S)
        /\ Len(a \o z) = Len(a) + Len(z)
        /\ \A i \in 1 .. Len(a) + Len(z) :
             (a \o z)[i] = IF i <= Len(a) THEN a[i] ELSE z[i - Len(a)]
    BY <1>1, <1>2, ConcatProperties
  <2>. QED  BY <2>1, <2>2, <1>1
<1>5. ASSUME NEW i \in 1 .. Len(q) - 1
      PROVE  (a \o z)[i] = IF i < k THEN q[i] ELSE q[i + 1]
  <2>1. CASE i < k
    BY <2>1, <1>1, <1>4
  <2>2. CASE ~(i < k)
    <3>1. i - (k - 1) \in 1 .. Len(q) - k /\ (i - (k - 1)) + k = i + 1
      BY <2>2
    <3>. QED  BY <3>1, <2>2, <1>2, <1>4
  <2>. QED  BY <2>1, <2>2
<1>. QED
  BY <1>3, <1>4, <1>5

-----------------------------------------------------------------------------
(* A book whose levels are in order, whatever the state of the rest.       *)

\* Slot m is queued on side s at price p of b.
In(b, m, s, p) == p \in DOMAIN b[s] /\ m \in ToSet(b[s][p].queue)

\* An order that may be queued there.
Fits(o, s, p) ==
  /\ o.id # 0 /\ o.side = s /\ o.price = p
  /\ o.type = "LIMIT" /\ IsActive(o) /\ o.filled_qty < o.quantity

GoodLevel(ord, s, p, l) ==
  /\ l \in PriceLevel
  /\ l.queue # <<>>
  /\ l.order_count = Len(l.queue)
  /\ \A i \in DOMAIN l.queue : Fits(ord[l.queue[i]], s, p)
  /\ \A i, j \in DOMAIN l.queue : i < j => ord[l.queue[i]].rank < ord[l.queue[j]].rank

WellFormed(b) ==
  /\ b = [s \in Side |-> b[s]]
  /\ \A s \in Side : DOMAIN b[s] \subseteq Prices /\ b[s] = [p \in DOMAIN b[s] |-> b[s][p]]

GoodBook(b, ord) ==
  /\ WellFormed(b)
  /\ \A s \in Side : \A p \in DOMAIN b[s] : GoodLevel(ord, s, p, b[s][p])

\* A good level holds no slot twice.
LEMMA GoodLevelIsInjective ==
  ASSUME NEW ord \in [Slot -> Order], NEW s, NEW p, NEW l, GoodLevel(ord, s, p, l),
         NEW i \in DOMAIN l.queue, NEW j \in DOMAIN l.queue, l.queue[i] = l.queue[j]
  PROVE  i = j
<1>1. l.queue \in Seq(Slot) /\ DOMAIN l.queue = 1 .. Len(l.queue)
  BY DEF GoodLevel, PriceLevel
<1>2. ord[l.queue[i]].rank \in Nat
  <2>1. l.queue[i] \in Slot
    BY <1>1
  <2>2. ord[l.queue[i]] \in Order
    BY <2>1
  <2>. QED  BY <2>2 DEF Order
<1>3. ~(i < j) /\ ~(j < i)
  BY <1>2 DEF GoodLevel
<1>. QED
  BY <1>1, <1>3

\* Unlinking a queued order takes it out and leaves the others in order.
LEMMA UnlinkIsGood ==
  ASSUME NEW ord \in [Slot -> Order], NEW s, NEW p, NEW l, GoodLevel(ord, s, p, l),
         NEW m \in ToSet(l.queue), NEW o \in Order
  PROVE  /\ Unlink(l, m, o) \in PriceLevel
         /\ \A x : x \in ToSet(Unlink(l, m, o).queue) <=> x \in ToSet(l.queue) /\ x # m
         /\ Unlink(l, m, o).queue # <<>> => GoodLevel(ord, s, p, Unlink(l, m, o))
<1>. DEFINE q == l.queue
            k == PositionIn(q, m)
            r == RemoveAt(q, k)
            u == Unlink(l, m, o)
<1>1. /\ q \in Seq(Slot) /\ DOMAIN q = 1 .. Len(q) /\ Len(q) \in Nat
      /\ l.order_count = Len(q) /\ l.total_qty \in Quantity
  BY DEF GoodLevel, PriceLevel
<1>2. k \in 1 .. Len(q) /\ q[k] = m
  BY <1>1 DEF ToSet, PositionIn
<1>3. /\ r \in Seq(Slot) /\ Len(r) = Len(q) - 1
      /\ \A i \in 1 .. Len(q) - 1 : r[i] = IF i < k THEN q[i] ELSE q[i + 1]
  <2>. HIDE DEF k, q
  <2>. QED  BY <1>1, <1>2, RemoveAtIs
<1>4. DOMAIN r = 1 .. Len(q) - 1
  BY <1>1, <1>3
<1>5. u = [queue |-> r, total_qty |-> (l.total_qty - Remaining(o)) % QtyMod,
           order_count |-> Len(q) - 1]
  BY <1>1 DEF Unlink
<1>. HIDE DEF u, r, k
<1>6. (l.total_qty - Remaining(o)) % QtyMod \in Quantity
  <2>1. l.total_qty - Remaining(o) \in Int
    BY <1>1 DEF Remaining, Order, Quantity
  <2>. QED  BY <2>1, ModIsQuantity
<1>7. Len(q) - 1 \in Nat
  BY <1>1, <1>2
<1>8. u \in PriceLevel /\ u.queue = r /\ u.order_count = Len(q) - 1
  BY <1>3, <1>5, <1>6, <1>7 DEF PriceLevel
<1>9. \A i \in 1 .. Len(q) : i # k => q[i] # m
  BY <1>1, <1>2, GoodLevelIsInjective
<1>10. ASSUME NEW i \in 1 .. Len(q) - 1
       PROVE  \E j \in 1 .. Len(q) : j # k /\ r[i] = q[j]
  <2>1. CASE i < k
    BY <2>1, <1>1, <1>2, <1>3
  <2>2. CASE ~(i < k)
    <3>1. i + 1 \in 1 .. Len(q) /\ i + 1 # k
      BY <2>2, <1>1, <1>2
    <3>. QED  BY <3>1, <2>2, <1>3
  <2>. QED  BY <2>1, <2>2
<1>11. ASSUME NEW j \in 1 .. Len(q), j # k
       PROVE  \E i \in 1 .. Len(q) - 1 : r[i] = q[j]
  <2>1. CASE j < k
    <3>1. j \in 1 .. Len(q) - 1
      BY <2>1, <1>1, <1>2
    <3>. QED  BY <3>1, <2>1, <1>3
  <2>2. CASE j > k
    <3>1. j - 1 \in 1 .. Len(q) - 1 /\ ~(j - 1 < k) /\ (j - 1) + 1 = j
      BY <2>2, <1>1, <1>2
    <3>2. r[j - 1] = q[(j - 1) + 1]
      BY <3>1, <1>3
    <3>. QED  BY <3>1, <3>2
  <2>. QED  BY <2>1, <2>2, <1>11, <1>2
<1>12. ToSet(r) = ToSet(q) \ {m}
  <2>1. ASSUME NEW x \in ToSet(r) PROVE x \in ToSet(q) /\ x # m
    <3>1. PICK i \in 1 .. Len(q) - 1 : x = r[i]
      BY <1>4 DEF ToSet
    <3>2. PICK j \in 1 .. Len(q) : j # k /\ r[i] = q[j]
      BY <1>10
    <3>. QED  BY <3>1, <3>2, <1>1, <1>9 DEF ToSet
  <2>2. ASSUME NEW x \in ToSet(q), x # m PROVE x \in ToSet(r)
    <3>1. PICK j \in 1 .. Len(q) : q[j] = x
      BY <1>1 DEF ToSet
    <3>2. j # k
      BY <3>1, <2>2, <1>2
    <3>3. \E i \in 1 .. Len(q) - 1 : r[i] = q[j]
      BY <3>2, <1>11
    <3>. QED  BY <3>1, <3>3, <1>4 DEF ToSet
  <2>. QED  BY <2>1, <2>2
<1>13. ASSUME r # <<>> PROVE GoodLevel(ord, s, p, u)
  <2>1. \A i \in 1 .. Len(q) - 1 : Fits(ord[r[i]], s, p)
    BY <1>1, <1>10 DEF GoodLevel
  <2>2. ASSUME NEW i \in 1 .. Len(q) - 1, NEW j \in 1 .. Len(q) - 1, i < j
        PROVE  ord[r[i]].rank < ord[r[j]].rank
    <3>. DEFINE ii == IF i < k THEN i ELSE i + 1
                jj == IF j < k THEN j ELSE j + 1
    <3>1. ii \in 1 .. Len(q) /\ jj \in 1 .. Len(q) /\ ii < jj
      BY <2>2, <1>1, <1>2
    <3>2. r[i] = q[ii] /\ r[j] = q[jj]
      BY <1>3
    <3>. QED  BY <3>1, <3>2, <1>1 DEF GoodLevel
  <2>. QED  BY <2>1, <2>2, <1>13, <1>3, <1>4, <1>8 DEF GoodLevel
<1>. QED
  BY <1>8, <1>12, <1>13 DEF u

\* Storing a level changes that level only.
LEMMA SetLevelIs ==
  ASSUME NEW b, WellFormed(b), NEW s \in Side, NEW p \in Prices, NEW l
  PROVE  LET b2 == SetLevel(b, s, p, l)
         IN  /\ WellFormed(b2)
             /\ DOMAIN b2[s] = DOMAIN b[s] \cup {p}
             /\ b2[s][p] = l
             /\ \A q \in DOMAIN b[s] : q # p => b2[s][q] = b[s][q]
             /\ \A t \in Side : t # s => b2[t] = b[t]
<1>. DEFINE f  == [q \in DOMAIN b[s] \cup {p} |-> IF q = p THEN l ELSE b[s][q]]
            b2 == SetLevel(b, s, p, l)
<1>1. b2 = [t \in Side |-> IF t = s THEN f ELSE b[t]]
  BY DEF SetLevel, WellFormed
<1>2. f = [q \in DOMAIN f |-> f[q]] /\ DOMAIN f \subseteq Prices
  BY DEF WellFormed
<1>. HIDE DEF f, b2
<1>3. WellFormed(b2)
  BY <1>1, <1>2 DEF WellFormed
<1>4. b2[s] = f /\ \A t \in Side : t # s => b2[t] = b[t]
  BY <1>1
<1>. QED
  BY <1>3, <1>4 DEF f, b2

\* Erasing a level changes nothing else.
LEMMA EraseLevelIs ==
  ASSUME NEW b, WellFormed(b), NEW s \in Side, NEW p \in DOMAIN b[s]
  PROVE  LET b2 == EraseLevel(b, s, p)
         IN  /\ WellFormed(b2)
             /\ DOMAIN b2[s] = DOMAIN b[s] \ {p}
             /\ \A q \in DOMAIN b2[s] : b2[s][q] = b[s][q]
             /\ \A t \in Side : t # s => b2[t] = b[t]
<1>. DEFINE f  == [q \in DOMAIN b[s] \ {p} |-> b[s][q]]
            b2 == EraseLevel(b, s, p)
<1>1. b2 = [t \in Side |-> IF t = s THEN f ELSE b[t]]
  BY DEF EraseLevel, WellFormed
<1>2. f = [q \in DOMAIN f |-> f[q]] /\ DOMAIN f \subseteq Prices
  BY DEF WellFormed
<1>. HIDE DEF f, b2
<1>3. WellFormed(b2)
  BY <1>1, <1>2 DEF WellFormed
<1>4. b2[s] = f /\ \A t \in Side : t # s => b2[t] = b[t]
  BY <1>1
<1>. QED
  BY <1>3, <1>4 DEF f, b2

\* A good book with a good level stored in it is good.
LEMMA SetLevelIsGood ==
  ASSUME NEW b, NEW ord, GoodBook(b, ord),
         NEW s \in Side, NEW p \in Prices, NEW l, GoodLevel(ord, s, p, l)
  PROVE  LET b2 == SetLevel(b, s, p, l)
         IN  /\ GoodBook(b2, ord)
             /\ DOMAIN b2[s] = DOMAIN b[s] \cup {p}
             /\ \A t \in Side : t # s => DOMAIN b2[t] = DOMAIN b[t]
             /\ \A m, x : In(b2, m, s, x) <=>
                  IF x = p THEN m \in ToSet(l.queue) ELSE In(b, m, s, x)
             /\ \A t \in Side : t # s => \A m, x : In(b2, m, t, x) <=> In(b, m, t, x)
<1>. DEFINE b2 == SetLevel(b, s, p, l)
<1>1. /\ WellFormed(b2)
      /\ DOMAIN b2[s] = DOMAIN b[s] \cup {p}
      /\ b2[s][p] = l
      /\ \A q \in DOMAIN b[s] : q # p => b2[s][q] = b[s][q]
      /\ \A t \in Side : t # s => b2[t] = b[t]
  BY SetLevelIs DEF GoodBook
<1>. HIDE DEF b2
<1>2. GoodBook(b2, ord)
  BY <1>1 DEF GoodBook
<1>3. \A m, x : In(b2, m, s, x) <=> IF x = p THEN m \in ToSet(l.queue) ELSE In(b, m, s, x)
  BY <1>1 DEF In
<1>4. \A t \in Side : t # s => \A m, x : In(b2, m, t, x) <=> In(b, m, t, x)
  BY <1>1 DEF In
<1>. QED
  BY <1>1, <1>2, <1>3, <1>4 DEF b2

\* ... and so is one where a level has been stored back or, empty, erased.
LEMMA SetOrEraseIsGood ==
  ASSUME NEW b, NEW ord, GoodBook(b, ord),
         NEW s \in Side, NEW p \in DOMAIN b[s],
         NEW l, l.queue # <<>> => GoodLevel(ord, s, p, l)
  PROVE  LET b2 == SetOrErase(b, s, p, l)
         IN  /\ GoodBook(b2, ord)
             /\ \A t \in Side : DOMAIN b2[t] \subseteq DOMAIN b[t]
             /\ \A m, x : In(b2, m, s, x) <=>
                  IF x = p THEN m \in ToSet(l.queue) ELSE In(b, m, s, x)
             /\ \A t \in Side : t # s => \A m, x : In(b2, m, t, x) <=> In(b, m, t, x)
<1>. DEFINE b2 == SetOrErase(b, s, p, l)
<1>1. CASE l.queue # <<>>
  <2>1. b2 = SetLevel(b, s, p, l)
    BY <1>1 DEF SetOrErase
  <2>2. p \in Prices
    BY DEF GoodBook, WellFormed
  <2>3. /\ GoodBook(b2, ord)
        /\ DOMAIN b2[s] = DOMAIN b[s] \cup {p}
        /\ \A t \in Side : t # s => DOMAIN b2[t] = DOMAIN b[t]
        /\ \A m, x : In(b2, m, s, x) <=> IF x = p THEN m \in ToSet(l.queue) ELSE In(b, m, s, x)
        /\ \A t \in Side : t # s => \A m, x : In(b2, m, t, x) <=> In(b, m, t, x)
    BY <1>1, <2>1, <2>2, SetLevelIsGood
  <2>. QED  BY <2>3
<1>2. CASE l.queue = <<>>
  <2>1. b2 = EraseLevel(b, s, p)
    BY <1>2 DEF SetOrErase
  <2>2. /\ WellFormed(b2)
        /\ DOMAIN b2[s] = DOMAIN b[s] \ {p}
        /\ \A q \in DOMAIN b2[s] : b2[s][q] = b[s][q]
        /\ \A t \in Side : t # s => b2[t] = b[t]
    BY <2>1, EraseLevelIs DEF GoodBook
  <2>. HIDE DEF b2
  <2>3. GoodBook(b2, ord)
    BY <2>2 DEF GoodBook
  <2>4. ToSet(l.queue) = {}
    BY <1>2 DEF ToSet
  <2>5. \A m, x : In(b2, m, s, x) <=> IF x = p THEN m \in ToSet(l.queue) ELSE In(b, m, s, x)
    BY <2>2, <2>4 DEF In
  <2>6. \A t \in Side : t # s => \A m, x : In(b2, m, t, x) <=> In(b, m, t, x)
    BY <2>2 DEF In
  <2>7. \A t \in Side : DOMAIN b2[t] \subseteq DOMAIN b[t]
    BY <2>2
  <2>. QED  BY <2>3, <2>5, <2>6, <2>7 DEF b2
<1>. QED
  BY <1>1, <1>2

\* Orders may change in what the book does not depend on.
LEMMA GoodBookFrame ==
  ASSUME NEW b, NEW ord, GoodBook(b, ord), NEW ord2,
         \A s \in Side : \A p, m : In(b, m, s, p) =>
           Fits(ord2[m], s, p) /\ ord2[m].rank = ord[m].rank
  PROVE  GoodBook(b, ord2)
<1>1. ASSUME NEW s \in Side, NEW p \in DOMAIN b[s]
      PROVE  GoodLevel(ord2, s, p, b[s][p])
  <2>. DEFINE q == b[s][p].queue
  <2>1. \A i \in DOMAIN q : Fits(ord2[q[i]], s, p) /\ ord2[q[i]].rank = ord[q[i]].rank
    BY DEF In, ToSet
  <2>2. GoodLevel(ord, s, p, b[s][p])
    BY DEF GoodBook
  <2>. QED  BY <2>1, <2>2 DEF GoodLevel
<1>. QED
  BY <1>1 DEF GoodBook

\* A good book holds only orders that fit.
LEMMA QueuedFits ==
  ASSUME NEW b, NEW ord, GoodBook(b, ord), NEW s \in Side, NEW p, NEW m, In(b, m, s, p)
  PROVE  m \in Slot /\ Fits(ord[m], s, p)
<1>. DEFINE q == b[s][p].queue
<1>1. GoodLevel(ord, s, p, b[s][p])
  BY DEF GoodBook, In
<1>2. PICK i \in DOMAIN q : m = q[i]
  BY DEF In, ToSet
<1>3. q \in Seq(Slot)
  BY <1>1 DEF GoodLevel, PriceLevel
<1>. QED
  BY <1>1, <1>2, <1>3 DEF GoodLevel

\* An order that fits, is new to the level and the latest, may join the back.
LEMMA PushBackIsGood ==
  ASSUME NEW b, NEW ord \in [Slot -> Order], GoodBook(b, ord), NEW s \in Side, NEW p,
         NEW m \in Slot, NEW ord2 \in [Slot -> Order], NEW o \in Order,
         \A x \in Slot : x # m => ord2[x] = ord[x],
         ~In(b, m, s, p),
         Fits(ord2[m], s, p),
         \A x : In(b, x, s, p) => ord[x].rank < ord2[m].rank
  PROVE  LET l2 == TakeQty(PushBack(LevelAt(b, s, p), m, o), o.filled_qty)
         IN  /\ GoodLevel(ord2, s, p, l2)
             /\ \A x : x \in ToSet(l2.queue) <=> x = m \/ In(b, x, s, p)
<1>. DEFINE l  == LevelAt(b, s, p)
            q  == l.queue
            q2 == Append(q, m)
            l2 == TakeQty(PushBack(l, m, o), o.filled_qty)
<1>1. /\ l \in PriceLevel /\ l.order_count = Len(q)
      /\ q \in Seq(Slot) /\ Len(q) \in Nat /\ DOMAIN q = 1 .. Len(q) /\ l.total_qty \in Quantity
      /\ \A x : In(b, x, s, p) <=> x \in ToSet(q)
      /\ \A i \in DOMAIN q : Fits(ord[q[i]], s, p)
      /\ \A i, j \in DOMAIN q : i < j => ord[q[i]].rank < ord[q[j]].rank
  <2>1. CASE p \in DOMAIN b[s]
    <3>1. l = b[s][p] /\ GoodLevel(ord, s, p, l)
      BY <2>1 DEF LevelAt, GoodBook
    <3>2. l \in PriceLevel /\ q \in Seq(Slot) /\ l.total_qty \in Quantity
      BY <3>1 DEF GoodLevel, PriceLevel
    <3>3. \A x : In(b, x, s, p) <=> x \in ToSet(q)
      BY <3>1, <2>1 DEF In
    <3>. HIDE DEF l
    <3>. QED  BY <3>1, <3>2, <3>3 DEF GoodLevel
  <2>2. CASE p \notin DOMAIN b[s]
    <3>1. l = EmptyLevel /\ q = <<>>
      BY <2>2 DEF LevelAt, EmptyLevel
    <3>2. 0 \in Quantity
      BY OrderBookAssumption DEF Quantity
    <3>3. \A x : ~In(b, x, s, p) /\ x \notin ToSet(q)
      BY <3>1, <2>2 DEF In, ToSet
    <3>4. l \in PriceLevel /\ l.order_count = 0 /\ l.total_qty \in Quantity
      BY <3>1, <3>2 DEF EmptyLevel, PriceLevel
    <3>. HIDE DEF l
    <3>. QED  BY <3>1, <3>3, <3>4
  <2>. QED  BY <2>1, <2>2
<1>2. /\ q2 \in Seq(Slot) /\ q2 # <<>> /\ Len(q2) = Len(q) + 1 /\ DOMAIN q2 = 1 .. Len(q) + 1
      /\ \A i \in 1 .. Len(q) : q2[i] = q[i]
      /\ q2[Len(q) + 1] = m
  <2>. HIDE DEF l
  <2>. QED  BY <1>1, AppendProperties
<1>3. /\ l2.queue = q2 /\ l2.order_count = Len(q) + 1
      /\ l2 \in PriceLevel
  <2>. DEFINE a == (l.total_qty + o.quantity) % QtyMod
              c == (a - o.filled_qty) % QtyMod
  <2>1. o.quantity \in Int /\ o.filled_qty \in Int /\ l.total_qty \in Int
    BY <1>1 DEF Order, Quantity
  <2>2. a \in Quantity
    BY <2>1, ModIsQuantity
  <2>3. c \in Quantity
    <3>. HIDE DEF a
    <3>1. a - o.filled_qty \in Int
      BY <2>1, <2>2 DEF Quantity
    <3>. QED  BY <3>1, ModIsQuantity
  <2>4. l2 = [queue |-> q2, total_qty |-> c, order_count |-> l.order_count + 1]
    <3>1. PushBack(l, m, o) = [queue |-> q2, total_qty |-> a, order_count |-> l.order_count + 1]
      BY DEF PushBack
    <3>. HIDE DEF a, q2
    <3>. QED  BY <3>1 DEF TakeQty
  <2>. HIDE DEF l2, c, q2, l
  <2>. QED  BY <2>3, <2>4, <1>1, <1>2 DEF PriceLevel
<1>. HIDE DEF l2, l
<1>4. \A x : x \in ToSet(q2) <=> x = m \/ x \in ToSet(q)
  <2>1. \A x \in ToSet(q2) : x = m \/ x \in ToSet(q)
    BY <1>1, <1>2 DEF ToSet
  <2>2. m \in ToSet(q2)
    <3>1. Len(q) + 1 \in DOMAIN q2
      BY <1>1, <1>2
    <3>. QED  BY <3>1, <1>2 DEF ToSet
  <2>3. \A x \in ToSet(q) : x \in ToSet(q2)
    <3>1. \A i \in DOMAIN q : i \in DOMAIN q2 /\ q2[i] = q[i]
      BY <1>1, <1>2
    <3>. QED  BY <3>1 DEF ToSet
  <2>. QED  BY <2>1, <2>2, <2>3
<1>5. \A i \in 1 .. Len(q) : q[i] # m /\ q[i] \in Slot /\ ord2[q2[i]] = ord[q[i]]
                             /\ ord[q[i]].rank < ord2[m].rank
  <2>1. \A i \in 1 .. Len(q) : q[i] \in ToSet(q)
    BY <1>1 DEF ToSet
  <2>. QED  BY <2>1, <1>1, <1>2
<1>6. ASSUME NEW i \in 1 .. Len(q) + 1 PROVE Fits(ord2[q2[i]], s, p)
  <2>1. CASE i = Len(q) + 1
    BY <2>1, <1>2
  <2>2. CASE i \in 1 .. Len(q)
    BY <2>2, <1>1, <1>5
  <2>. QED  BY <2>1, <2>2, <1>1
<1>7. ASSUME NEW i \in 1 .. Len(q) + 1, NEW j \in 1 .. Len(q) + 1, i < j
      PROVE  ord2[q2[i]].rank < ord2[q2[j]].rank
  <2>1. i \in 1 .. Len(q)
    BY <1>7, <1>1
  <2>2. CASE j = Len(q) + 1
    BY <2>1, <2>2, <1>2, <1>5
  <2>3. CASE j \in 1 .. Len(q)
    BY <2>1, <2>3, <1>1, <1>5, <1>7
  <2>4. j \in 1 .. Len(q) \/ j = Len(q) + 1
    <3>1. Len(q) \in Nat
      BY <1>1
    <3>. QED  BY <3>1
  <2>. QED  BY <2>2, <2>3, <2>4
<1>8. GoodLevel(ord2, s, p, l2)
  BY <1>1, <1>2, <1>3, <1>6, <1>7 DEF GoodLevel
<1>9. \A x : x \in ToSet(l2.queue) <=> x = m \/ In(b, x, s, p)
  BY <1>1, <1>3, <1>4
<1>. QED
  BY <1>8, <1>9 DEF l, l2

\* The levels of a good book have their type, and so has the tick made of them.
LEMMA GoodBookIsTyped ==
  ASSUME NEW b, NEW ord, GoodBook(b, ord)
  PROVE  /\ b = [s \in Side |-> b[s]]
         /\ \A s \in Side : DOMAIN b[s] \subseteq Prices /\ b[s] \in [DOMAIN b[s] -> PriceLevel]
         /\ TopOfBook(b) \in Tick
<1>1. ASSUME NEW s \in Side
      PROVE  DOMAIN b[s] \subseteq Prices /\ b[s] \in [DOMAIN b[s] -> PriceLevel]
  BY DEF GoodBook, WellFormed, GoodLevel
<1>2. 0 \in Quantity /\ \A p \in Prices : p \in Int
  BY OrderBookAssumption DEF Quantity
<1>3. ASSUME NEW s \in Side
      PROVE  /\ (IF DOMAIN b[s] # {} THEN BestPrice(b, s) ELSE 0) \in Int
             /\ (IF DOMAIN b[s] # {} THEN b[s][BestPrice(b, s)].total_qty ELSE 0) \in Quantity
  <2>1. CASE DOMAIN b[s] # {}
    <3>1. BestPrice(b, s) \in DOMAIN b[s]
      BY <1>1, <2>1, BestPriceIsBest
    <3>. QED  BY <3>1, <1>1, <1>2, <2>1 DEF PriceLevel
  <2>2. CASE DOMAIN b[s] = {}
    BY <1>2, <2>2
  <2>. QED  BY <2>1, <2>2
<1>4. TopOfBook(b) \in Tick
  <2>1. "BID" \in Side /\ "ASK" \in Side
    BY DEF Side
  <2>. QED  BY <2>1, <1>3 DEF TopOfBook, Tick
<1>. QED
  BY <1>1, <1>4 DEF GoodBook, WellFormed

\* Lowering the aggregate of a level leaves it good.
LEMMA TakeQtyIsGood ==
  ASSUME NEW ord, NEW s, NEW p, NEW l, GoodLevel(ord, s, p, l), NEW qty \in Int
  PROVE  GoodLevel(ord, s, p, TakeQty(l, qty)) /\ TakeQty(l, qty).queue = l.queue
<1>. DEFINE a  == (l.total_qty - qty) % QtyMod
            l2 == TakeQty(l, qty)
<1>1. l \in PriceLevel
  BY DEF GoodLevel
<1>2. a \in Quantity
  <2>1. l.total_qty - qty \in Int
    BY <1>1 DEF PriceLevel, Quantity
  <2>. QED  BY <2>1, ModIsQuantity
<1>3. l2 = [l EXCEPT !.total_qty = a]
  BY DEF TakeQty
<1>. HIDE DEF a, l2
<1>4. l2 \in PriceLevel /\ l2.queue = l.queue /\ l2.order_count = l.order_count
  BY <1>1, <1>2, <1>3 DEF PriceLevel
<1>5. GoodLevel(ord, s, p, l2)
  BY <1>4 DEF GoodLevel
<1>. QED
  BY <1>4, <1>5 DEF l2

\* remove_from_book takes a queued order out, and only that one.
LEMMA RemoveFromBookIsGood ==
  ASSUME NEW b, NEW ord \in [Slot -> Order], GoodBook(b, ord),
         NEW m, NEW o \in Order, In(b, m, o.side, o.price)
  PROVE  LET b2 == RemoveFromBook(b, m, o)
         IN  /\ GoodBook(b2, ord)
             /\ \A s \in Side : DOMAIN b2[s] \subseteq DOMAIN b[s]
             /\ \A s \in Side : \A x, p : In(b2, x, s, p) <=> In(b, x, s, p) /\ x # m
<1>. DEFINE s  == o.side
            p  == o.price
            l  == b[s][p]
            l2 == Unlink(l, m, o)
            b2 == RemoveFromBook(b, m, o)
<1>1. s \in Side /\ p \in DOMAIN b[s] /\ m \in ToSet(l.queue) /\ GoodLevel(ord, s, p, l)
  BY DEF Order, In, GoodBook
<1>2. /\ \A x : x \in ToSet(l2.queue) <=> x \in ToSet(l.queue) /\ x # m
      /\ l2.queue # <<>> => GoodLevel(ord, s, p, l2)
  <2>. HIDE DEF l, s, p
  <2>. QED  BY <1>1, UnlinkIsGood
<1>3. b2 = SetOrErase(b, s, p, l2)
  BY <1>1 DEF RemoveFromBook
<1>4. Fits(ord[m], s, p)
  BY <1>1, QueuedFits
<1>5. \A t \in Side : \A x, q : In(b, x, t, q) => Fits(ord[x], t, q)
  BY QueuedFits
<1>6. In(b, m, s, p) /\ \A x : In(b, x, s, p) <=> x \in ToSet(l.queue)
  BY <1>1 DEF In
<1>. HIDE DEF l, l2, b2, s, p
<1>7. /\ GoodBook(b2, ord)
      /\ \A t \in Side : DOMAIN b2[t] \subseteq DOMAIN b[t]
      /\ \A x, q : In(b2, x, s, q) <=> IF q = p THEN x \in ToSet(l2.queue) ELSE In(b, x, s, q)
      /\ \A t \in Side : t # s => \A x, q : In(b2, x, t, q) <=> In(b, x, t, q)
  BY <1>1, <1>2, <1>3, SetOrEraseIsGood
<1>8. ASSUME NEW t \in Side, NEW x, NEW q
      PROVE  In(b2, x, t, q) <=> In(b, x, t, q) /\ x # m
  <2>1. In(b, m, t, q) => t = s /\ q = p
    BY <1>4, <1>5 DEF Fits
  <2>2. CASE t = s /\ q = p
    BY <2>2, <1>2, <1>6, <1>7
  <2>3. CASE t = s /\ q # p
    BY <2>1, <2>3, <1>7
  <2>4. CASE t # s
    BY <2>1, <2>4, <1>7
  <2>. QED  BY <2>2, <2>3, <2>4
<1>. QED
  BY <1>7, <1>8 DEF b2

\* rest_order adds an order that is in no queue and later than all that are.
LEMMA RestOrderIsGood ==
  ASSUME NEW b, NEW ord \in [Slot -> Order], GoodBook(b, ord),
         NEW m \in Slot, NEW o \in Order, o.price \in Prices,
         NEW ord2 \in [Slot -> Order], \A x \in Slot : x # m => ord2[x] = ord[x],
         \A s \in Side : \A x, p : In(b, x, s, p) => x # m /\ ord[x].rank < ord2[m].rank,
         Fits(ord2[m], o.side, o.price)
  PROVE  LET b2 == RestOrder(b, m, o)
         IN  /\ GoodBook(b2, ord2)
             /\ DOMAIN b2[o.side] = DOMAIN b[o.side] \cup {o.price}
             /\ \A s \in Side : s # o.side => DOMAIN b2[s] = DOMAIN b[s]
             /\ \A s \in Side : \A x, p : In(b2, x, s, p) <=>
                  In(b, x, s, p) \/ (x = m /\ s = o.side /\ p = o.price)
<1>. DEFINE s  == o.side
            p  == o.price
            l2 == TakeQty(PushBack(LevelAt(b, s, p), m, o), o.filled_qty)
            b2 == RestOrder(b, m, o)
<1>1. s \in Side
  BY DEF Order
<1>2. GoodBook(b, ord2)
  <2>1. \A t \in Side : \A q, x : In(b, x, t, q) =>
          Fits(ord2[x], t, q) /\ ord2[x].rank = ord[x].rank
    BY QueuedFits
  <2>. QED  BY <2>1, GoodBookFrame
<1>3. /\ GoodLevel(ord2, s, p, l2)
      /\ \A x : x \in ToSet(l2.queue) <=> x = m \/ In(b, x, s, p)
  <2>1. /\ ~In(b, m, s, p)
        /\ \A x : In(b, x, s, p) => ord[x].rank < ord2[m].rank
    BY <1>1
  <2>. HIDE DEF s, p
  <2>2. Fits(ord2[m], s, p)
    BY DEF s, p
  <2>. QED  BY <1>1, <2>1, <2>2, PushBackIsGood
<1>4. b2 = SetLevel(b, s, p, l2)
  BY DEF RestOrder
<1>5. p \in Prices
  OBVIOUS
<1>. HIDE DEF l2, b2, s, p
<1>6. /\ GoodBook(b2, ord2)
      /\ DOMAIN b2[s] = DOMAIN b[s] \cup {p}
      /\ \A t \in Side : t # s => DOMAIN b2[t] = DOMAIN b[t]
      /\ \A x, q : In(b2, x, s, q) <=> IF q = p THEN x \in ToSet(l2.queue) ELSE In(b, x, s, q)
      /\ \A t \in Side : t # s => \A x, q : In(b2, x, t, q) <=> In(b, x, t, q)
  BY <1>1, <1>2, <1>3, <1>4, <1>5, SetLevelIsGood
<1>7. ASSUME NEW t \in Side, NEW x, NEW q
      PROVE  In(b2, x, t, q) <=> In(b, x, t, q) \/ (x = m /\ t = s /\ q = p)
  BY <1>3, <1>6
<1>. QED
  BY <1>6, <1>7 DEF b2, s, p

\* What execute_trade does to one of the two orders.
LEMMA ExecutedIs ==
  ASSUME NEW o \in Order, NEW qty \in Nat, o.filled_qty + qty <= o.quantity
  PROVE  LET e == Executed(o, qty)
         IN  /\ e \in Order
             /\ e.id = o.id /\ e.side = o.side /\ e.price = o.price /\ e.type = o.type
             /\ e.rank = o.rank /\ e.quantity = o.quantity
             /\ e.filled_qty = o.filled_qty + qty
             /\ IsActive(e) <=> o.filled_qty + qty < o.quantity
<1>. DEFINE st == IF o.filled_qty + qty = o.quantity THEN "FILLED" ELSE "PARTIAL"
            e  == [o EXCEPT !.filled_qty = o.filled_qty + qty, !.status = st]
<1>1. o.filled_qty \in Nat /\ o.quantity \in Nat /\ o.filled_qty + qty \in Quantity
  BY OrderBookAssumption DEF Order, Quantity
<1>2. st \in OrderStatus
  BY DEF OrderStatus
<1>3. IsActive(e) <=> o.filled_qty + qty < o.quantity
  <2>1. e.status = st
    BY DEF Order
  <2>2. st \in {"NEW", "PARTIAL"} <=> o.filled_qty + qty # o.quantity
    OBVIOUS
  <2>. HIDE DEF e, st
  <2>. QED  BY <1>1, <2>1, <2>2 DEF IsActive
<1>4. /\ e \in Order
      /\ e.id = o.id /\ e.side = o.side /\ e.price = o.price /\ e.type = o.type
      /\ e.rank = o.rank /\ e.quantity = o.quantity /\ e.filled_qty = o.filled_qty + qty
  <2>. HIDE DEF st
  <2>. QED  BY <1>1, <1>2 DEF Order
<1>5. e = Executed(o, qty)
  BY DEF Executed
<1>. QED
  BY <1>3, <1>4, <1>5

-----------------------------------------------------------------------------
(* The inductive invariant.  NoCross alone says nothing about the step     *)
(* that rests an order or unlinks one: that remove() works on the level    *)
(* the order is in, and that the head of a level is an order of its price, *)
(* needs the links, the lookup table, the free list and the taker too.     *)

\* The free list holds each free slot once.
FreeIsSound ==
  /\ \A i, j \in DOMAIN free : free[i] = free[j] => i = j
  /\ ToSet(free) = Slot \ Allocated

\* order_map_ leads from the id of each order to its slot, and nowhere else.
MapIsSound ==
  /\ \A m \in Allocated : order[m].id \in DOMAIN order_map /\ order_map[order[m].id] = m
  /\ \A id \in DOMAIN order_map : order[order_map[id]].id = id

\* The queues hold the open orders except the taker, each where it belongs.
BookIsSound ==
  /\ GoodBook(book, order)
  /\ \A s \in Side, p \in Prices, m \in Slot :
       In(book, m, s, p) => m # taker /\ order[m].rank <= clock
  /\ \A m \in Allocated \ {taker} :
       IsActive(order[m]) => In(book, m, order[m].side, order[m].price)

\* The taker is an order that is open as long as it lacks quantity.
TakerIsSound ==
  pc # "idle" =>
    /\ order[taker].id # 0 /\ order[taker].price \in Prices
    /\ order[taker].filled_qty <= order[taker].quantity
    /\ IsActive(order[taker]) <=> order[taker].filled_qty < order[taker].quantity
    /\ pc = "match_order" => IsActive(order[taker])

IInv == TypeOK /\ FreeIsSound /\ MapIsSound /\ BookIsSound /\ TakerIsSound /\ NoCross

\* What is queued is queued at a price callers use, and is not the taker.
LEMMA QueuedIsOther ==
  ASSUME BookIsSound, NEW s \in Side, NEW p, NEW m, In(book, m, s, p)
  PROVE  /\ p \in Prices /\ m \in Slot /\ m # taker
         /\ Fits(order[m], s, p) /\ order[m].rank <= clock
<1>1. m \in Slot /\ Fits(order[m], s, p)
  BY QueuedFits DEF BookIsSound
<1>2. p \in Prices
  BY DEF BookIsSound, GoodBook, WellFormed, In
<1>. QED
  BY <1>1, <1>2 DEF BookIsSound

\* The empty book.
LEMMA InitIInv == Init => IInv
<1>. SUFFICES ASSUME Init PROVE IInv
  OBVIOUS
<1>. USE DEF Init
<1>1. 0 \in Quantity /\ Capacity \in Nat /\ Capacity > 0
  BY OrderBookAssumption DEF Quantity
<1>2. DefaultOrder \in Order
  BY <1>1 DEF DefaultOrder, Order, Side, OrderType, OrderStatus
<1>3. Allocated = {}
  BY DEF Allocated, DefaultOrder
<1>4. \A s \in Side : DOMAIN book[s] = {}
  OBVIOUS
<1>5. TypeOK
  <2>1. free \in Seq(Slot)
    BY <1>1 DEF Slot
  <2>2. order_map \in [DOMAIN order_map -> Slot] /\ DOMAIN order_map \subseteq 1 .. id_counter
    OBVIOUS
  <2>3. tick \in Tick
    BY <1>1 DEF NoTick, Tick
  <2>4. book = [s \in Side |-> book[s]]
    OBVIOUS
  <2>5. \A s \in Side : DOMAIN book[s] \subseteq Prices /\ book[s] \in [DOMAIN book[s] -> PriceLevel]
    OBVIOUS
  <2>. QED  BY <2>1, <2>2, <2>3, <2>4, <2>5, <1>2 DEF TypeOK
<1>6. FreeIsSound
  <2>1. DOMAIN free = 1 .. Capacity /\ \A i \in 1 .. Capacity : free[i] = i - 1
    OBVIOUS
  <2>2. ToSet(free) = Slot
    <3>1. \A x \in ToSet(free) : x \in Slot
      BY <2>1, <1>1 DEF ToSet, Slot
    <3>2. ASSUME NEW x \in Slot PROVE x \in ToSet(free)
      <4>1. x + 1 \in DOMAIN free /\ free[x + 1] = x
        BY <2>1, <1>1 DEF Slot
      <4>. QED  BY <4>1 DEF ToSet
    <3>. QED  BY <3>1, <3>2
  <2>3. \A i, j \in DOMAIN free : free[i] = free[j] => i = j
    BY <2>1, <1>1
  <2>. QED  BY <2>2, <2>3, <1>3 DEF FreeIsSound
<1>7. MapIsSound
  BY <1>3 DEF MapIsSound
<1>8. BookIsSound
  <2>1. WellFormed(book)
    BY DEF WellFormed
  <2>2. \A s \in Side : \A p, m : ~In(book, m, s, p)
    BY <1>4 DEF In
  <2>. QED  BY <1>3, <1>4, <2>1, <2>2 DEF BookIsSound, GoodBook
<1>9. TakerIsSound /\ NoCross
  BY <1>4 DEF TakerIsSound, NoCross, Side
<1>. QED
  BY <1>5, <1>6, <1>7, <1>8, <1>9 DEF IInv

-----------------------------------------------------------------------------
(* Every step preserves it.                                                *)

\* Taking an order out of the lookup table and giving its slot back.
LEMMA ForgetIsSound ==
  ASSUME TypeOK, FreeIsSound, MapIsSound, NEW m \in Allocated, Forget(m),
         order' \in [Slot -> Order], order'[m] = DefaultOrder,
         \A x \in Slot : x # m => order'[x].id = order[x].id
  PROVE  /\ FreeIsSound' /\ MapIsSound' /\ Allocated' = Allocated \ {m}
         /\ free' \in Seq(Slot)
         /\ DOMAIN order_map' \subseteq 1 .. id_counter
         /\ order_map' \in [DOMAIN order_map' -> Slot]
<1>. DEFINE id == order[m].id
<1>1. m \in Slot /\ id # 0 /\ id \in DOMAIN order_map /\ order_map[id] = m
  BY DEF Allocated, MapIsSound
<1>2. Allocated' = Allocated \ {m}
  BY <1>1 DEF Allocated, DefaultOrder
<1>3. /\ DOMAIN order_map' = DOMAIN order_map \ {id}
      /\ \A y \in DOMAIN order_map' : order_map'[y] = order_map[y]
      /\ DOMAIN order_map' \subseteq 1 .. id_counter
      /\ order_map' \in [DOMAIN order_map' -> Slot]
  BY DEF Forget, Erase, TypeOK
<1>4. MapIsSound'
  <2>1. ASSUME NEW x \in Allocated'
        PROVE  order'[x].id \in DOMAIN order_map' /\ order_map'[order'[x].id] = x
    <3>1. x \in Allocated /\ x # m /\ x \in Slot
      BY <1>2 DEF Allocated
    <3>2. order'[x].id = order[x].id /\ order[x].id \in DOMAIN order_map
          /\ order_map[order[x].id] = x
      BY <3>1 DEF MapIsSound
    <3>. QED  BY <3>1, <3>2, <1>1, <1>3
  <2>2. ASSUME NEW y \in DOMAIN order_map'
        PROVE  order'[order_map'[y]].id = y
    <3>1. order_map[y] \in Slot /\ order[order_map[y]].id = y /\ y # id
      BY <1>3 DEF MapIsSound, TypeOK
    <3>2. order_map[y] # m
      BY <3>1
    <3>. QED  BY <3>1, <3>2, <1>3
  <2>. QED  BY <2>1, <2>2 DEF MapIsSound
<1>5. /\ free \in Seq(Slot) /\ Len(free) \in Nat /\ DOMAIN free = 1 .. Len(free)
      /\ free' \in Seq(Slot) /\ Len(free') = Len(free) + 1 /\ DOMAIN free' = 1 .. Len(free) + 1
      /\ free'[1] = m /\ \A i \in 2 .. Len(free) + 1 : free'[i] = free[i - 1]
  <2>1. free' = <<m>> \o free /\ free \in Seq(Slot) /\ <<m>> \in Seq(Slot)
    BY <1>1 DEF Forget, TypeOK
  <2>. QED  BY <2>1, ConcatProperties
<1>6. \A i \in DOMAIN free : free[i] # m
  BY DEF FreeIsSound, ToSet
<1>7. FreeIsSound'
  <2>1. ASSUME NEW i \in DOMAIN free', NEW j \in DOMAIN free', free'[i] = free'[j]
        PROVE  i = j
    <3>1. \A k \in DOMAIN free' : k # 1 => k - 1 \in DOMAIN free /\ free'[k] = free[k - 1]
                                         /\ free'[k] # m
      BY <1>5, <1>6
    <3>2. CASE i = 1 \/ j = 1
      BY <3>1, <3>2, <2>1, <1>5
    <3>3. CASE i # 1 /\ j # 1
      <4>1. i - 1 = j - 1
        BY <3>1, <3>3, <2>1 DEF FreeIsSound
      <4>. QED  BY <4>1, <1>5
    <3>. QED  BY <3>2, <3>3
  <2>2. ToSet(free') = ToSet(free) \cup {m}
    <3>1. ASSUME NEW x \in ToSet(free') PROVE x \in ToSet(free) \/ x = m
      <4>1. PICK i \in 1 .. Len(free) + 1 : x = free'[i]
        BY <1>5 DEF ToSet
      <4>2. CASE i = 1
        BY <4>1, <4>2, <1>5
      <4>3. CASE i # 1
        <5>1. i - 1 \in DOMAIN free /\ x = free[i - 1]
          BY <4>1, <4>3, <1>5
        <5>. QED  BY <5>1 DEF ToSet
      <4>. QED  BY <4>2, <4>3
    <3>2. m \in ToSet(free')
      BY <1>5 DEF ToSet
    <3>3. ASSUME NEW x \in ToSet(free) PROVE x \in ToSet(free')
      <4>1. PICK i \in DOMAIN free : x = free[i]
        BY DEF ToSet
      <4>2. i + 1 \in DOMAIN free' /\ free'[i + 1] = free[(i + 1) - 1] /\ (i + 1) - 1 = i
        BY <1>5
      <4>. QED  BY <4>1, <4>2 DEF ToSet
    <3>. QED  BY <3>1, <3>2, <3>3
  <2>3. ToSet(free') = Slot \ Allocated'
    BY <2>2, <1>1, <1>2 DEF FreeIsSound
  <2>. QED  BY <2>1, <2>3 DEF FreeIsSound
<1>. QED
  BY <1>2, <1>3, <1>4, <1>5, <1>7

\* add_order up to match_order.
LEMMA AddOrderIInv ==
  ASSUME IInv, NEW side \in Side, NEW type \in OrderType,
         NEW price \in Prices, NEW quantity \in Quantities,
         AddOrder(side, type, price, quantity)
  PROVE  IInv'
<1>. DEFINE slot == Head(free)
            id   == id_counter + 1
            new  == [id |-> id, price |-> price, quantity |-> quantity, filled_qty |-> 0,
                     side |-> side, type |-> type, status |-> "NEW", rank |-> 0]
<1>1. /\ pc = "idle" /\ pc' = "match_order" /\ quantity # 0 /\ free # <<>>
      /\ free' = Tail(free) /\ id_counter' = id /\ taker' = slot
      /\ order' = [order EXCEPT ![slot] = new]
      /\ order_map' = [i \in DOMAIN order_map \cup {id} |-> IF i = id THEN slot ELSE order_map[i]]
      /\ book' = book /\ tick' = tick /\ clock' = clock
  BY DEF AddOrder, ValidInput
<1>2. /\ free \in Seq(Slot) /\ Len(free) \in Nat \ {0} /\ DOMAIN free = 1 .. Len(free)
      /\ slot = free[1] /\ slot \in Slot
      /\ free' \in Seq(Slot) /\ Len(free') = Len(free) - 1 /\ DOMAIN free' = 1 .. Len(free) - 1
      /\ \A i \in DOMAIN free' : free'[i] = free[i + 1]
  <2>1. free \in Seq(Slot) /\ free # <<>> /\ free' = Tail(free)
    BY <1>1 DEF IInv, TypeOK
  <2>2. Len(free) \in Nat \ {0} /\ DOMAIN free = 1 .. Len(free) /\ slot = free[1]
    BY <2>1, EmptySeq
  <2>. QED  BY <2>1, <2>2, HeadTailProperties
<1>3. slot \notin Allocated /\ order[slot].id = 0
  <2>1. slot \in ToSet(free)
    BY <1>2 DEF ToSet
  <2>. QED  BY <2>1, <1>2 DEF IInv, FreeIsSound, Allocated
<1>4. /\ id \in Nat /\ id # 0 /\ id \notin DOMAIN order_map
      /\ DOMAIN order_map \subseteq 1 .. id_counter /\ order_map \in [DOMAIN order_map -> Slot]
      /\ order \in [Slot -> Order] /\ taker = Null
  BY <1>1 DEF IInv, TypeOK
<1>5. new \in Order /\ price \in Prices /\ quantity \in Nat
  <2>1. /\ quantity \in Quantity /\ quantity \in Nat /\ 0 \in Quantity /\ price \in Int
    BY OrderBookAssumption DEF Quantity
  <2>. HIDE DEF id
  <2>. QED  BY <2>1, <1>4 DEF Order, OrderStatus
<1>6. /\ order' \in [Slot -> Order] /\ order'[slot] = new
      /\ \A x \in Slot : x # slot => order'[x] = order[x]
  <2>. HIDE DEF new
  <2>. QED  BY <1>1, <1>2, <1>4, <1>5
<1>7. Allocated' = Allocated \cup {slot}
  <2>1. new.id # 0
    BY <1>4
  <2>. QED  BY <2>1, <1>2, <1>6 DEF Allocated
<1>. HIDE DEF slot
<1>8. TypeOK'
  <2>1. /\ DOMAIN order_map' \subseteq 1 .. id_counter'
        /\ order_map' \in [DOMAIN order_map' -> Slot]
    <3>1. DOMAIN order_map' = DOMAIN order_map \cup {id} /\ id_counter' = id_counter + 1
      BY <1>1
    <3>2. id_counter \in Nat
      BY DEF IInv, TypeOK
    <3>3. DOMAIN order_map' \subseteq 1 .. id_counter'
      BY <3>1, <3>2, <1>4
    <3>. HIDE DEF id
    <3>4. order_map' \in [DOMAIN order_map' -> Slot]
      BY <1>1, <1>2, <1>4
    <3>. QED  BY <3>3, <3>4
  <2>2. taker' \in (IF pc' = "idle" THEN {Null} ELSE Slot)
    BY <1>1, <1>2
  <2>. QED  BY <1>1, <1>2, <1>4, <1>6, <2>1, <2>2 DEF IInv, TypeOK
<1>9. FreeIsSound'
  <2>1. \A i \in DOMAIN free' : i + 1 \in DOMAIN free /\ free'[i] = free[i + 1] /\ i + 1 # 1
    BY <1>2
  <2>2. ASSUME NEW i \in DOMAIN free', NEW j \in DOMAIN free', free'[i] = free'[j]
        PROVE  i = j
    <3>1. i + 1 = j + 1
      BY <2>1, <2>2 DEF IInv, FreeIsSound
    <3>. QED  BY <3>1, <1>2
  <2>3. ToSet(free') = ToSet(free) \ {slot}
    <3>1. \A x \in ToSet(free') : x \in ToSet(free) /\ x # slot
      BY <2>1, <1>2 DEF ToSet, IInv, FreeIsSound
    <3>2. ASSUME NEW x \in ToSet(free), x # slot PROVE x \in ToSet(free')
      <4>1. PICK i \in DOMAIN free : x = free[i]
        BY DEF ToSet
      <4>2. i - 1 \in DOMAIN free' /\ (i - 1) + 1 = i
        BY <4>1, <3>2, <1>2
      <4>. QED  BY <4>1, <4>2, <1>2 DEF ToSet
    <3>. QED  BY <3>1, <3>2
  <2>. QED  BY <2>2, <2>3, <1>2, <1>7 DEF IInv, FreeIsSound
<1>10. MapIsSound'
  <2>1. /\ DOMAIN order_map' = DOMAIN order_map \cup {id}
        /\ order_map'[id] = slot
        /\ \A y \in DOMAIN order_map : order_map'[y] = order_map[y]
    <3>. HIDE DEF id
    <3>. QED  BY <1>1, <1>4
  <2>4. new.id = id
    OBVIOUS
  <2>. HIDE DEF new, id
  <2>2. ASSUME NEW x \in Allocated'
        PROVE  order'[x].id \in DOMAIN order_map' /\ order_map'[order'[x].id] = x
    <3>1. CASE x = slot
      <4>1. order'[x].id = id
        BY <3>1, <2>4, <1>6
      <4>2. id \in DOMAIN order_map' /\ order_map'[id] = slot
        BY <2>1
      <4>. QED  BY <3>1, <4>1, <4>2
    <3>2. CASE x # slot
      <4>1. x \in Allocated /\ x \in Slot
        BY <3>2, <1>7 DEF Allocated
      <4>. QED  BY <4>1, <3>2, <2>1, <1>6 DEF IInv, MapIsSound
    <3>. QED  BY <3>1, <3>2
  <2>3. ASSUME NEW y \in DOMAIN order_map' PROVE order'[order_map'[y]].id = y
    <3>1. CASE y = id
      BY <3>1, <2>1, <2>4, <1>6, <1>2
    <3>2. CASE y # id
      <4>1. y \in DOMAIN order_map
        BY <3>2, <2>1
      <4>2. order[order_map[y]].id = y /\ order_map'[y] = order_map[y]
        BY <4>1, <2>1 DEF IInv, MapIsSound
      <4>3. order_map[y] \in Slot /\ y # 0
        BY <4>1, <1>4
      <4>. QED  BY <4>2, <4>3, <1>3, <1>6
    <3>. QED  BY <3>1, <3>2
  <2>. QED  BY <2>2, <2>3 DEF MapIsSound
<1>11. BookIsSound'
  <2>1. BookIsSound
    BY DEF IInv
  <2>2. ASSUME NEW s \in Side, NEW p, NEW m, In(book, m, s, p)
        PROVE  /\ m # slot /\ m \in Slot /\ order'[m] = order[m]
               /\ Fits(order'[m], s, p) /\ order'[m].rank <= clock
    <3>1. m \in Slot /\ Fits(order[m], s, p) /\ order[m].rank <= clock
      BY <2>1, <2>2, QueuedIsOther
    <3>2. m # slot
      BY <3>1, <1>3 DEF Fits
    <3>. QED  BY <3>1, <3>2, <1>6
  <2>3. GoodBook(book', order')
    <3>1. GoodBook(book, order)
      BY <2>1 DEF BookIsSound
    <3>2. GoodBook(book, order')
      BY <3>1, <2>2, GoodBookFrame
    <3>. QED  BY <3>2, <1>1
  <2>4. \A s \in Side, p \in Prices, m \in Slot :
          In(book', m, s, p) => m # taker' /\ order'[m].rank <= clock'
    BY <2>2, <1>1
  <2>5. ASSUME NEW m \in Allocated' \ {taker'}, IsActive(order'[m])
        PROVE  In(book', m, order'[m].side, order'[m].price)
    <3>1. m \in Allocated /\ m # slot /\ m \in Slot /\ m # Null
      BY <1>1, <1>7, OrderBookAssumption DEF Allocated, Slot, Null
    <3>. QED  BY <3>1, <2>1, <2>5, <1>1, <1>4, <1>6 DEF BookIsSound
  <2>. QED  BY <2>3, <2>4, <2>5 DEF BookIsSound
<1>12. TakerIsSound'
  <2>1. /\ order'[taker'] = new /\ new.id # 0 /\ new.price \in Prices
        /\ new.filled_qty = 0 /\ new.quantity = quantity /\ new.status = "NEW"
    BY <1>1, <1>4, <1>6
  <2>. HIDE DEF new
  <2>2. IsActive(order'[taker'])
    BY <2>1 DEF IsActive
  <2>3. 0 <= quantity /\ 0 < quantity
    BY <1>1, <1>5
  <2>. QED  BY <2>1, <2>2, <2>3 DEF TakerIsSound, IsActive
<1>13. NoCross'
  BY <1>1 DEF IInv, NoCross
<1>. QED
  BY <1>8, <1>9, <1>10, <1>11, <1>12, <1>13 DEF IInv

\* A taker that is destroyed: a FOK order turned away, a residual cancelled.
LEMMA DropTakerIInv ==
  ASSUME IInv, pc # "idle", Forget(taker), Done,
         order' \in [Slot -> Order], order'[taker] = DefaultOrder,
         \A x \in Slot : x # taker => order'[x] = order[x],
         book' = book, id_counter' = id_counter, clock' = clock, tick' \in Tick
  PROVE  IInv'
<1>1. /\ taker \in Slot /\ taker \in Allocated /\ order \in [Slot -> Order]
      /\ pc' = "idle" /\ taker' = Null /\ Null \notin Slot
  BY OrderBookAssumption DEF IInv, TypeOK, TakerIsSound, Allocated, Done, Null, Slot
<1>3. /\ order' \in [Slot -> Order] /\ order'[taker] = DefaultOrder
      /\ \A x \in Slot : x # taker => order'[x] = order[x]
  OBVIOUS
<1>4. /\ FreeIsSound' /\ MapIsSound' /\ Allocated' = Allocated \ {taker}
      /\ free' \in Seq(Slot)
      /\ DOMAIN order_map' \subseteq 1 .. id_counter
      /\ order_map' \in [DOMAIN order_map' -> Slot]
  BY <1>1, <1>3, ForgetIsSound DEF IInv
<1>5. TypeOK'
  BY <1>1, <1>3, <1>4 DEF IInv, TypeOK
<1>6. BookIsSound'
  <2>1. BookIsSound
    BY DEF IInv
  <2>2. ASSUME NEW s \in Side, NEW p, NEW m, In(book, m, s, p)
        PROVE  /\ m \in Slot /\ m # Null /\ order'[m] = order[m]
               /\ Fits(order'[m], s, p) /\ order'[m].rank <= clock
    <3>1. m \in Slot /\ m # taker /\ Fits(order[m], s, p) /\ order[m].rank <= clock
      BY <2>1, <2>2, QueuedIsOther
    <3>. QED  BY <3>1, <1>1, <1>3
  <2>3. GoodBook(book', order')
    <3>1. GoodBook(book, order)
      BY <2>1 DEF BookIsSound
    <3>2. \A s \in Side : \A p, m : In(book, m, s, p) =>
            Fits(order'[m], s, p) /\ order'[m].rank = order[m].rank
      BY <2>2
    <3>3. GoodBook(book, order')
      BY <3>1, <3>2, GoodBookFrame
    <3>. QED  BY <3>3
  <2>4. \A s \in Side, p \in Prices, m \in Slot :
          In(book', m, s, p) => m # taker' /\ order'[m].rank <= clock'
    BY <2>2, <1>1
  <2>5. ASSUME NEW m \in Allocated' \ {taker'}, IsActive(order'[m])
        PROVE  In(book', m, order'[m].side, order'[m].price)
    <3>1. m \in Allocated \ {taker} /\ m \in Slot
      BY <1>4 DEF Allocated
    <3>. QED  BY <3>1, <2>1, <2>5, <1>3 DEF BookIsSound
  <2>. QED  BY <2>3, <2>4, <2>5 DEF BookIsSound
<1>7. TakerIsSound' /\ NoCross'
  BY <1>1 DEF TakerIsSound, IInv, NoCross
<1>. QED
  BY <1>4, <1>5, <1>6, <1>7 DEF IInv

\* A step that changes at most pc and the tick: the matching begins, or ends
\* with the taker filled.
LEMMA QuietIInv ==
  ASSUME IInv, tick' \in Tick,
         UNCHANGED <<free, order, order_map, book, id_counter, clock>>,
         \/ pc = "match_order" /\ pc' = "matching" /\ taker' = taker
         \/ pc = "matching" /\ ~IsActive(order[taker]) /\ Done
  PROVE  IInv'
<1>1. TypeOK'
  BY DEF IInv, TypeOK, Done
<1>2. FreeIsSound' /\ MapIsSound' /\ NoCross'
  BY DEF IInv, FreeIsSound, MapIsSound, NoCross, Allocated
<1>3. Allocated' = Allocated
  BY DEF Allocated
<1>4. \A m \in Slot : m # Null
  BY OrderBookAssumption DEF Slot, Null
<1>5. BookIsSound'
  <2>1. GoodBook(book', order')
    BY DEF IInv, BookIsSound
  <2>2. \A s \in Side, p \in Prices, m \in Slot :
          In(book', m, s, p) => m # taker' /\ order'[m].rank <= clock'
    BY <1>4 DEF IInv, BookIsSound, Done
  <2>3. \A m \in Allocated' \ {taker'} :
          IsActive(order'[m]) => In(book', m, order'[m].side, order'[m].price)
    BY <1>3 DEF IInv, BookIsSound, Done
  <2>. QED  BY <2>1, <2>2, <2>3 DEF BookIsSound
<1>6. TakerIsSound'
  BY DEF IInv, TakerIsSound, Done
<1>. QED
  BY <1>1, <1>2, <1>5, <1>6 DEF IInv

\* When fewer prices are left, or the same, the book stays uncrossed.
LEMMA FewerPricesNoCross ==
  ASSUME NoCross, \A s \in Side : DOMAIN book'[s] \subseteq DOMAIN book[s]
  PROVE  NoCross'
<1>1. "BID" \in Side /\ "ASK" \in Side
  BY DEF Side
<1>. QED
  BY <1>1 DEF NoCross

\* A matching loop that stopped short of the taker left no price it meets.
LEMMA StoppedAtItsPrice ==
  ASSUME TypeOK, taker \in Slot, IsActive(order[taker]), order[taker].type = "LIMIT", ~CanMatch
  PROVE  \A q \in DOMAIN book[Opposite(order[taker].side)] :
           IF order[taker].side = "BID" THEN order[taker].price < q ELSE q < order[taker].price
<1>. DEFINE t == order[taker]
            s == Opposite(t.side)
<1>1. t \in Order /\ t.side \in Side /\ t.price \in Int /\ s \in Side
  BY DEF TypeOK, Order, Side, Opposite
<1>2. DOMAIN book[s] \subseteq Prices /\ \A q \in DOMAIN book[s] : q \in Int
  <2>1. DOMAIN book[s] \subseteq Prices
    BY <1>1 DEF TypeOK
  <2>2. \A p \in Prices : p \in Int
    BY OrderBookAssumption
  <2>. HIDE DEF s
  <2>. QED  BY <2>1, <2>2
<1>3. SUFFICES ASSUME NEW q \in DOMAIN book[s]
      PROVE  IF t.side = "BID" THEN t.price < q ELSE q < t.price
  OBVIOUS
<1>. DEFINE px == BestPrice(book, s)
<1>4. px \in DOMAIN book[s] /\ ~Better(s, q, px)
  <2>. HIDE DEF s
  <2>. QED  BY <1>1, <1>2, BestPriceIsBest
<1>5. ~Crosses(t, px)
  BY DEF CanMatch
<1>. HIDE DEF px
<1>6. px \in Int /\ q \in Int
  BY <1>2, <1>4
<1>. QED
  BY <1>1, <1>4, <1>5, <1>6 DEF Crosses, Better, Opposite, Side

\* What is left of a LIMIT order rests.
LEMMA RestResidualIInv ==
  ASSUME IInv, RestResidual
  PROVE  IInv'
<1>. DEFINE t  == order[taker]
            t2 == [t EXCEPT !.rank = clock + 1]
<1>1. /\ pc = "matching" /\ ~CanMatch /\ IsActive(t) /\ t.type = "LIMIT"
      /\ pc' = "idle" /\ taker' = Null /\ clock' = clock + 1
      /\ order' = [order EXCEPT ![taker].rank = clock + 1]
      /\ book' = RestOrder(book, taker, t) /\ tick' = TopOfBook(book')
      /\ free' = free /\ order_map' = order_map /\ id_counter' = id_counter
  BY DEF RestResidual, Done, Publish
<1>2. /\ taker \in Slot /\ order \in [Slot -> Order] /\ t \in Order /\ clock \in Nat
      /\ t.id # 0 /\ t.price \in Prices /\ t.filled_qty < t.quantity
      /\ Null \notin Slot
  BY <1>1, OrderBookAssumption DEF IInv, TypeOK, TakerIsSound, Slot, Null
<1>3. /\ t2 \in Order /\ t2.rank = clock + 1 /\ t2.id = t.id /\ t2.side = t.side
      /\ t2.price = t.price /\ t2.type = t.type /\ t2.status = t.status
      /\ t2.filled_qty = t.filled_qty /\ t2.quantity = t.quantity
  BY <1>2 DEF Order
<1>4. /\ order' \in [Slot -> Order] /\ order'[taker] = t2
      /\ \A x \in Slot : x # taker => order'[x] = order[x]
  <2>1. order' = [order EXCEPT ![taker] = t2]
    BY <1>1
  <2>. HIDE DEF t2
  <2>. QED  BY <2>1, <1>2, <1>3
<1>. HIDE DEF t2
<1>5. Fits(order'[taker], t.side, t.price)
  BY <1>1, <1>2, <1>3, <1>4 DEF Fits, IsActive
<1>6. \A s \in Side : \A x, p : In(book, x, s, p) =>
        /\ x \in Slot /\ x # taker /\ order[x].rank <= clock /\ order[x].rank < order'[taker].rank
  <2>1. ASSUME NEW s \in Side, NEW x, NEW p, In(book, x, s, p)
        PROVE  x \in Slot /\ x # taker /\ order[x].rank <= clock
    BY <2>1, QueuedIsOther DEF IInv
  <2>2. order'[taker].rank = clock + 1 /\ \A x \in Slot : order[x].rank \in Nat
    BY <1>2, <1>3, <1>4 DEF Order
  <2>. QED  BY <2>1, <2>2, <1>2
<1>7. GoodBook(book, order)
  BY DEF IInv, BookIsSound
<1>8. /\ GoodBook(book', order')
      /\ DOMAIN book'[t.side] = DOMAIN book[t.side] \cup {t.price}
      /\ \A s \in Side : s # t.side => DOMAIN book'[s] = DOMAIN book[s]
      /\ \A s \in Side : \A x, p : In(book', x, s, p) <=>
           In(book, x, s, p) \/ (x = taker /\ s = t.side /\ p = t.price)
  <2>. DEFINE b2 == RestOrder(book, taker, t)
  <2>1. /\ GoodBook(b2, order')
        /\ DOMAIN b2[t.side] = DOMAIN book[t.side] \cup {t.price}
        /\ \A s \in Side : s # t.side => DOMAIN b2[s] = DOMAIN book[s]
        /\ \A s \in Side : \A x, p : In(b2, x, s, p) <=>
             In(book, x, s, p) \/ (x = taker /\ s = t.side /\ p = t.price)
    <3>. HIDE DEF t
    <3>. QED  BY <1>2, <1>4, <1>5, <1>6, <1>7, RestOrderIsGood
  <2>. QED  BY <1>1, <2>1
<1>9. Allocated' = Allocated
  BY <1>2, <1>3, <1>4 DEF Allocated
<1>10. TypeOK'
  <2>1. /\ book' = [s \in Side |-> book'[s]] /\ tick' \in Tick
        /\ \A s \in Side : DOMAIN book'[s] \subseteq Prices
                           /\ book'[s] \in [DOMAIN book'[s] -> PriceLevel]
    BY <1>1, <1>8, GoodBookIsTyped
  <2>. QED  BY <1>1, <1>2, <1>4, <2>1 DEF IInv, TypeOK
<1>11. FreeIsSound' /\ MapIsSound'
  <2>1. \A x \in Slot : order'[x].id = order[x].id
    BY <1>2, <1>3, <1>4
  <2>2. \A id \in DOMAIN order_map : order_map[id] \in Slot
    BY DEF IInv, TypeOK
  <2>3. Allocated \subseteq Slot
    BY DEF Allocated
  <2>4. FreeIsSound'
    BY <1>1, <1>9 DEF IInv, FreeIsSound
  <2>5. MapIsSound'
    BY <1>1, <1>9, <2>1, <2>2, <2>3 DEF IInv, MapIsSound
  <2>. QED  BY <2>4, <2>5
<1>12. BookIsSound'
  <2>1. ASSUME NEW s \in Side, NEW p \in Prices, NEW m \in Slot, In(book', m, s, p)
        PROVE  m # taker' /\ order'[m].rank <= clock'
    <3>1. CASE m = taker
      BY <3>1, <1>1, <1>2, <1>3, <1>4
    <3>2. CASE m # taker
      <4>1. In(book, m, s, p)
        BY <3>2, <2>1, <1>8
      <4>2. order'[m] = order[m] /\ order[m].rank <= clock /\ order[m].rank \in Nat
        BY <4>1, <3>2, <1>4, <1>6, <1>2 DEF Order
      <4>. QED  BY <4>2, <1>1, <1>2
    <3>. QED  BY <3>1, <3>2
  <2>2. ASSUME NEW m \in Allocated' \ {taker'}, IsActive(order'[m])
        PROVE  In(book', m, order'[m].side, order'[m].price)
    <3>1. m \in Slot /\ m \in Allocated
      BY <1>9 DEF Allocated
    <3>2. CASE m = taker
      <4>1. t.side \in Side
        BY <1>2 DEF Order
      <4>. QED  BY <4>1, <3>2, <1>3, <1>4, <1>8
    <3>3. CASE m # taker
      <4>1. order'[m] = order[m] /\ order[m].side \in Side
        BY <3>1, <3>3, <1>2, <1>4 DEF Order
      <4>2. In(book, m, order[m].side, order[m].price)
        BY <4>1, <3>1, <3>3, <2>2 DEF IInv, BookIsSound
      <4>. QED  BY <4>1, <4>2, <1>8
    <3>. QED  BY <3>2, <3>3
  <2>. QED  BY <2>1, <2>2, <1>8 DEF BookIsSound
<1>13. TakerIsSound'
  BY <1>1 DEF TakerIsSound
<1>14. NoCross'
  <2>1. \A q \in DOMAIN book[Opposite(t.side)] :
          IF t.side = "BID" THEN t.price < q ELSE q < t.price
    BY <1>1, <1>2, StoppedAtItsPrice DEF IInv
  <2>2. NoCross /\ t.side \in Side
    BY <1>2 DEF IInv, Order
  <2>. HIDE DEF t
  <2>3. CASE t.side = "BID"
    <3>1. DOMAIN book'["BID"] = DOMAIN book["BID"] \cup {t.price}
          /\ DOMAIN book'["ASK"] = DOMAIN book["ASK"]
      BY <2>3, <1>8 DEF Side
    <3>. QED  BY <3>1, <2>1, <2>2, <2>3 DEF NoCross, Opposite
  <2>4. CASE t.side = "ASK"
    <3>1. DOMAIN book'["ASK"] = DOMAIN book["ASK"] \cup {t.price}
          /\ DOMAIN book'["BID"] = DOMAIN book["BID"]
      BY <2>4, <1>8 DEF Side
    <3>. QED  BY <3>1, <2>1, <2>2, <2>4 DEF NoCross, Opposite
  <2>. QED  BY <2>2, <2>3, <2>4 DEF Side
<1>. QED
  BY <1>10, <1>11, <1>12, <1>13, <1>14 DEF IInv

\* What cancel_order and amend_order find behind a known id is queued in the
\* level they go to.
LEMMA KnownIsQueued ==
  ASSUME IInv, pc = "idle", NEW id, Known(id)
  PROVE  LET m == order_map[id]
             o == order[m]
         IN  /\ m \in Slot /\ m \in Allocated /\ m # Null /\ taker = Null
             /\ o \in Order /\ o.side \in Side /\ o.price \in Prices
             /\ Fits(o, o.side, o.price) /\ In(book, m, o.side, o.price)
<1>. DEFINE m == order_map[id]
            o == order[m]
<1>1. m \in Slot /\ o \in Order /\ IsActive(o) /\ id # 0 /\ o.id = id /\ taker = Null
  BY DEF Known, IInv, TypeOK, MapIsSound
<1>2. m \in Allocated /\ m # Null /\ o.side \in Side
  BY <1>1, OrderBookAssumption DEF Allocated, Slot, Null, Order
<1>3. In(book, m, o.side, o.price)
  BY <1>1, <1>2 DEF IInv, BookIsSound
<1>. HIDE DEF m
<1>4. o.price \in Prices /\ Fits(o, o.side, o.price)
  BY <1>2, <1>3, QueuedIsOther DEF IInv
<1>. QED
  BY <1>1, <1>2, <1>3, <1>4 DEF m

\* Orders that keep their ids leave the pool and the lookup table sound.
LEMMA KeptIsSound ==
  ASSUME TypeOK, FreeIsSound, MapIsSound, free' = free, order_map' = order_map,
         \A x \in Slot : order'[x].id = order[x].id
  PROVE  FreeIsSound' /\ MapIsSound' /\ Allocated' = Allocated
<1>1. Allocated' = Allocated /\ Allocated \subseteq Slot
  BY DEF Allocated
<1>2. \A id \in DOMAIN order_map : order_map[id] \in Slot
  BY DEF TypeOK
<1>3. FreeIsSound'
  BY <1>1 DEF FreeIsSound
<1>4. MapIsSound'
  BY <1>1, <1>2 DEF MapIsSound
<1>. QED
  BY <1>1, <1>3, <1>4

\* A step within a call, or a whole call, after which the queues hold no order
\* that they did not hold before.
LEMMA NothingJoinsIInv ==
  ASSUME IInv, FreeIsSound', MapIsSound', TakerIsSound',
         order' \in [Slot -> Order], free' \in Seq(Slot),
         DOMAIN order_map' \subseteq 1 .. id_counter,
         order_map' \in [DOMAIN order_map' -> Slot],
         GoodBook(book', order), \A s \in Side : DOMAIN book'[s] \subseteq DOMAIN book[s],
         \A s \in Side : \A x, p : In(book', x, s, p) =>
           In(book, x, s, p) /\ Fits(order'[x], s, p) /\ order'[x].rank = order[x].rank,
         \A x \in Allocated' \ {taker} :
           IsActive(order'[x]) => In(book', x, order'[x].side, order'[x].price),
         id_counter' = id_counter, pc' = pc, taker' = taker, clock' = clock,
         tick' \in {tick, TopOfBook(book')}
  PROVE  IInv'
<1>1. GoodBook(book', order')
  BY GoodBookFrame
<1>2. TypeOK'
  <2>1. /\ book' = [s \in Side |-> book'[s]] /\ TopOfBook(book') \in Tick
        /\ \A s \in Side : DOMAIN book'[s] \subseteq Prices
                           /\ book'[s] \in [DOMAIN book'[s] -> PriceLevel]
    BY <1>1, GoodBookIsTyped
  <2>. QED  BY <2>1 DEF IInv, TypeOK
<1>3. ASSUME NEW s \in Side, NEW p \in Prices, NEW x \in Slot, In(book', x, s, p)
      PROVE  x # taker' /\ order'[x].rank <= clock'
  BY <1>3, QueuedIsOther DEF IInv
<1>4. BookIsSound'
  BY <1>1, <1>3 DEF BookIsSound
<1>5. NoCross'
  BY FewerPricesNoCross DEF IInv
<1>. QED
  BY <1>2, <1>4, <1>5 DEF IInv

\* cancel_order.
LEMMA CancelOrderIInv ==
  ASSUME IInv, NEW id, CancelOrder(id)
  PROVE  IInv'
<1>. DEFINE m == order_map[id]
            o == order[m]
<1>1. /\ pc = "idle" /\ Known(id)
      /\ book' = RemoveFromBook(book, m, o) /\ Forget(m)
      /\ order' = [order EXCEPT ![m] = DefaultOrder]
      /\ id_counter' = id_counter /\ pc' = pc /\ taker' = taker /\ clock' = clock
      /\ tick' = TopOfBook(book')
  BY DEF CancelOrder, Publish
<1>2. /\ m \in Slot /\ m \in Allocated /\ m # Null /\ taker = Null
      /\ o \in Order /\ In(book, m, o.side, o.price)
      /\ order \in [Slot -> Order]
  BY <1>1, KnownIsQueued DEF IInv, TypeOK
<1>. HIDE DEF m
<1>3. /\ order' \in [Slot -> Order] /\ order'[m] = DefaultOrder
      /\ \A x \in Slot : x # m => order'[x] = order[x]
  <2>1. 0 \in Quantity
    BY OrderBookAssumption DEF Quantity
  <2>2. DefaultOrder \in Order
    BY <2>1 DEF DefaultOrder, Order, Side, OrderType, OrderStatus
  <2>. QED  BY <1>1, <1>2, <2>2
<1>4. /\ FreeIsSound' /\ MapIsSound' /\ Allocated' = Allocated \ {m}
      /\ free' \in Seq(Slot)
      /\ DOMAIN order_map' \subseteq 1 .. id_counter
      /\ order_map' \in [DOMAIN order_map' -> Slot]
  BY <1>1, <1>2, <1>3, ForgetIsSound DEF IInv
<1>5. GoodBook(book, order)
  BY DEF IInv, BookIsSound
<1>6. /\ GoodBook(book', order)
      /\ \A s \in Side : DOMAIN book'[s] \subseteq DOMAIN book[s]
      /\ \A s \in Side : \A x, p : In(book', x, s, p) <=> In(book, x, s, p) /\ x # m
  <2>. DEFINE b2 == RemoveFromBook(book, m, o)
  <2>1. /\ GoodBook(b2, order)
        /\ \A s \in Side : DOMAIN b2[s] \subseteq DOMAIN book[s]
        /\ \A s \in Side : \A x, p : In(b2, x, s, p) <=> In(book, x, s, p) /\ x # m
    <3>. HIDE DEF o
    <3>. QED  BY <1>2, <1>5, RemoveFromBookIsGood
  <2>. QED  BY <1>1, <2>1
<1>7. ASSUME NEW s \in Side, NEW x, NEW p, In(book', x, s, p)
      PROVE  /\ In(book, x, s, p) /\ Fits(order'[x], s, p)
             /\ order'[x].rank = order[x].rank
  BY <1>3, <1>6, <1>7, QueuedIsOther DEF IInv
<1>8. ASSUME NEW x \in Allocated' \ {taker}, IsActive(order'[x])
      PROVE  In(book', x, order'[x].side, order'[x].price)
  <2>1. x \in Allocated \ {taker} /\ x # m /\ x \in Slot
    BY <1>4 DEF Allocated
  <2>2. order'[x] = order[x] /\ order[x].side \in Side
    BY <2>1, <1>2, <1>3 DEF Order
  <2>3. In(book, x, order[x].side, order[x].price)
    BY <2>1, <2>2, <1>8 DEF IInv, BookIsSound
  <2>. QED  BY <2>1, <2>2, <2>3, <1>6
<1>9. TakerIsSound'
  BY <1>1 DEF TakerIsSound
<1>. QED
  BY <1>1, <1>3, <1>4, <1>6, <1>7, <1>8, <1>9, NothingJoinsIInv

\* amend_order to a larger quantity.
LEMMA AmendUpIInv ==
  ASSUME IInv, NEW id, NEW quantity \in Quantities, AmendUp(id, quantity)
  PROVE  IInv'
<1>. DEFINE m  == order_map[id]
            o  == order[m]
            o2 == [o EXCEPT !.quantity = quantity]
            n  == clock + 1
            o3 == [o EXCEPT !.quantity = quantity, !.rank = n]
            b1 == RemoveFromBook(book, m, o)
<1>1. /\ pc = "idle" /\ Known(id) /\ quantity > o.filled_qty
      /\ book' = RestOrder(b1, m, o2)
      /\ order' = [order EXCEPT ![m].quantity = quantity, ![m].rank = clock + 1]
      /\ free' = free /\ order_map' = order_map /\ clock' = clock + 1
      /\ id_counter' = id_counter /\ pc' = pc /\ taker' = taker
      /\ tick' = TopOfBook(book')
  BY DEF AmendUp, Publish
<1>2. /\ m \in Slot /\ m \in Allocated /\ m # Null /\ taker = Null
      /\ o \in Order /\ o.side \in Side /\ o.price \in Prices
      /\ Fits(o, o.side, o.price) /\ In(book, m, o.side, o.price)
      /\ order \in [Slot -> Order] /\ clock \in Nat
  BY <1>1, KnownIsQueued DEF IInv, TypeOK
<1>3. quantity \in Quantity /\ quantity \in Int /\ o.filled_qty \in Int
  BY <1>2, OrderBookAssumption DEF Quantity, Order
<1>. HIDE DEF m
<1>4. /\ o2 \in Order /\ o2.side = o.side /\ o2.price = o.price
      /\ o3 \in Order /\ o3.rank = clock + 1 /\ o3.id = o.id
      /\ o3.side = o.side /\ o3.price = o.price
      /\ Fits(o3, o.side, o.price)
  <2>1. /\ o2 \in Order /\ o2.side = o.side /\ o2.price = o.price
    <3>. HIDE DEF o
    <3>. QED  BY <1>2, <1>3 DEF Order
  <2>2. /\ o3 \in Order /\ o3.rank = n /\ o3.id = o.id
        /\ o3.side = o.side /\ o3.price = o.price /\ o3.type = o.type
        /\ o3.status = o.status /\ o3.filled_qty = o.filled_qty /\ o3.quantity = quantity
    <3>1. n \in Nat
      BY <1>2
    <3>. HIDE DEF o, n
    <3>. QED  BY <1>2, <1>3, <3>1 DEF Order
  <2>. HIDE DEF o, o2, o3
  <2>. QED  BY <1>1, <1>2, <1>3, <2>1, <2>2 DEF Fits, IsActive
<1>5. /\ order' \in [Slot -> Order] /\ order'[m] = o3
      /\ \A x \in Slot : x # m => order'[x] = order[x]
  <2>1. order' = [order EXCEPT ![m] = o3]
    BY <1>1, <1>2
  <2>. HIDE DEF o3
  <2>. QED  BY <1>2, <1>4, <2>1
<1>. HIDE DEF o2, o3
<1>6. /\ FreeIsSound' /\ MapIsSound' /\ Allocated' = Allocated
  <2>1. \A x \in Slot : order'[x].id = order[x].id
    BY <1>4, <1>5
  <2>. QED  BY <1>1, <2>1, KeptIsSound DEF IInv
<1>7. GoodBook(book, order)
  BY DEF IInv, BookIsSound
<1>8. /\ GoodBook(b1, order)
      /\ \A s \in Side : DOMAIN b1[s] \subseteq DOMAIN book[s]
      /\ \A s \in Side : \A x, p : In(b1, x, s, p) <=> In(book, x, s, p) /\ x # m
  <2>. HIDE DEF o
  <2>. QED  BY <1>2, <1>7, RemoveFromBookIsGood
<1>. HIDE DEF b1
<1>9. ASSUME NEW s \in Side, NEW x, NEW p, In(book, x, s, p)
      PROVE  x \in Slot /\ x # taker /\ order[x].rank <= clock /\ order[x].rank < clock + 1
  <2>1. x \in Slot /\ x # taker /\ order[x].rank <= clock
    BY <1>9, QueuedIsOther DEF IInv
  <2>2. order[x].rank \in Nat
    BY <1>2, <2>1 DEF Order
  <2>. QED  BY <2>1, <2>2, <1>2
<1>10. /\ GoodBook(book', order')
       /\ DOMAIN book'[o.side] = DOMAIN b1[o.side] \cup {o.price}
       /\ \A s \in Side : s # o.side => DOMAIN book'[s] = DOMAIN b1[s]
       /\ \A s \in Side : \A x, p : In(book', x, s, p) <=>
            In(b1, x, s, p) \/ (x = m /\ s = o.side /\ p = o.price)
  <2>1. \A s \in Side : \A x, p : In(b1, x, s, p) => x # m /\ order[x].rank < order'[m].rank
    BY <1>4, <1>5, <1>8, <1>9
  <2>2. /\ m \in Slot /\ o2 \in Order /\ o2.price \in Prices
        /\ GoodBook(b1, order) /\ order \in [Slot -> Order] /\ order' \in [Slot -> Order]
        /\ \A x \in Slot : x # m => order'[x] = order[x]
        /\ Fits(order'[m], o2.side, o2.price)
    BY <1>2, <1>4, <1>5, <1>8
  <2>. DEFINE b2 == RestOrder(b1, m, o2)
  <2>. HIDE DEF o
  <2>3. /\ GoodBook(b2, order')
        /\ DOMAIN b2[o2.side] = DOMAIN b1[o2.side] \cup {o2.price}
        /\ \A s \in Side : s # o2.side => DOMAIN b2[s] = DOMAIN b1[s]
        /\ \A s \in Side : \A x, p : In(b2, x, s, p) <=>
             In(b1, x, s, p) \/ (x = m /\ s = o2.side /\ p = o2.price)
    BY <2>1, <2>2, RestOrderIsGood
  <2>. QED  BY <1>1, <1>4, <2>3
<1>11. TypeOK'
  <2>1. /\ book' = [s \in Side |-> book'[s]] /\ tick' \in Tick
        /\ \A s \in Side : DOMAIN book'[s] \subseteq Prices
                           /\ book'[s] \in [DOMAIN book'[s] -> PriceLevel]
    BY <1>1, <1>10, GoodBookIsTyped
  <2>. QED  BY <1>1, <1>2, <1>5, <2>1 DEF IInv, TypeOK
<1>12. BookIsSound'
  <2>1. ASSUME NEW s \in Side, NEW p \in Prices, NEW x \in Slot, In(book', x, s, p)
        PROVE  x # taker' /\ order'[x].rank <= clock'
    <3>1. CASE x = m
      BY <3>1, <1>1, <1>2, <1>4, <1>5
    <3>2. CASE x # m
      <4>1. In(book, x, s, p)
        BY <3>2, <2>1, <1>8, <1>10
      <4>2. /\ x # taker /\ order'[x] = order[x] /\ order[x].rank <= clock
            /\ order[x].rank \in Nat
        BY <4>1, <3>2, <1>2, <1>5, <1>9 DEF Order
      <4>. QED  BY <4>2, <1>1, <1>2
    <3>. QED  BY <3>1, <3>2
  <2>2. ASSUME NEW x \in Allocated' \ {taker'}, IsActive(order'[x])
        PROVE  In(book', x, order'[x].side, order'[x].price)
    <3>1. x \in Slot /\ x \in Allocated /\ x # taker
      BY <1>1, <1>6 DEF Allocated
    <3>2. CASE x = m
      BY <3>2, <1>2, <1>4, <1>5, <1>10
    <3>3. CASE x # m
      <4>1. order'[x] = order[x] /\ order[x].side \in Side
        BY <3>1, <3>3, <1>2, <1>5 DEF Order
      <4>2. In(book, x, order[x].side, order[x].price)
        BY <4>1, <3>1, <2>2 DEF IInv, BookIsSound
      <4>. QED  BY <4>1, <4>2, <3>3, <1>8, <1>10
    <3>. QED  BY <3>2, <3>3
  <2>. QED  BY <2>1, <2>2, <1>10 DEF BookIsSound
<1>13. TakerIsSound'
  BY <1>1 DEF TakerIsSound
<1>14. NoCross'
  <2>1. o.price \in DOMAIN book[o.side]
    BY <1>2 DEF In
  <2>2. \A s \in Side : DOMAIN book'[s] \subseteq DOMAIN book[s]
    BY <1>2, <1>8, <1>10, <2>1
  <2>. QED  BY <2>2, FewerPricesNoCross DEF IInv
<1>. QED
  BY <1>6, <1>11, <1>12, <1>13, <1>14 DEF IInv

\* amend_order to a quantity that is not larger.
LEMMA AmendDownIInv ==
  ASSUME IInv, NEW id, NEW quantity \in Quantities, AmendDown(id, quantity)
  PROVE  IInv'
<1>. DEFINE m  == order_map[id]
            o  == order[m]
            o2 == [o EXCEPT !.quantity = quantity]
            s  == o.side
            p  == o.price
            l  == TakeQty(book[s][p], o.quantity - quantity)
<1>1. /\ pc = "idle" /\ Known(id) /\ quantity > o.filled_qty
      /\ book' = IF p \in DOMAIN book[s] THEN SetLevel(book, s, p, l) ELSE book
      /\ order' = [order EXCEPT ![m].quantity = quantity]
      /\ free' = free /\ order_map' = order_map /\ clock' = clock
      /\ id_counter' = id_counter /\ pc' = pc /\ taker' = taker
      /\ tick' = TopOfBook(book')
  BY DEF AmendDown, Publish
<1>2. /\ m \in Slot /\ m \in Allocated /\ m # Null /\ taker = Null
      /\ o \in Order /\ s \in Side /\ p \in Prices
      /\ Fits(o, s, p) /\ In(book, m, s, p)
      /\ order \in [Slot -> Order]
  BY <1>1, KnownIsQueued DEF IInv, TypeOK
<1>3. quantity \in Quantity /\ quantity \in Int /\ o.filled_qty \in Int /\ o.quantity \in Int
  BY <1>2, OrderBookAssumption DEF Quantity, Order
<1>. HIDE DEF m
<1>4. /\ o2 \in Order /\ o2.id = o.id /\ o2.rank = o.rank /\ Fits(o2, s, p)
      /\ o2.side = s /\ o2.price = p
  <2>1. /\ o2 \in Order /\ o2.id = o.id /\ o2.rank = o.rank /\ o2.side = o.side
        /\ o2.price = o.price /\ o2.type = o.type /\ o2.status = o.status
        /\ o2.filled_qty = o.filled_qty /\ o2.quantity = quantity
    <3>. HIDE DEF o
    <3>. QED  BY <1>2, <1>3 DEF Order
  <2>. HIDE DEF o, o2
  <2>. QED  BY <1>1, <1>2, <1>3, <2>1 DEF Fits, IsActive, s, p
<1>5. /\ order' \in [Slot -> Order] /\ order'[m] = o2
      /\ \A x \in Slot : x # m => order'[x] = order[x]
  <2>1. order' = [order EXCEPT ![m] = o2]
    BY <1>1, <1>2
  <2>. HIDE DEF o2
  <2>. QED  BY <1>2, <1>4, <2>1
<1>. HIDE DEF o2
<1>6. /\ FreeIsSound' /\ MapIsSound' /\ Allocated' = Allocated
  <2>1. \A x \in Slot : order'[x].id = order[x].id
    BY <1>4, <1>5
  <2>. QED  BY <1>1, <2>1, KeptIsSound DEF IInv
<1>7. GoodBook(book, order)
  BY DEF IInv, BookIsSound
<1>8. /\ p \in DOMAIN book[s] /\ book' = SetLevel(book, s, p, l)
      /\ GoodLevel(order, s, p, l)
      /\ \A x : x \in ToSet(l.queue) <=> In(book, x, s, p)
  <2>1. p \in DOMAIN book[s]
    BY <1>2 DEF In
  <2>2. o.quantity - quantity \in Int
    BY <1>3
  <2>3. GoodLevel(order, s, p, book[s][p])
    BY <1>2, <1>7, <2>1 DEF GoodBook
  <2>4. GoodLevel(order, s, p, l) /\ l.queue = book[s][p].queue
    <3>. HIDE DEF o, s, p
    <3>. QED  BY <2>2, <2>3, TakeQtyIsGood
  <2>. HIDE DEF l
  <2>. QED  BY <1>1, <2>1, <2>4 DEF In
<1>. HIDE DEF l
<1>9. /\ GoodBook(book', order)
      /\ \A t \in Side : DOMAIN book'[t] = DOMAIN book[t]
      /\ \A t \in Side : \A x, q : In(book', x, t, q) <=> In(book, x, t, q)
  <2>. HIDE DEF s, p
  <2>. DEFINE b2 == SetLevel(book, s, p, l)
  <2>1. /\ GoodBook(b2, order)
        /\ DOMAIN b2[s] = DOMAIN book[s] \cup {p}
        /\ \A t \in Side : t # s => DOMAIN b2[t] = DOMAIN book[t]
        /\ \A x, q : In(b2, x, s, q) <=> IF q = p THEN x \in ToSet(l.queue) ELSE In(book, x, s, q)
        /\ \A t \in Side : t # s => \A x, q : In(b2, x, t, q) <=> In(book, x, t, q)
    BY <1>2, <1>7, <1>8, SetLevelIsGood
  <2>2. book' = b2
    BY <1>8
  <2>. HIDE DEF b2
  <2>3. \A t \in Side : DOMAIN book'[t] = DOMAIN book[t]
    BY <1>8, <2>1, <2>2
  <2>4. \A t \in Side : \A x, q : In(book', x, t, q) <=> In(book, x, t, q)
    BY <1>8, <2>1, <2>2
  <2>. QED  BY <2>1, <2>2, <2>3, <2>4
<1>10. ASSUME NEW t \in Side, NEW x, NEW q, In(book, x, t, q)
       PROVE  /\ x \in Slot /\ x # taker /\ Fits(order'[x], t, q)
              /\ order'[x].rank = order[x].rank /\ order[x].rank <= clock
  <2>1. x \in Slot /\ x # taker /\ Fits(order[x], t, q) /\ order[x].rank <= clock
    BY <1>10, QueuedIsOther DEF IInv
  <2>2. CASE x = m
    <3>1. t = s /\ q = p
      BY <2>1, <2>2 DEF Fits
    <3>. QED  BY <2>1, <2>2, <3>1, <1>4, <1>5
  <2>3. CASE x # m
    BY <2>1, <2>3, <1>5
  <2>. QED  BY <2>2, <2>3
<1>11. \A t \in Side : \A x, q : In(book', x, t, q) =>
         In(book, x, t, q) /\ Fits(order'[x], t, q) /\ order'[x].rank = order[x].rank
  BY <1>9, <1>10
<1>12. ASSUME NEW x \in Allocated' \ {taker}, IsActive(order'[x])
       PROVE  In(book', x, order'[x].side, order'[x].price)
  <2>1. x \in Slot /\ x \in Allocated /\ x # taker
    BY <1>6 DEF Allocated
  <2>2. CASE x = m
    BY <2>2, <1>2, <1>4, <1>5, <1>9
  <2>3. CASE x # m
    <3>1. order'[x] = order[x] /\ order[x].side \in Side
      BY <2>1, <2>3, <1>2, <1>5 DEF Order
    <3>2. In(book, x, order[x].side, order[x].price)
      BY <3>1, <2>1, <1>12 DEF IInv, BookIsSound
    <3>. QED  BY <3>1, <3>2, <1>9
  <2>. QED  BY <2>2, <2>3
<1>13. TakerIsSound'
  BY <1>1 DEF TakerIsSound
<1>14. /\ free' \in Seq(Slot) /\ DOMAIN order_map' \subseteq 1 .. id_counter
       /\ order_map' \in [DOMAIN order_map' -> Slot]
  BY <1>1 DEF IInv, TypeOK
<1>. QED
  BY <1>1, <1>5, <1>6, <1>9, <1>11, <1>12, <1>13, <1>14, NothingJoinsIInv

\* One trade: the maker is the head of the best level, it is not the taker, and
\* it leaves the book, the lookup table and its slot exactly when it is filled.
LEMMA TradeIInv ==
  ASSUME IInv, Trade
  PROVE  IInv'
<1>. DEFINE t     == order[taker]
            s     == Opposite(t.side)
            px    == BestPrice(book, s)
            maker == Head(book[s][px].queue)
            m     == order[maker]
            qty   == IF Remaining(t) < Remaining(m) THEN Remaining(t) ELSE Remaining(m)
            l     == TakeQty(book[s][px], qty)
            l2    == Unlink(l, maker, Executed(m, qty))
<1>1. /\ pc = "matching" /\ IsActive(t) /\ DOMAIN book[s] # {}
      /\ IF qty = Remaining(m)
         THEN /\ book' = SetOrErase(book, s, px, l2)
              /\ order' = [order EXCEPT ![taker] = Executed(t, qty), ![maker] = DefaultOrder]
              /\ Forget(maker)
         ELSE /\ book' = SetLevel(book, s, px, l)
              /\ order' = [order EXCEPT ![taker] = Executed(t, qty), ![maker] = Executed(m, qty)]
              /\ free' = free /\ order_map' = order_map
      /\ id_counter' = id_counter /\ pc' = pc /\ taker' = taker /\ tick' = tick /\ clock' = clock
  BY DEF Trade, CanMatch
<1>2. /\ order \in [Slot -> Order] /\ taker \in Slot /\ t \in Order /\ t.id # 0
      /\ t.price \in Prices /\ t.filled_qty < t.quantity /\ s \in Side
  BY <1>1 DEF IInv, TypeOK, TakerIsSound, Order, Opposite, Side
<1>3. /\ px \in DOMAIN book[s] /\ px \in Prices /\ GoodLevel(order, s, px, book[s][px])
      /\ GoodBook(book, order)
  <2>1. GoodBook(book, order) /\ DOMAIN book[s] \subseteq Prices
    BY <1>2 DEF IInv, BookIsSound, TypeOK
  <2>2. px \in DOMAIN book[s]
    <3>. HIDE DEF s
    <3>. QED  BY <1>1, <1>2, <2>1, BestPriceIsBest
  <2>. HIDE DEF s, px
  <2>. QED  BY <2>1, <2>2, <1>2 DEF GoodBook
<1>4. In(book, maker, s, px)
  <2>. DEFINE q == book[s][px].queue
  <2>1. q \in Seq(Slot) /\ q # <<>>
    BY <1>3 DEF GoodLevel, PriceLevel
  <2>. HIDE DEF q
  <2>2. 1 \in DOMAIN q /\ q[1] = Head(q)
    BY <2>1, EmptySeq
  <2>. QED  BY <2>2, <1>3 DEF In, ToSet, q
<1>. HIDE DEF s, px
<1>5. /\ maker \in Slot /\ maker # taker /\ m \in Order /\ Fits(m, s, px)
  <2>1. BookIsSound
    BY DEF IInv
  <2>. HIDE DEF maker
  <2>. QED  BY <2>1, <1>2, <1>4, QueuedIsOther
<1>. HIDE DEF maker
<1>6. /\ t.quantity \in Nat /\ t.filled_qty \in Nat /\ m.quantity \in Nat /\ m.filled_qty \in Nat
      /\ m.filled_qty < m.quantity
  BY <1>2, <1>5, OrderBookAssumption DEF Order, Quantity, Fits
<1>. HIDE DEF t, m
<1>7. /\ qty \in Nat /\ t.filled_qty + qty <= t.quantity /\ m.filled_qty + qty <= m.quantity
      /\ qty # Remaining(m) => m.filled_qty + qty < m.quantity
  BY <1>2, <1>6 DEF Remaining
<1>. HIDE DEF qty
<1>. DEFINE e == Executed(t, qty)
            f == Executed(m, qty)
<1>8. /\ e \in Order /\ e.id = t.id /\ e.price = t.price /\ e.filled_qty = t.filled_qty + qty
      /\ e.quantity = t.quantity
      /\ IsActive(e) <=> t.filled_qty + qty < t.quantity
  BY <1>2, <1>7, ExecutedIs
<1>9. /\ f \in Order /\ f.id = m.id /\ f.side = m.side /\ f.price = m.price /\ f.type = m.type
      /\ f.rank = m.rank /\ f.quantity = m.quantity /\ f.filled_qty = m.filled_qty + qty
      /\ IsActive(f) <=> m.filled_qty + qty < m.quantity
  BY <1>5, <1>7, ExecutedIs
<1>10. /\ GoodLevel(order, s, px, l)
       /\ \A x : x \in ToSet(l.queue) <=> In(book, x, s, px)
  <2>1. GoodLevel(order, s, px, l) /\ l.queue = book[s][px].queue
    BY <1>3, <1>7, TakeQtyIsGood
  <2>. HIDE DEF l
  <2>. QED  BY <2>1, <1>3 DEF In
<1>. HIDE DEF l, e, f
<1>11. order'[taker] = e => TakerIsSound'
  BY <1>1, <1>2, <1>6, <1>7, <1>8 DEF TakerIsSound
<1>12. \A v \in Side : \A x, p : In(book, x, v, p) => x \in Slot /\ x # taker /\ Fits(order[x], v, p)
  BY QueuedIsOther DEF IInv
<1>13. \A x \in Allocated \ {taker} :
         IsActive(order[x]) => In(book, x, order[x].side, order[x].price)
  BY DEF IInv, BookIsSound
<1>14. CASE qty = Remaining(m)
  <2>1. /\ book' = SetOrErase(book, s, px, l2) /\ Forget(maker)
        /\ order' = [order EXCEPT ![taker] = e, ![maker] = DefaultOrder]
    BY <1>1, <1>14 DEF e
  <2>2. DefaultOrder \in Order
    <3>1. 0 \in Quantity
      BY OrderBookAssumption DEF Quantity
    <3>. QED  BY <3>1 DEF DefaultOrder, Order, Side, OrderType, OrderStatus
  <2>3. /\ order' \in [Slot -> Order] /\ order'[taker] = e /\ order'[maker] = DefaultOrder
        /\ \A x \in Slot : x # taker /\ x # maker => order'[x] = order[x]
    BY <2>1, <2>2, <1>2, <1>5, <1>8
  <2>4. maker \in Allocated /\ \A x \in Slot : x # maker => order'[x].id = order[x].id
    BY <2>3, <1>2, <1>5, <1>8 DEF Allocated, Fits, t, m
  <2>5. /\ FreeIsSound' /\ MapIsSound' /\ Allocated' = Allocated \ {maker}
        /\ free' \in Seq(Slot)
        /\ DOMAIN order_map' \subseteq 1 .. id_counter
        /\ order_map' \in [DOMAIN order_map' -> Slot]
    BY <2>1, <2>3, <2>4, ForgetIsSound DEF IInv
  <2>6. /\ \A x : x \in ToSet(l2.queue) <=> x \in ToSet(l.queue) /\ x # maker
        /\ l2.queue # <<>> => GoodLevel(order, s, px, l2)
    <3>1. /\ order \in [Slot -> Order] /\ GoodLevel(order, s, px, l)
          /\ maker \in ToSet(l.queue) /\ f \in Order
      BY <1>2, <1>4, <1>9, <1>10
    <3>2. l2 = Unlink(l, maker, f)
      BY DEF f
    <3>. HIDE DEF l2
    <3>. QED  BY <3>1, <3>2, UnlinkIsGood
  <2>. HIDE DEF l2
  <2>7. /\ GoodBook(book', order)
        /\ \A v \in Side : DOMAIN book'[v] \subseteq DOMAIN book[v]
        /\ \A x, p : In(book', x, s, p) <=> IF p = px THEN x \in ToSet(l2.queue) ELSE In(book, x, s, p)
        /\ \A v \in Side : v # s => \A x, p : In(book', x, v, p) <=> In(book, x, v, p)
    BY <2>1, <2>6, <1>2, <1>3, SetOrEraseIsGood
  <2>8. ASSUME NEW v \in Side, NEW x, NEW p
        PROVE  In(book', x, v, p) <=> In(book, x, v, p) /\ x # maker
    <3>1. In(book, maker, v, p) => v = s /\ p = px
      BY <1>5, <1>12 DEF Fits, m
    <3>2. CASE v = s /\ p = px
      BY <3>2, <1>10, <2>6, <2>7
    <3>3. CASE v = s /\ p # px
      BY <3>1, <3>3, <2>7
    <3>4. CASE v # s
      BY <3>1, <3>4, <2>7
    <3>. QED  BY <3>2, <3>3, <3>4
  <2>9. \A v \in Side : \A x, p : In(book', x, v, p) =>
          In(book, x, v, p) /\ Fits(order'[x], v, p) /\ order'[x].rank = order[x].rank
    BY <2>3, <2>8, <1>12
  <2>10. ASSUME NEW x \in Allocated' \ {taker}, IsActive(order'[x])
         PROVE  In(book', x, order'[x].side, order'[x].price)
    <3>1. x \in Allocated \ {taker} /\ x \in Slot /\ x # maker
      BY <2>5 DEF Allocated
    <3>2. order'[x] = order[x] /\ order[x].side \in Side
      BY <3>1, <2>3, <1>2 DEF Order
    <3>. QED  BY <3>1, <3>2, <2>8, <2>10, <1>13
  <2>. QED
    BY <1>1, <1>11, <2>3, <2>5, <2>7, <2>9, <2>10, NothingJoinsIInv
<1>15. CASE qty # Remaining(m)
  <2>1. /\ book' = SetLevel(book, s, px, l) /\ free' = free /\ order_map' = order_map
        /\ order' = [order EXCEPT ![taker] = e, ![maker] = f]
    BY <1>1, <1>15 DEF e, f
  <2>2. /\ order' \in [Slot -> Order] /\ order'[taker] = e /\ order'[maker] = f
        /\ \A x \in Slot : x # taker /\ x # maker => order'[x] = order[x]
    BY <2>1, <1>2, <1>5, <1>8, <1>9
  <2>3. \A x \in Slot : order'[x].id = order[x].id
    BY <2>2, <1>8, <1>9 DEF t, m
  <2>4. FreeIsSound' /\ MapIsSound' /\ Allocated' = Allocated
    BY <2>1, <2>3, KeptIsSound DEF IInv
  <2>5. /\ GoodBook(book', order)
        /\ DOMAIN book'[s] = DOMAIN book[s] \cup {px}
        /\ \A v \in Side : v # s => DOMAIN book'[v] = DOMAIN book[v]
        /\ \A x, p : In(book', x, s, p) <=> IF p = px THEN x \in ToSet(l.queue) ELSE In(book, x, s, p)
        /\ \A v \in Side : v # s => \A x, p : In(book', x, v, p) <=> In(book, x, v, p)
    BY <2>1, <1>2, <1>3, <1>10, SetLevelIsGood
  <2>6. \A v \in Side : \A x, p : In(book', x, v, p) <=> In(book, x, v, p)
    BY <2>5, <1>10
  <2>7. \A v \in Side : DOMAIN book'[v] \subseteq DOMAIN book[v]
    BY <2>5, <1>3
  <2>8. Fits(f, s, px) /\ f.rank = order[maker].rank
    BY <1>5, <1>6, <1>7, <1>9, <1>15 DEF Fits, m
  <2>9. ASSUME NEW v \in Side, NEW x, NEW p, In(book', x, v, p)
        PROVE  In(book, x, v, p) /\ Fits(order'[x], v, p) /\ order'[x].rank = order[x].rank
    <3>1. In(book, x, v, p) /\ x \in Slot /\ x # taker /\ Fits(order[x], v, p)
      BY <2>6, <2>9, <1>12
    <3>2. CASE x = maker
      <4>1. v = s /\ p = px
        BY <3>1, <3>2, <1>5 DEF Fits, m
      <4>. QED  BY <3>1, <3>2, <4>1, <2>2, <2>8
    <3>3. CASE x # maker
      BY <3>1, <3>3, <2>2
    <3>. QED  BY <3>2, <3>3
  <2>10. ASSUME NEW x \in Allocated' \ {taker}, IsActive(order'[x])
         PROVE  In(book', x, order'[x].side, order'[x].price)
    <3>1. x \in Allocated \ {taker} /\ x \in Slot
      BY <2>4 DEF Allocated
    <3>2. CASE x = maker
      <4>1. order'[x].side = s /\ order'[x].price = px
        BY <3>2, <2>2, <2>8 DEF Fits
      <4>. QED  BY <4>1, <3>2, <2>6, <1>2, <1>4
    <3>3. CASE x # maker
      <4>1. order'[x] = order[x] /\ order[x].side \in Side
        BY <3>1, <3>3, <2>2, <1>2 DEF Order
      <4>. QED  BY <4>1, <3>1, <2>6, <2>10, <1>13
    <3>. QED  BY <3>2, <3>3
  <2>11. /\ free' \in Seq(Slot) /\ DOMAIN order_map' \subseteq 1 .. id_counter
         /\ order_map' \in [DOMAIN order_map' -> Slot]
    BY <2>1 DEF IInv, TypeOK
  <2>. QED
    BY <1>1, <1>11, <2>2, <2>4, <2>5, <2>7, <2>9, <2>10, <2>11, NothingJoinsIInv
<1>. QED
  BY <1>14, <1>15

\* Every step of Next, and stuttering.
LEMMA StepIInv == IInv /\ [Next]_vars => IInv'
<1>. SUFFICES ASSUME IInv, [Next]_vars PROVE IInv'
  OBVIOUS
<1>1. tick \in Tick /\ TopOfBook(book) \in Tick
  <2>1. GoodBook(book, order)
    BY DEF IInv, BookIsSound
  <2>. QED  BY <2>1, GoodBookIsTyped DEF IInv, TypeOK
<1>2. 0 \in Quantity
  BY OrderBookAssumption DEF Quantity
<1>3. DefaultOrder \in Order
  BY <1>2 DEF DefaultOrder, Order, Side, OrderType, OrderStatus
<1>4. ASSUME pc # "idle", order' = [order EXCEPT ![taker] = DefaultOrder]
      PROVE  /\ order' \in [Slot -> Order] /\ order'[taker] = DefaultOrder
             /\ \A x \in Slot : x # taker => order'[x] = order[x]
  BY <1>3, <1>4 DEF IInv, TypeOK
<1>5. CASE RejectFok
  <2>1. /\ pc # "idle" /\ Forget(taker) /\ Done /\ order' = [order EXCEPT ![taker] = DefaultOrder]
        /\ book' = book /\ id_counter' = id_counter /\ clock' = clock /\ tick' \in Tick
    BY <1>1, <1>5 DEF RejectFok
  <2>. QED  BY <2>1, <1>4, DropTakerIInv
<1>6. CASE CancelResidual
  <2>1. /\ pc # "idle" /\ Forget(taker) /\ Done /\ order' = [order EXCEPT ![taker] = DefaultOrder]
        /\ book' = book /\ id_counter' = id_counter /\ clock' = clock /\ tick' \in Tick
    BY <1>1, <1>6 DEF CancelResidual, Publish
  <2>. QED  BY <2>1, <1>4, DropTakerIInv
<1>7. CASE StartMatching
  BY <1>1, <1>7, QuietIInv DEF StartMatching
<1>8. CASE FinishFilled
  <2>1. book' = book /\ tick' = TopOfBook(book')
    BY <1>8 DEF FinishFilled, Publish
  <2>2. tick' \in Tick
    BY <2>1, <1>1
  <2>. QED  BY <2>2, <1>8, QuietIInv DEF FinishFilled
<1>9. CASE UNCHANGED vars
  <2>1. TypeOK' /\ FreeIsSound' /\ MapIsSound' /\ TakerIsSound' /\ NoCross'
    BY <1>9 DEF vars, IInv, TypeOK, FreeIsSound, MapIsSound, TakerIsSound, NoCross, Allocated
  <2>2. BookIsSound'
    BY <1>9 DEF vars, IInv, BookIsSound, Allocated
  <2>. QED  BY <2>1, <2>2 DEF IInv
<1>10. CASE Call
  BY <1>9, <1>10, AddOrderIInv, CancelOrderIInv, AmendUpIInv, AmendDownIInv
     DEF Call, RefuseAdd, RefuseChange
<1>. QED
  BY <1>5, <1>6, <1>7, <1>8, <1>9, <1>10, TradeIInv, RestResidualIInv DEF Next, Matching

-----------------------------------------------------------------------------
(* What holds in every reachable state.                                    *)

\* The inductive invariant holds throughout.
THEOREM Invariance == Spec => []IInv
  BY InitIInv, StepIInv, PTL DEF Spec

\* Every variable keeps its type: no call leaves the pool, the lookup table, a
\* level or the tick with a value the code has no representation for.
THEOREM TypeCorrect == Spec => []TypeOK
<1>1. IInv => TypeOK
  BY DEF IInv
<1>. QED
  BY <1>1, Invariance, PTL

\* The book is never locked or crossed, between calls and between the trades of
\* one call (match_against_asks, match_against_bids, rest_order, amend_order).
THEOREM NeverCrossed == Spec => []NoCross
<1>1. IInv => NoCross
  BY DEF IInv
<1>. QED
  BY <1>1, Invariance, PTL

\* Every link of every level leads to a live, open LIMIT order of that side and
\* price, in time order: remove_from_book never unlinks from the wrong level.
THEOREM QueuesSound == Spec => []QueuesAreSound
<1>1. ASSUME IInv, NEW s \in Side, NEW p \in DOMAIN book[s]
      PROVE  /\ \A i \in DOMAIN book[s][p].queue :
                  LET o == order[book[s][p].queue[i]]
                  IN  /\ o.id # 0 /\ o.side = s /\ o.price = p
                      /\ o.type = "LIMIT" /\ IsActive(o)
                      /\ 0 <= o.filled_qty /\ o.filled_qty < o.quantity
             /\ \A i, j \in DOMAIN book[s][p].queue :
                  i < j => order[book[s][p].queue[i]].rank < order[book[s][p].queue[j]].rank
  <2>. DEFINE q == book[s][p].queue
  <2>1. GoodLevel(order, s, p, book[s][p]) /\ order \in [Slot -> Order]
    BY <1>1 DEF IInv, TypeOK, BookIsSound, GoodBook
  <2>2. q \in Seq(Slot)
    BY <2>1 DEF GoodLevel, PriceLevel
  <2>3. \A i \in DOMAIN q : Fits(order[q[i]], s, p) /\ order[q[i]] \in Order
    BY <2>1, <2>2 DEF GoodLevel
  <2>4. \A o \in Order : 0 <= o.filled_qty
    BY OrderBookAssumption DEF Order, Quantity
  <2>5. \A i, j \in DOMAIN q : i < j => order[q[i]].rank < order[q[j]].rank
    BY <2>1 DEF GoodLevel
  <2>. HIDE DEF q
  <2>6. \A i \in DOMAIN q :
          LET o == order[q[i]]
          IN  /\ o.id # 0 /\ o.side = s /\ o.price = p
              /\ o.type = "LIMIT" /\ IsActive(o)
              /\ 0 <= o.filled_qty /\ o.filled_qty < o.quantity
    BY <2>3, <2>4 DEF Fits
  <2>. QED  BY <2>5, <2>6 DEF q
<1>2. IInv => QueuesAreSound
  BY <1>1 DEF QueuesAreSound
<1>. QED
  BY <1>2, Invariance, PTL

\* No slot is lost or owned twice, and between calls the open orders of
\* order_map_ are exactly those the queues hold.
THEOREM PoolPartitioned == Spec => []PoolIsPartitioned
<1>1. ASSUME IInv, pc = "idle"
      PROVE  Booked = {m \in Allocated : IsActive(order[m])}
  <2>1. taker = Null /\ Null \notin Slot
    BY <1>1, OrderBookAssumption DEF IInv, TypeOK, Null, Slot
  <2>2. ASSUME NEW m \in Booked PROVE m \in Allocated /\ IsActive(order[m])
    <3>1. PICK s \in Side : \E p \in DOMAIN book[s] : m \in ToSet(book[s][p].queue)
      BY DEF Booked, Resting, QueuedAt
    <3>2. PICK p : In(book, m, s, p)
      BY <3>1 DEF In
    <3>. QED  BY <1>1, <3>2, QueuedIsOther DEF IInv, Fits, Allocated
  <2>3. ASSUME NEW m \in Allocated, IsActive(order[m]) PROVE m \in Booked
    <3>1. m \in Slot /\ m # taker
      BY <2>1 DEF Allocated
    <3>2. In(book, m, order[m].side, order[m].price)
      BY <3>1, <1>1, <2>3 DEF IInv, BookIsSound
    <3>3. order[m].side \in Side
      BY <3>1, <1>1 DEF IInv, TypeOK, Order
    <3>. QED  BY <3>2, <3>3 DEF In, Booked, Resting, QueuedAt
  <2>. QED  BY <2>2, <2>3
<1>2. IInv => PoolIsPartitioned
  BY <1>1 DEF IInv, FreeIsSound, MapIsSound, PoolIsPartitioned
<1>. QED
  BY <1>2, Invariance, PTL

\* publish_market_data is called after every change of the book: only while a
\* call is matching can the last tick be behind.
THEOREM TickCurrent == Spec => []TickIsCurrent
<1>. DEFINE TInv == pc # "matching" => tick = TopOfBook(book)
<1>1. Init => TInv
  <2>1. Init => \A s \in Side : DOMAIN book[s] = {}
    BY DEF Init
  <2>. QED  BY <2>1 DEF Init, TopOfBook, NoTick, Side
<1>2. TInv /\ [Next]_vars => TInv'
  <2>. SUFFICES ASSUME TInv, [Next]_vars PROVE TInv'
    OBVIOUS
  <2>1. CASE RejectFok
    BY <2>1 DEF RejectFok
  <2>2. CASE StartMatching
    BY <2>2 DEF StartMatching
  <2>3. CASE Trade
    BY <2>3 DEF Trade
  <2>4. CASE FinishFilled
    BY <2>4 DEF FinishFilled, Publish
  <2>5. CASE RestResidual
    BY <2>5 DEF RestResidual, Publish
  <2>6. CASE CancelResidual
    BY <2>6 DEF CancelResidual, Publish
  <2>7. CASE UNCHANGED vars
    BY <2>7 DEF vars
  <2>8. ASSUME NEW side, NEW type, NEW price, NEW quantity, AddOrder(side, type, price, quantity)
        PROVE  TInv'
    BY <2>8 DEF AddOrder
  <2>9. ASSUME NEW id, NEW quantity,
               CancelOrder(id) \/ AmendUp(id, quantity) \/ AmendDown(id, quantity)
        PROVE  TInv'
    BY <2>9 DEF CancelOrder, AmendUp, AmendDown, Publish
  <2>10. CASE Call
    BY <2>7, <2>8, <2>9, <2>10 DEF Call, RefuseAdd, RefuseChange
  <2>. QED  BY <2>1, <2>2, <2>3, <2>4, <2>5, <2>6, <2>7, <2>10 DEF Next, Matching
<1>3. TInv => TickIsCurrent
  BY DEF TickIsCurrent
<1>. QED
  BY <1>1, <1>2, <1>3, PTL DEF Spec

\* Where an order of the queues is: in the level of its own side and price.
LEMMA BookedIsIn ==
  ASSUME IInv, NEW m \in Booked
  PROVE  /\ m \in Slot /\ m # taker /\ order[m] \in Order
         /\ In(book, m, order[m].side, order[m].price)
<1>1. PICK s \in Side : \E p \in DOMAIN book[s] : m \in ToSet(book[s][p].queue)
  BY DEF Booked, Resting, QueuedAt
<1>2. PICK p : In(book, m, s, p)
  BY <1>1 DEF In
<1>3. m \in Slot /\ m # taker /\ Fits(order[m], s, p)
  BY <1>2, QueuedIsOther DEF IInv
<1>. QED
  BY <1>2, <1>3 DEF Fits, IInv, TypeOK

\* The head of the best level goes before every other order of its side.
LEMMA HeadOfBestPrecedes ==
  ASSUME IInv, NEW s \in Side, DOMAIN book[s] # {},
         NEW n \in Booked, order[n].side = s,
         n # Head(book[s][BestPrice(book, s)].queue)
  PROVE  Precedes(Head(book[s][BestPrice(book, s)].queue), n)
<1>. DEFINE px == BestPrice(book, s)
            q  == book[s][px].queue
            m  == Head(q)
            p  == order[n].price
<1>. SUFFICES Precedes(m, n)
  OBVIOUS
<1>1. DOMAIN book[s] \subseteq Prices /\ GoodBook(book, order) /\ order \in [Slot -> Order]
  BY DEF IInv, TypeOK, BookIsSound
<1>2. px \in DOMAIN book[s] /\ \A r \in DOMAIN book[s] : ~Better(s, r, px)
  BY <1>1, BestPriceIsBest
<1>3. n \in Slot /\ In(book, n, s, p)
  BY BookedIsIn
<1>. HIDE DEF px
<1>4. GoodLevel(order, s, px, book[s][px])
  BY <1>1, <1>2 DEF GoodBook
<1>5. /\ q \in Seq(Slot) /\ q # <<>>
      /\ \A i \in DOMAIN q : Fits(order[q[i]], s, px)
      /\ \A i, j \in DOMAIN q : i < j => order[q[i]].rank < order[q[j]].rank
  BY <1>4 DEF GoodLevel, PriceLevel
<1>6. n \in ToSet(q) <=> In(book, n, s, px)
  BY <1>2 DEF In
<1>7. n # m
  BY DEF px
<1>. HIDE DEF q
<1>8. DOMAIN q = 1 .. Len(q) /\ Len(q) \in Nat \ {0} /\ m = q[1]
  BY <1>5, EmptySeq
<1>9. Fits(order[m], s, px)
  BY <1>5, <1>8
<1>. HIDE DEF m
<1>10. CASE p = px
  <2>1. PICK j \in DOMAIN q : n = q[j]
    BY <1>3, <1>6, <1>10 DEF ToSet
  <2>2. 1 \in DOMAIN q /\ 1 < j
    BY <2>1, <1>7, <1>8
  <2>3. order[m].rank < order[n].rank
    BY <2>1, <2>2, <1>5, <1>8
  <2>. QED  BY <2>3, <1>9, <1>10 DEF Precedes, Fits
<1>11. CASE p # px
  <2>1. p \in Int /\ px \in Int
    <3>1. p \in Prices /\ px \in Prices
      BY <1>1, <1>2, <1>3 DEF In
    <3>2. \A x \in Prices : x \in Int
      BY OrderBookAssumption
    <3>. HIDE DEF p
    <3>. QED  BY <3>1, <3>2
  <2>2. ~Better(s, p, px)
    BY <1>2, <1>3 DEF In
  <2>3. Better(s, px, p)
    BY <2>1, <2>2, <1>11 DEF Better
  <2>. QED  BY <2>3, <1>9 DEF Precedes, Fits
<1>. QED
  BY <1>10, <1>11

\* Price-time priority: the maker of a trade is the order with the best price,
\* and the earliest at that price, of the whole side it rests on.
THEOREM Priority == Spec => PriceTimePriority
<1>. DEFINE Served == pc = "matching" =>
              \A m \in Booked : order'[m] # order[m] =>
                \A n \in Booked \ {m} : order[n].side = order[m].side => Precedes(m, n)
<1>1. ASSUME IInv, [Next]_vars, pc = "matching", NEW m \in Booked, order'[m] # order[m],
             NEW n \in Booked \ {m}, order[n].side = order[m].side
      PROVE  Precedes(m, n)
  <2>1. m \in Slot /\ m # taker /\ order \in [Slot -> Order]
    BY <1>1, BookedIsIn DEF IInv, TypeOK
  <2>2. ~(order' = order) /\ \A o : ~(order' = [order EXCEPT ![taker] = o])
    BY <1>1, <2>1
  <2>3. Trade
    <3>1. ~RejectFok /\ ~StartMatching /\ ~Call /\ ~FinishFilled
      BY <1>1, <2>2 DEF RejectFok, StartMatching, Call, AddOrder, RefuseAdd, CancelOrder,
                        AmendUp, AmendDown, RefuseChange, FinishFilled
    <3>2. ~RestResidual /\ ~CancelResidual
      BY <2>2 DEF RestResidual, CancelResidual
    <3>. QED  BY <1>1, <2>2, <3>1, <3>2 DEF Next, Matching, vars
  <2>. DEFINE s     == Opposite(order[taker].side)
              maker == Head(book[s][BestPrice(book, s)].queue)
  <2>4. /\ DOMAIN book[s] # {}
        /\ \E e, f : order' = [order EXCEPT ![taker] = e, ![maker] = f]
    BY <2>3 DEF Trade, CanMatch
  <2>5. s \in Side
    BY DEF Opposite, Side
  <2>6. m = maker
    BY <1>1, <2>1, <2>4
  <2>7. order[m].side = s
    <3>1. GoodBook(book, order) /\ DOMAIN book[s] \subseteq Prices
      BY <1>1, <2>5 DEF IInv, TypeOK, BookIsSound
    <3>2. BestPrice(book, s) \in DOMAIN book[s]
      <4>. HIDE DEF s
      <4>. QED  BY <2>4, <2>5, <3>1, BestPriceIsBest
    <3>. DEFINE px == BestPrice(book, s)
                q  == book[s][px].queue
    <3>. HIDE DEF s, px
    <3>3. GoodLevel(order, s, px, book[s][px])
      BY <2>5, <3>1, <3>2 DEF GoodBook, px
    <3>4. q \in Seq(Slot) /\ q # <<>> /\ \A i \in DOMAIN q : Fits(order[q[i]], s, px)
      BY <3>3 DEF GoodLevel, PriceLevel
    <3>. HIDE DEF q
    <3>5. 1 \in DOMAIN q /\ q[1] = Head(q)
      BY <3>4, EmptySeq
    <3>6. m = Head(q)
      BY <2>6 DEF q, px
    <3>. QED  BY <3>4, <3>5, <3>6 DEF Fits
  <2>. HIDE DEF s
  <2>. QED  BY <1>1, <2>4, <2>5, <2>6, <2>7, HeadOfBestPrecedes
<1>2. IInv /\ [Next]_vars => Served
  BY <1>1
<1>. QED
  BY <1>2, Invariance, PTL DEF Spec, PriceTimePriority

-----------------------------------------------------------------------------
(* The pool, as the book uses it.                                          *)

\* A step takes the top slot, gives one back, or leaves the free list alone.
LEMMA StepOnFree ==
  ASSUME [Next]_vars
  PROVE  \/ free' = free
         \/ free # <<>> /\ free' = Tail(free)
         \/ \E m : free' = <<m>> \o free
<1>1. ASSUME NEW m, Forget(m) PROVE free' = <<m>> \o free
  BY <1>1 DEF Forget
<1>2. CASE UNCHANGED vars \/ StartMatching \/ FinishFilled \/ RestResidual
  <2>1. free' = free
    BY <1>2 DEF vars, StartMatching, FinishFilled, RestResidual
  <2>. QED  BY <2>1
<1>3. CASE RejectFok \/ CancelResidual
  <2>1. Forget(taker)
    BY <1>3 DEF RejectFok, CancelResidual
  <2>. QED  BY <2>1, <1>1
<1>4. CASE Trade
  <2>1. free' = free \/ \E m : Forget(m)
    BY <1>4 DEF Trade
  <2>2. CASE free' = free
    BY <2>2
  <2>3. CASE \E m : Forget(m)
    <3>1. \E m : free' = <<m>> \o free
      BY <2>3, <1>1, Zenon
    <3>. QED  BY <3>1, Zenon
  <2>. QED  BY <2>1, <2>2, <2>3
<1>5. CASE Call
  <2>1. ASSUME NEW side, NEW type, NEW price, NEW quantity, AddOrder(side, type, price, quantity)
        PROVE  free # <<>> /\ free' = Tail(free)
    BY <2>1 DEF AddOrder
  <2>2. ASSUME NEW type, NEW price, NEW quantity, RefuseAdd(type, price, quantity)
        PROVE  free' = free
    BY <2>2 DEF RefuseAdd, vars
  <2>3. ASSUME NEW id, CancelOrder(id) PROVE Forget(order_map[id])
    BY <2>3 DEF CancelOrder
  <2>4. ASSUME NEW id, NEW quantity,
               AmendUp(id, quantity) \/ AmendDown(id, quantity) \/ RefuseChange(id, quantity)
        PROVE  free' = free
    BY <2>4 DEF AmendUp, AmendDown, RefuseChange, vars
  <2>. QED  BY <1>5, <1>1, <2>1, <2>2, <2>3, <2>4 DEF Call
<1>. QED
  BY <1>2, <1>3, <1>4, <1>5 DEF Next, Matching

\* The book uses the pool as the abstract pool allows: never does it give back
\* a slot that is free already, though many paths of an order end in deallocate.
THEOREM RefinesPool == Spec => UsesSlotPool
<1>1. Init => Pool!Init
  BY DEF Init, Pool!Init
<1>2. ASSUME IInv, IInv', [Next]_vars
      PROVE  [Pool!Next]_free
  <2>1. ASSUME NEW m, free' = <<m>> \o free
        PROVE  \E s \in 0 .. Capacity - 1 : Pool!Give(s)
    <3>1. /\ free \in Seq(Slot) /\ free' \in Seq(Slot)
          /\ \A i, j \in DOMAIN free' : free'[i] = free'[j] => i = j
      BY <1>2 DEF IInv, TypeOK, FreeIsSound
    <3>2. /\ Len(free) \in Nat /\ DOMAIN free = 1 .. Len(free)
          /\ DOMAIN free' = 1 .. Len(free) + 1
          /\ free'[1] = m /\ \A i \in 1 .. Len(free) : free'[i + 1] = free[i]
      BY <2>1, <3>1
    <3>3. m \in Slot
      BY <3>1, <3>2
    <3>4. m \notin ToSet(free)
      <4>1. ASSUME NEW i \in DOMAIN free, m = free[i] PROVE FALSE
        <5>1. i + 1 \in DOMAIN free' /\ 1 \in DOMAIN free' /\ free'[i + 1] = free'[1]
          BY <3>2, <4>1
        <5>. QED  BY <5>1, <3>1, <3>2
      <4>. QED  BY <4>1 DEF ToSet
    <3>. QED  BY <2>1, <3>3, <3>4 DEF Pool!Give, Slot, ToSet, Pool!ToSet
  <2>. QED  BY <2>1, StepOnFree, <1>2 DEF Pool!Next, Pool!Take
<1>. QED
  BY <1>1, <1>2, Invariance, PTL DEF Spec, UsesSlotPool, Pool!Spec

-----------------------------------------------------------------------------
(* Places in a queue.                                                      *)

\* The rank of an order that stays queued never falls, and rises only with its
\* quantity.
LEMMA RankSteps ==
  ASSUME IInv, IInv', [Next]_vars,
         NEW s \in Side, NEW p, NEW m, In(book, m, s, p), In(book', m, s, p)
  PROVE  /\ order[m].rank <= order'[m].rank
         /\ order'[m].quantity <= order[m].quantity => order'[m].rank = order[m].rank
<1>. DEFINE Kept == order'[m].rank = order[m].rank
<1>0. /\ order \in [Slot -> Order] /\ m \in Slot /\ m # taker
      /\ order[m].id # 0 /\ order[m].rank <= clock /\ order[m].rank \in Nat /\ clock \in Nat
  <2>1. /\ order \in [Slot -> Order] /\ m \in Slot /\ m # taker /\ clock \in Nat
        /\ Fits(order[m], s, p) /\ order[m].rank <= clock
    BY QueuedIsOther DEF IInv, TypeOK
  <2>. QED  BY <2>1 DEF Fits, Order
<1>1. order'[m] # DefaultOrder
  <2>1. m \in Slot /\ Fits(order'[m], s, p)
    <3>1. GoodBook(book', order')
      BY DEF IInv, BookIsSound
    <3>. QED  BY <3>1, QueuedFits
  <2>. QED  BY <2>1 DEF Fits, DefaultOrder
<1>2. ASSUME Kept PROVE order[m].rank <= order'[m].rank
  BY <1>0, <1>2
<1>3. CASE UNCHANGED vars \/ StartMatching \/ FinishFilled
  <2>1. Kept
    BY <1>3 DEF vars, StartMatching, FinishFilled
  <2>. QED  BY <2>1, <1>2
<1>4. CASE RejectFok \/ CancelResidual \/ RestResidual
  <2>1. \E o : order' = [order EXCEPT ![taker] = o]
    BY <1>4 DEF RejectFok, CancelResidual, RestResidual
  <2>2. Kept
    BY <2>1, <1>0
  <2>. QED  BY <2>2, <1>2
<1>5. CASE Trade
  <2>1. PICK maker, e, q :
          \/ order' = [order EXCEPT ![taker] = e, ![maker] = DefaultOrder]
          \/ order' = [order EXCEPT ![taker] = e, ![maker] = Executed(order[maker], q)]
    BY <1>5 DEF Trade
  <2>2. CASE m # maker
    <3>1. Kept
      BY <2>1, <2>2, <1>0
    <3>. QED  BY <3>1, <1>2
  <2>3. CASE m = maker
    <3>1. order'[m] = Executed(order[m], q)
      BY <2>1, <2>3, <1>0, <1>1
    <3>2. Kept
      BY <3>1, <1>0 DEF Executed, Order
    <3>. QED  BY <3>2, <1>2
  <2>. QED  BY <2>2, <2>3
<1>6. ASSUME NEW side, NEW type, NEW price, NEW quantity, AddOrder(side, type, price, quantity)
      PROVE  Kept
  <2>1. Head(free) # m
    <3>1. free \in Seq(Slot) /\ free # <<>>
      BY <1>6 DEF AddOrder, IInv, TypeOK
    <3>2. Head(free) \in ToSet(free)
      <4>1. 1 \in DOMAIN free /\ free[1] = Head(free)
        BY <3>1, EmptySeq
      <4>. QED  BY <4>1 DEF ToSet
    <3>. QED  BY <3>2, <1>0 DEF IInv, FreeIsSound, Allocated
  <2>2. \E o : order' = [order EXCEPT ![Head(free)] = o]
    BY <1>6 DEF AddOrder
  <2>. QED  BY <2>1, <2>2, <1>0
<1>7. ASSUME NEW id, CancelOrder(id)
      PROVE  Kept
  <2>1. order' = [order EXCEPT ![order_map[id]] = DefaultOrder]
    BY <1>7 DEF CancelOrder
  <2>2. order_map[id] # m
    BY <2>1, <1>0, <1>1
  <2>. QED  BY <2>1, <2>2, <1>0
<1>8. ASSUME NEW id, NEW quantity, AmendDown(id, quantity)
      PROVE  Kept
  <2>1. order' = [order EXCEPT ![order_map[id]].quantity = quantity]
    BY <1>8 DEF AmendDown
  <2>. QED  BY <2>1, <1>0 DEF Order
<1>9. ASSUME NEW id, NEW quantity, AmendUp(id, quantity)
      PROVE  Kept \/ (order'[m].rank = clock + 1 /\ order'[m].quantity > order[m].quantity)
  <2>1. /\ order' = [order EXCEPT ![order_map[id]].quantity = quantity,
                                  ![order_map[id]].rank = clock + 1]
        /\ quantity > order[order_map[id]].quantity
    BY <1>9 DEF AmendUp
  <2>. QED  BY <2>1, <1>0 DEF Order
<1>10. CASE Call
  <2>1. Kept \/ (order'[m].rank = clock + 1 /\ order'[m].quantity > order[m].quantity)
    <3>1. UNCHANGED vars => Kept
      BY DEF vars
    <3>2. Kept \/ (order'[m].rank = clock + 1 /\ order'[m].quantity > order[m].quantity) \/ UNCHANGED vars
      BY <1>10, <1>6, <1>7, <1>8, <1>9 DEF Call, RefuseAdd, RefuseChange
    <3>. QED  BY <3>1, <3>2
  <2>2. order'[m].quantity \in Int /\ order[m].quantity \in Int
    <3>1. order'[m] \in Order /\ order[m] \in Order
      BY <1>0 DEF IInv, TypeOK
    <3>. QED  BY <3>1, OrderBookAssumption DEF Order, Quantity
  <2>. QED  BY <2>1, <2>2, <1>0, <1>2
<1>. QED
  BY <1>3, <1>4, <1>5, <1>10 DEF Next, Matching

\* Of two orders that stay in a queue the first stays first, unless it is itself
\* amended to more: fills, amendments of others, cancels and slots that are
\* reused never cost an order its place.
THEOREM KeepsPlace == Spec => PlaceIsKept
<1>1. ASSUME IInv, IInv', [Next]_vars, NEW s \in Side, NEW p \in DOMAIN book[s] \cap DOMAIN book'[s],
             NEW i \in DOMAIN book[s][p].queue, NEW j \in DOMAIN book[s][p].queue,
             i < j,
             book[s][p].queue[i] \in ToSet(book'[s][p].queue),
             book[s][p].queue[j] \in ToSet(book'[s][p].queue),
             order'[book[s][p].queue[i]].quantity <= order[book[s][p].queue[i]].quantity
      PROVE  PositionIn(book'[s][p].queue, book[s][p].queue[i])
               < PositionIn(book'[s][p].queue, book[s][p].queue[j])
  <2>1. PICK m : m = book[s][p].queue[i]
    OBVIOUS
  <2>2. PICK n : n = book[s][p].queue[j]
    OBVIOUS
  <2>3. /\ In(book, m, s, p) /\ In(book', m, s, p)
        /\ In(book, n, s, p) /\ In(book', n, s, p)
    BY <1>1, <2>1, <2>2 DEF In, ToSet
  <2>4. order[m].rank < order[n].rank
    <3>1. GoodLevel(order, s, p, book[s][p])
      BY <1>1 DEF IInv, BookIsSound, GoodBook
    <3>. QED  BY <1>1, <2>1, <2>2, <3>1 DEF GoodLevel
  <2>5. order'[m].rank < order'[n].rank
    <3>1. order'[m].rank = order[m].rank /\ order[n].rank <= order'[n].rank
      BY <1>1, <2>1, <2>3, RankSteps
    <3>2. /\ order \in [Slot -> Order] /\ order' \in [Slot -> Order] /\ m \in Slot /\ n \in Slot
      BY <1>1, <2>3, QueuedIsOther DEF IInv, TypeOK
    <3>3. order[m].rank \in Nat /\ order[n].rank \in Nat /\ order'[n].rank \in Nat
      <4>1. order[m] \in Order /\ order[n] \in Order /\ order'[n] \in Order
        BY <3>2
      <4>. QED  BY <4>1 DEF Order
    <3>. QED  BY <2>4, <3>1, <3>3
  <2>. DEFINE q == book'[s][p].queue
              a == PositionIn(q, m)
              b == PositionIn(q, n)
  <2>6. GoodLevel(order', s, p, book'[s][p])
    BY <1>1 DEF IInv, BookIsSound, GoodBook
  <2>7. /\ q \in Seq(Slot) /\ DOMAIN q = 1 .. Len(q) /\ Len(q) \in Nat
        /\ \A k, l \in DOMAIN q : k < l => order'[q[k]].rank < order'[q[l]].rank
    BY <2>6 DEF GoodLevel, PriceLevel
  <2>8. a \in DOMAIN q /\ q[a] = m /\ b \in DOMAIN q /\ q[b] = n
    BY <1>1, <2>1, <2>2 DEF PositionIn, ToSet
  <2>9. order'[m].rank \in Int /\ order'[n].rank \in Int
    <3>1. m \in Slot /\ n \in Slot /\ order' \in [Slot -> Order]
      BY <1>1, <2>3, QueuedIsOther DEF IInv, TypeOK
    <3>2. order'[m] \in Order /\ order'[n] \in Order
      BY <3>1
    <3>. QED  BY <3>2 DEF Order
  <2>10. a < b
    <3>. HIDE DEF q, a, b
    <3>1. a \in Int /\ b \in Int
      BY <2>7, <2>8
    <3>2. a # b
      BY <2>5, <2>8, <2>9
    <3>3. ~(b < a)
      BY <2>5, <2>7, <2>8, <2>9
    <3>. QED  BY <3>1, <3>2, <3>3
  <2>. QED  BY <2>1, <2>2, <2>10
<1>2. IInv /\ IInv' /\ [Next]_vars =>
        [\A s \in Side : \A p \in DOMAIN book[s] \cap DOMAIN book'[s] :
           LET q  == book[s][p].queue
               q2 == book'[s][p].queue
           IN  \A i, j \in DOMAIN q :
                 (i < j /\ q[i] \in ToSet(q2) /\ q[j] \in ToSet(q2)
                    /\ order'[q[i]].quantity <= order[q[i]].quantity)
                 => PositionIn(q2, q[i]) < PositionIn(q2, q[j])]_vars
  BY <1>1
<1>. QED
  BY <1>2, Invariance, PTL DEF Spec, PlaceIsKept

=============================================================================
