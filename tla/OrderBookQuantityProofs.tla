----------------------- MODULE OrderBookQuantityProofs -----------------------
(***************************************************************************)
(* What quantities add up to in the order book, for every pool, every set  *)
(* of prices and quantities and every width of Quantity: the aggregates of *)
(* the levels, what follows from them for FOK orders, what the book        *)
(* reports, and the promise it keeps: it implements module Clob.           *)
(***************************************************************************)
EXTENDS OrderBookReports, OrderBookProofs

-----------------------------------------------------------------------------
(* The total of one level.                                                 *)

\* What the order in each slot has left.
Open(ord) == [m \in Slot |-> Remaining(ord[m])]

\* The total of level l is what the orders in its queue have left.
TotalIs(l, ord) == l.total_qty = SumFunctionOnSet(Open(ord), ToSet(l.queue)) % QtyMod

TotalsAre(b, ord) == \A s \in Side : \A p \in DOMAIN b[s] : TotalIs(b[s][p], ord)

LEMMA SlotIsFinite == IsFiniteSet(Slot) /\ \A S \in SUBSET Slot : IsFiniteSet(S)
<1>1. 0 \in Int /\ Capacity - 1 \in Int
  BY OrderBookAssumption
<1>2. IsFiniteSet(Slot)
  BY <1>1, FS_Interval DEF Slot
<1>. QED
  BY <1>2, FS_Subset

LEMMA OpenIs ==
  ASSUME NEW ord \in [Slot -> Order]
  PROVE  \A m \in Slot : Open(ord)[m] = Remaining(ord[m]) /\ Open(ord)[m] \in Int
<1>. SUFFICES ASSUME NEW m \in Slot
     PROVE  Open(ord)[m] = Remaining(ord[m]) /\ Open(ord)[m] \in Int
  OBVIOUS
<1>1. ord[m].quantity \in Int /\ ord[m].filled_qty \in Int
  BY DEF Order, Quantity
<1>. QED
  BY <1>1 DEF Open, Remaining

\* OpenIn, which the properties use, is this sum.
LEMMA OpenInIs ==
  ASSUME order \in [Slot -> Order], NEW S \in SUBSET Slot
  PROVE  OpenIn(S) = SumFunctionOnSet(Open(order), S)
<1>. DEFINE f == Open(order)
<1>1. \A x \in S : f[x] \in Int /\ f[x] = Remaining(order[x])
  BY OpenIs
<1>2. [x \in S |-> f[x]] = [m \in S |-> Remaining(order[m])]
  BY <1>1
<1>3. SumFunction([x \in S |-> f[x]]) = SumFunctionOnSet(f, S)
  <2>. HIDE DEF f
  <2>. QED BY <1>1, SlotIsFinite, SumOfAll
<1>. QED
  BY <1>2, <1>3 DEF OpenIn

LEMMA QueueIsFinite ==
  ASSUME NEW l, l.queue \in Seq(Slot)
  PROVE  ToSet(l.queue) \subseteq Slot /\ IsFiniteSet(ToSet(l.queue))
<1>1. ToSet(l.queue) \subseteq Slot
  BY DEF ToSet
<1>. QED
  BY <1>1, SlotIsFinite

\* A level whose orders have what they had has the total it had.
LEMMA SameTotal ==
  ASSUME NEW l, l.queue \in Seq(Slot), NEW ord \in [Slot -> Order], NEW ord2 \in [Slot -> Order],
         TotalIs(l, ord),
         \A x \in ToSet(l.queue) : Remaining(ord2[x]) = Remaining(ord[x])
  PROVE  TotalIs(l, ord2)
<1>. DEFINE f == Open(ord)
            g == Open(ord2)
            S == ToSet(l.queue)
<1>1. IsFiniteSet(S) /\ S \subseteq Slot
  BY QueueIsFinite
<1>2. \A x \in S : f[x] \in Int /\ g[x] = f[x]
  <2>1. ASSUME NEW x \in S
        PROVE  f[x] \in Int /\ g[x] = f[x]
    <3>1. f[x] = Remaining(ord[x]) /\ f[x] \in Int
      BY <1>1, OpenIs
    <3>2. g[x] = Remaining(ord2[x])
      BY <1>1, OpenIs
    <3>. QED BY <3>1, <3>2
  <2>. QED BY <2>1
<1>3. SumFunctionOnSet(g, S) = SumFunctionOnSet(f, S)
  <2>. HIDE DEF f, g, S
  <2>. QED BY <1>1, <1>2, SumOfSame
<1>. QED
  BY <1>3 DEF TotalIs

\* execute_trade and amend_order lower the total by what one of the orders
\* has less.
LEMMA TakeQtyTotal ==
  ASSUME NEW l \in PriceLevel, NEW ord \in [Slot -> Order], NEW ord2 \in [Slot -> Order],
         TotalIs(l, ord), NEW m \in ToSet(l.queue),
         \A x \in ToSet(l.queue) : x # m => ord2[x] = ord[x],
         NEW d, d = Remaining(ord[m]) - Remaining(ord2[m])
  PROVE  TotalIs(TakeQty(l, d), ord2)
<1>. DEFINE f == Open(ord)
            g == Open(ord2)
            S == ToSet(l.queue)
<1>0. l.queue \in Seq(Slot)
  BY DEF PriceLevel
<1>1. IsFiniteSet(S) /\ S \subseteq Slot /\ m \in S
  BY <1>0, QueueIsFinite
<1>2. /\ \A y \in S : f[y] \in Int /\ g[y] \in Int
      /\ \A y \in S : f[y] = Remaining(ord[y]) /\ g[y] = Remaining(ord2[y])
  BY <1>1, OpenIs
<1>3. \A y \in S \ {m} : g[y] = f[y]
  <2>1. ASSUME NEW y \in S \ {m}
        PROVE  g[y] = f[y]
    <3>1. ord2[y] = ord[y]
      OBVIOUS
    <3>. HIDE DEF f, g
    <3>. QED BY <3>1, <1>2
  <2>. HIDE DEF f, g
  <2>. QED BY <2>1
<1>4. d = f[m] - g[m]
  <2>. HIDE DEF f, g
  <2>. QED BY <1>1, <1>2
<1>5. l.total_qty = SumFunctionOnSet(f, S) % QtyMod
  BY DEF TotalIs
<1>6. (l.total_qty - d) % QtyMod = SumFunctionOnSet(g, S) % QtyMod
  <2>. HIDE DEF f, g, S
  <2>. QED BY <1>1, <1>2, <1>3, <1>4, <1>5, OrderBookAssumption, TotalOfChanged
<1>7. TakeQty(l, d).total_qty = (l.total_qty - d) % QtyMod /\ TakeQty(l, d).queue = l.queue
  BY DEF TakeQty, PriceLevel
<1>. QED
  BY <1>6, <1>7 DEF TotalIs

LEMMA UnlinkTakesOut ==
  ASSUME NEW ord \in [Slot -> Order], NEW s, NEW p, NEW l, GoodLevel(ord, s, p, l),
         NEW m \in ToSet(l.queue), NEW o \in Order
  PROVE  ToSet(Unlink(l, m, o).queue) = ToSet(l.queue) \ {m}
<1>. DEFINE r == ToSet(Unlink(l, m, o).queue)
<1>1. \A x : x \in r <=> x \in ToSet(l.queue) /\ x # m
  BY UnlinkIsGood
<1>. HIDE DEF r
<1>2. r = ToSet(l.queue) \ {m}
  BY <1>1
<1>. QED
  BY <1>2 DEF r

\* remove() takes out of the total what the order that leaves has left.
LEMMA UnlinkTotal ==
  ASSUME NEW ord \in [Slot -> Order], NEW s, NEW p, NEW l, GoodLevel(ord, s, p, l),
         NEW ordx \in [Slot -> Order], TotalIs(l, ordx), NEW m \in ToSet(l.queue),
         NEW ord2 \in [Slot -> Order], \A x \in ToSet(l.queue) : x # m => ord2[x] = ordx[x]
  PROVE  TotalIs(Unlink(l, m, ordx[m]), ord2)
<1>. DEFINE f == Open(ordx)
            g == Open(ord2)
            S == ToSet(l.queue)
            u == Unlink(l, m, ordx[m])
<1>0. l.queue \in Seq(Slot)
  BY DEF GoodLevel, PriceLevel
<1>1. IsFiniteSet(S) /\ S \subseteq Slot /\ m \in S
  BY <1>0, QueueIsFinite
<1>2. /\ \A y \in S : f[y] \in Int
      /\ \A y \in S : f[y] = Remaining(ordx[y]) /\ g[y] = Remaining(ord2[y])
  BY <1>1, OpenIs
<1>3. \A y \in S \ {m} : g[y] = f[y]
  <2>1. ASSUME NEW y \in S \ {m}
        PROVE  g[y] = f[y]
    <3>1. ord2[y] = ordx[y]
      OBVIOUS
    <3>. HIDE DEF f, g
    <3>. QED BY <3>1, <1>2
  <2>. HIDE DEF f, g
  <2>. QED BY <2>1
<1>4. l.total_qty = SumFunctionOnSet(f, S) % QtyMod
  BY DEF TotalIs
<1>5. (l.total_qty - f[m]) % QtyMod = SumFunctionOnSet(g, S \ {m}) % QtyMod
  <2>1. QtyMod \in Nat \ {0}
    BY OrderBookAssumption
  <2>2. IsFiniteSet(S) /\ m \in S /\ \A y \in S : f[y] \in Int
    BY <1>1, <1>2
  <2>. HIDE DEF f, g, S
  <2>. QED BY <1>3, <1>4, <2>1, <2>2, TotalOfOneLess, SMTT(30)
<1>6. u.total_qty = (l.total_qty - f[m]) % QtyMod
  BY <1>1, <1>2 DEF Unlink
<1>7. ToSet(u.queue) = S \ {m}
  <2>1. ordx[m] \in Order
    BY <1>1
  <2>2. ASSUME NEW o \in Order
        PROVE  ToSet(Unlink(l, m, o).queue) = ToSet(l.queue) \ {m}
    BY UnlinkTakesOut
  <2>. QED BY <2>1, <2>2
<1>. HIDE DEF u
<1>8. TotalIs(u, ord2)
  BY <1>5, <1>6, <1>7 DEF TotalIs
<1>. QED
  BY <1>8 DEF u

\* rest_order adds what the order that comes has left.
LEMMA RestTotal ==
  ASSUME NEW l \in PriceLevel, NEW ord \in [Slot -> Order], NEW ord2 \in [Slot -> Order],
         TotalIs(l, ord), NEW m \in Slot, m \notin ToSet(l.queue),
         \A x \in ToSet(l.queue) : ord2[x] = ord[x],
         NEW o \in Order, Remaining(o) = Remaining(ord2[m])
  PROVE  TotalIs(TakeQty(PushBack(l, m, o), o.filled_qty), ord2)
<1>. DEFINE f == Open(ord)
            g == Open(ord2)
            S == ToSet(l.queue)
            r == TakeQty(PushBack(l, m, o), o.filled_qty)
<1>0. l.queue \in Seq(Slot) /\ l.total_qty \in Int /\ o.quantity \in Int /\ o.filled_qty \in Int
  BY DEF PriceLevel, Order, Quantity
<1>1. IsFiniteSet(S) /\ S \subseteq Slot /\ m \notin S
  BY <1>0, QueueIsFinite
<1>2. /\ \A y \in Slot : f[y] \in Int /\ g[y] \in Int
      /\ \A y \in Slot : f[y] = Remaining(ord[y]) /\ g[y] = Remaining(ord2[y])
  BY OpenIs
<1>3. (\A y \in S : f[y] \in Int /\ g[y] = f[y]) /\ g[m] \in Int /\ g[m] = o.quantity - o.filled_qty
  <2>1. ASSUME NEW y \in S
        PROVE  f[y] \in Int /\ g[y] = f[y]
    <3>1. ord2[y] = ord[y] /\ y \in Slot
      BY <1>1
    <3>. HIDE DEF f, g
    <3>. QED BY <3>1, <1>2
  <2>. HIDE DEF f, g
  <2>. QED BY <2>1, <1>2 DEF Remaining
<1>4. l.total_qty = SumFunctionOnSet(f, S) % QtyMod
  BY DEF TotalIs
<1>5. (l.total_qty + g[m]) % QtyMod = SumFunctionOnSet(g, S \cup {m}) % QtyMod
  <2>. HIDE DEF f, g, S
  <2>. QED BY <1>1, <1>3, <1>4, OrderBookAssumption, TotalOfOneMore
<1>6. r.total_qty = (((l.total_qty + o.quantity) % QtyMod) - o.filled_qty) % QtyMod
      /\ r.queue = Append(l.queue, m)
  BY DEF TakeQty, PushBack
<1>7. r.total_qty = (l.total_qty + g[m]) % QtyMod
  <2>. DEFINE a == l.total_qty + o.quantity
              b == -o.filled_qty
  <2>1. a \in Int /\ b \in Int /\ a % QtyMod \in Int
    BY <1>0, OrderBookAssumption
  <2>2. (a % QtyMod) - o.filled_qty = (a % QtyMod) + b /\ a + b = l.total_qty + g[m]
    <3>1. a % QtyMod \in Int
      BY <2>1
    <3>. HIDE DEF g
    <3>. QED BY <3>1, <1>0, <1>3
  <2>3. ((a % QtyMod) + b) % QtyMod = (a + b) % QtyMod
    <3>. HIDE DEF a, b
    <3>. QED BY <2>1, OrderBookAssumption, ModOfSum
  <2>. QED
    BY <1>6, <2>2, <2>3
<1>8. ToSet(r.queue) = S \cup {m}
  <2>. DEFINE q == l.queue
              z == Append(q, m)
  <2>1. /\ z \in Seq(Slot) /\ Len(z) = Len(q) + 1 /\ z[Len(q) + 1] = m
        /\ \A i \in 1 .. Len(q) : z[i] = q[i]
        /\ Len(q) \in Nat /\ DOMAIN q = 1 .. Len(q) /\ DOMAIN z = 1 .. Len(q) + 1
    BY <1>0, AppendProperties
  <2>2. r.queue = z
    BY <1>6
  <2>. HIDE DEF q, z, r
  <2>3. \A x : x \in ToSet(z) <=> x \in ToSet(q) \/ x = m
    <3>1. \A x : x \in ToSet(z) <=> \E i \in 1 .. Len(q) + 1 : z[i] = x
      BY <2>1 DEF ToSet
    <3>2. \A x : x \in ToSet(q) <=> \E i \in 1 .. Len(q) : q[i] = x
      BY <2>1 DEF ToSet
    <3>3. \A i : i \in 1 .. Len(q) + 1 <=> i \in 1 .. Len(q) \/ i = Len(q) + 1
      BY <2>1
    <3>. QED BY <3>1, <3>2, <3>3, <2>1
  <2>. QED BY <2>2, <2>3 DEF q
<1>. HIDE DEF r
<1>9. TotalIs(r, ord2)
  BY <1>5, <1>7, <1>8 DEF TotalIs
<1>. QED
  BY <1>9 DEF r

-----------------------------------------------------------------------------
(* The totals of all levels.                                               *)

\* A slot is queued in one level only.
LEMMA QueuedOnce ==
  ASSUME NEW b, NEW ord, GoodBook(b, ord), NEW s \in Side, NEW p, NEW m, In(b, m, s, p),
         NEW t \in Side, NEW q, In(b, m, t, q)
  PROVE  t = s /\ q = p
<1>1. Fits(ord[m], s, p)
  BY QueuedFits
<1>2. Fits(ord[m], t, q)
  BY QueuedFits
<1>. QED
  BY <1>1, <1>2 DEF Fits

LEMMA GoodQueue ==
  ASSUME NEW b, NEW ord, GoodBook(b, ord), NEW s \in Side, NEW p \in DOMAIN b[s]
  PROVE  b[s][p] \in PriceLevel /\ b[s][p].queue \in Seq(Slot) /\ GoodLevel(ord, s, p, b[s][p])
  BY DEF GoodBook, GoodLevel, PriceLevel

\* The level of s at p goes its own way; the orders of the others are as before.
Elsewhere(b, s, p, ord) ==
  \A t \in Side : \A q \in DOMAIN b[t] : t # s \/ q # p => TotalIs(b[t][q], ord)

LEMMA ElsewhereKept ==
  ASSUME NEW b, NEW ord \in [Slot -> Order], GoodBook(b, ord), TotalsAre(b, ord),
         NEW ord2 \in [Slot -> Order], NEW s \in Side, NEW p,
         \A t \in Side : \A q, x : In(b, x, t, q) /\ ~In(b, x, s, p) =>
           Remaining(ord2[x]) = Remaining(ord[x])
  PROVE  Elsewhere(b, s, p, ord2)
<1>. SUFFICES ASSUME NEW t \in Side, NEW q \in DOMAIN b[t], t # s \/ q # p
     PROVE  TotalIs(b[t][q], ord2)
  BY DEF Elsewhere
<1>1. b[t][q].queue \in Seq(Slot) /\ TotalIs(b[t][q], ord)
  BY GoodQueue DEF TotalsAre
<1>2. ASSUME NEW x \in ToSet(b[t][q].queue)
      PROVE  Remaining(ord2[x]) = Remaining(ord[x])
  <2>1. In(b, x, t, q)
    BY DEF In
  <2>2. ~In(b, x, s, p)
    BY <2>1, QueuedOnce
  <2>. QED BY <2>1, <2>2
<1>. DEFINE l == b[t][q]
<1>. HIDE DEF l
<1>3. l.queue \in Seq(Slot) /\ TotalIs(l, ord)
      /\ \A x \in ToSet(l.queue) : Remaining(ord2[x]) = Remaining(ord[x])
  BY <1>1, <1>2 DEF l
<1>4. TotalIs(l, ord2)
  BY <1>3, SameTotal
<1>. QED
  BY <1>4 DEF l

LEMMA SetLevelTotals ==
  ASSUME NEW b, WellFormed(b), NEW s \in Side, NEW p \in Prices, NEW l, NEW ord,
         TotalIs(l, ord), Elsewhere(b, s, p, ord)
  PROVE  TotalsAre(SetLevel(b, s, p, l), ord)
<1>. DEFINE b2 == SetLevel(b, s, p, l)
<1>1. /\ DOMAIN b2[s] = DOMAIN b[s] \cup {p}
      /\ b2[s][p] = l
      /\ \A q \in DOMAIN b[s] : q # p => b2[s][q] = b[s][q]
      /\ \A t \in Side : t # s => b2[t] = b[t]
  BY SetLevelIs
<1>. HIDE DEF b2
<1>2. ASSUME NEW t \in Side, NEW q \in DOMAIN b2[t]
      PROVE  TotalIs(b2[t][q], ord)
  <2>1. CASE t = s /\ q = p
    BY <2>1, <1>1
  <2>2. CASE t = s /\ q # p
    <3>1. q \in DOMAIN b[t] /\ b2[t][q] = b[t][q]
      BY <2>2, <1>1
    <3>2. TotalIs(b[t][q], ord)
      BY <3>1, <2>2 DEF Elsewhere
    <3>. QED BY <3>1, <3>2
  <2>3. CASE t # s
    <3>1. q \in DOMAIN b[t] /\ b2[t][q] = b[t][q]
      BY <2>3, <1>1
    <3>2. TotalIs(b[t][q], ord)
      BY <3>1, <2>3 DEF Elsewhere
    <3>. QED BY <3>1, <3>2
  <2>. QED BY <2>1, <2>2, <2>3
<1>3. TotalsAre(b2, ord)
  BY <1>2 DEF TotalsAre
<1>. QED
  BY <1>3 DEF b2

LEMMA SetOrEraseTotals ==
  ASSUME NEW b, WellFormed(b), NEW s \in Side, NEW p \in DOMAIN b[s], NEW l, NEW ord,
         TotalIs(l, ord), Elsewhere(b, s, p, ord)
  PROVE  TotalsAre(SetOrErase(b, s, p, l), ord)
<1>1. CASE l.queue # <<>>
  <2>1. p \in Prices
    BY DEF WellFormed
  <2>2. TotalsAre(SetLevel(b, s, p, l), ord)
    BY <2>1, SetLevelTotals
  <2>. QED BY <1>1, <2>2 DEF SetOrErase
<1>2. CASE l.queue = <<>>
  <2>. DEFINE b2 == EraseLevel(b, s, p)
  <2>1. /\ DOMAIN b2[s] = DOMAIN b[s] \ {p}
        /\ \A q \in DOMAIN b2[s] : b2[s][q] = b[s][q]
        /\ \A t \in Side : t # s => b2[t] = b[t]
    BY EraseLevelIs
  <2>. HIDE DEF b2
  <2>2. ASSUME NEW t \in Side, NEW q \in DOMAIN b2[t]
        PROVE  TotalIs(b2[t][q], ord)
    <3>1. q \in DOMAIN b[t] /\ b2[t][q] = b[t][q] /\ (t # s \/ q # p)
      BY <2>1
    <3>2. TotalIs(b[t][q], ord)
      BY <3>1 DEF Elsewhere
    <3>. QED BY <3>1, <3>2
  <2>3. TotalsAre(b2, ord)
    BY <2>2 DEF TotalsAre
  <2>. QED BY <1>2, <2>3 DEF SetOrErase, b2
<1>. QED
  BY <1>1, <1>2

\* remove_from_book.
LEMMA RemoveFromBookTotals ==
  ASSUME NEW b, NEW ord \in [Slot -> Order], GoodBook(b, ord), TotalsAre(b, ord),
         NEW m \in Slot, NEW o, o = ord[m], In(b, m, o.side, o.price),
         NEW ord2 \in [Slot -> Order], \A x \in Slot : x # m => ord2[x] = ord[x]
  PROVE  TotalsAre(RemoveFromBook(b, m, o), ord2)
<1>. DEFINE s == o.side
            p == o.price
            l == b[s][p]
            u == Unlink(l, m, ord[m])
<1>1. s \in Side /\ p \in DOMAIN b[s] /\ m \in ToSet(l.queue)
  BY DEF Order, In
<1>2. RemoveFromBook(b, m, o) = SetOrErase(b, s, p, u)
  BY <1>1 DEF RemoveFromBook
<1>3. l \in PriceLevel /\ l.queue \in Seq(Slot) /\ GoodLevel(ord, s, p, l) /\ TotalIs(l, ord)
  <2>. HIDE DEF s, p
  <2>. QED BY <1>1, GoodQueue DEF TotalsAre
<1>4. ToSet(l.queue) \subseteq Slot
  <2>. HIDE DEF l
  <2>. QED BY <1>3, QueueIsFinite
<1>5. TotalIs(u, ord2)
  <2>. HIDE DEF l
  <2>. QED BY <1>1, <1>3, <1>4, UnlinkTotal
<1>6. Elsewhere(b, s, p, ord2)
  <2>1. ASSUME NEW t \in Side, NEW q, NEW x, In(b, x, t, q), ~In(b, x, s, p)
        PROVE  Remaining(ord2[x]) = Remaining(ord[x])
    <3>1. x \in Slot
      BY <2>1, QueuedFits
    <3>2. x # m
      BY <2>1
    <3>. QED BY <3>1, <3>2
  <2>. HIDE DEF s, p
  <2>. QED BY <1>1, <2>1, ElsewhereKept
<1>7. TotalsAre(SetOrErase(b, s, p, u), ord2)
  <2>1. WellFormed(b)
    BY DEF GoodBook
  <2>. HIDE DEF s, p, u
  <2>. QED BY <2>1, <1>1, <1>5, <1>6, SetOrEraseTotals
<1>. QED
  BY <1>2, <1>7

\* rest_order of an order that is in no queue.
LEMMA RestOrderTotals ==
  ASSUME NEW b, NEW ord \in [Slot -> Order], GoodBook(b, ord), TotalsAre(b, ord),
         NEW m \in Slot, NEW o \in Order, o.price \in Prices,
         NEW ord2 \in [Slot -> Order], \A x \in Slot : x # m => ord2[x] = ord[x],
         \A s \in Side : \A p : ~In(b, m, s, p),
         Remaining(o) = Remaining(ord2[m])
  PROVE  TotalsAre(RestOrder(b, m, o), ord2)
<1>. DEFINE s == o.side
            p == o.price
            l == LevelAt(b, s, p)
            r == TakeQty(PushBack(l, m, o), o.filled_qty)
<1>1. s \in Side /\ p \in Prices /\ RestOrder(b, m, o) = SetLevel(b, s, p, r)
  BY DEF Order, RestOrder
<1>2. l \in PriceLevel /\ TotalIs(l, ord) /\ m \notin ToSet(l.queue)
  <2>. HIDE DEF s, p
  <2>1. CASE p \in DOMAIN b[s]
    <3>1. l = b[s][p]
      BY <2>1 DEF LevelAt
    <3>2. b[s][p] \in PriceLevel /\ TotalIs(b[s][p], ord) /\ m \notin ToSet(b[s][p].queue)
      BY <1>1, <2>1, GoodQueue DEF TotalsAre, In
    <3>. QED BY <3>1, <3>2
  <2>2. CASE p \notin DOMAIN b[s]
    <3>1. l = EmptyLevel
      BY <2>2 DEF LevelAt
    <3>2. EmptyLevel \in PriceLevel
      BY OrderBookAssumption DEF EmptyLevel, PriceLevel, Quantity
    <3>3. ToSet(EmptyLevel.queue) = {}
      BY DEF EmptyLevel, ToSet
    <3>4. TotalIs(EmptyLevel, ord)
      <4>1. 0 % QtyMod = 0
        BY OrderBookAssumption
      <4>2. EmptyLevel.total_qty = 0
        BY DEF EmptyLevel
      <4>. QED BY <4>1, <4>2, <3>3, SumOfNone DEF TotalIs
    <3>. HIDE DEF l
    <3>. QED BY <3>1, <3>2, <3>3, <3>4
  <2>. QED BY <2>1, <2>2
<1>3. \A x \in ToSet(l.queue) : ord2[x] = ord[x]
  <2>. HIDE DEF l
  <2>1. ToSet(l.queue) \subseteq Slot
    <3>1. l.queue \in Seq(Slot)
      BY <1>2 DEF PriceLevel
    <3>. QED BY <3>1, QueueIsFinite
  <2>. QED BY <2>1, <1>2
<1>4. TotalIs(r, ord2)
  <2>. HIDE DEF l
  <2>. QED BY <1>2, <1>3, RestTotal
<1>5. Elsewhere(b, s, p, ord2)
  <2>1. ASSUME NEW t \in Side, NEW q, NEW x, In(b, x, t, q), ~In(b, x, s, p)
        PROVE  Remaining(ord2[x]) = Remaining(ord[x])
    <3>1. x \in Slot
      BY <2>1, QueuedFits
    <3>2. x # m
      BY <2>1
    <3>. QED BY <3>1, <3>2
  <2>. HIDE DEF s, p
  <2>. QED BY <1>1, <2>1, ElsewhereKept
<1>6. TotalsAre(SetLevel(b, s, p, r), ord2)
  <2>1. WellFormed(b)
    BY DEF GoodBook
  <2>. HIDE DEF s, p, r
  <2>. QED BY <2>1, <1>1, <1>4, <1>5, SetLevelTotals
<1>. QED
  BY <1>1, <1>6

\* A book that stays while its orders keep what they have left.
LEMMA SameBookTotals ==
  ASSUME NEW b, NEW ord \in [Slot -> Order], GoodBook(b, ord), TotalsAre(b, ord),
         NEW ord2 \in [Slot -> Order],
         \A s \in Side : \A p, x : In(b, x, s, p) => Remaining(ord2[x]) = Remaining(ord[x])
  PROVE  TotalsAre(b, ord2)
<1>. SUFFICES ASSUME NEW s \in Side, NEW p \in DOMAIN b[s] PROVE TotalIs(b[s][p], ord2)
  BY DEF TotalsAre
<1>. DEFINE l == b[s][p]
<1>1. l.queue \in Seq(Slot) /\ TotalIs(l, ord)
  BY GoodQueue DEF TotalsAre
<1>2. \A x \in ToSet(l.queue) : Remaining(ord2[x]) = Remaining(ord[x])
  BY DEF In
<1>. HIDE DEF l
<1>3. TotalIs(l, ord2)
  BY <1>1, <1>2, SameTotal
<1>. QED
  BY <1>3 DEF l

-----------------------------------------------------------------------------
(* Each action keeps the totals.                                           *)

Totals == TotalsAre(book, order)

LEMMA InitTotals == Init => Totals
<1>. SUFFICES ASSUME Init, NEW s \in Side, NEW p \in DOMAIN book[s] PROVE FALSE
  BY DEF Totals, TotalsAre
<1>1. book[s] = <<>>
  BY DEF Init
<1>. QED
  BY <1>1

\* The steps that leave the queues alone and change no order in one.
LEMMA QuietTotals ==
  ASSUME IInv, IInv', Totals, book' = book,
         \A s \in Side : \A p, x : In(book, x, s, p) => order'[x] = order[x]
  PROVE  Totals'
<1>1. /\ order \in [Slot -> Order] /\ order' \in [Slot -> Order]
      /\ GoodBook(book, order) /\ TotalsAre(book, order)
  BY DEF IInv, TypeOK, BookIsSound, Totals
<1>2. \A s \in Side : \A p, x : In(book, x, s, p) => Remaining(order'[x]) = Remaining(order[x])
  OBVIOUS
<1>3. TotalsAre(book, order')
  BY <1>1, <1>2, SameBookTotals
<1>. QED
  BY <1>3 DEF Totals

\* The order in a slot off the free list is new to the book.
LEMMA AddOrderTotals ==
  ASSUME IInv, IInv', Totals, NEW side, NEW type, NEW price, NEW quantity,
         AddOrder(side, type, price, quantity)
  PROVE  Totals'
<1>. DEFINE slot == Head(free)
            new == [id |-> id_counter + 1, price |-> price, quantity |-> quantity,
                    filled_qty |-> 0, side |-> side, type |-> type, status |-> "NEW", rank |-> 0]
<1>1. /\ book' = book /\ free # <<>>
      /\ order' = [order EXCEPT ![slot] = new]
  BY DEF AddOrder
<1>2. order[slot].id = 0
  <2>1. free \in Seq(Slot) /\ ToSet(free) = Slot \ Allocated
    BY DEF IInv, TypeOK, FreeIsSound
  <2>2. slot = free[1] /\ 1 \in DOMAIN free
    BY <1>1, <2>1, EmptySeq
  <2>3. slot \in ToSet(free)
    BY <2>2 DEF ToSet
  <2>. HIDE DEF slot
  <2>. QED BY <2>1, <2>3 DEF Allocated
<1>. HIDE DEF slot, new
<1>3. ASSUME NEW s \in Side, NEW p, NEW x, In(book, x, s, p)
      PROVE  order'[x] = order[x]
  <2>1. x \in Slot /\ order[x].id # 0
    BY <1>3, QueuedIsOther DEF IInv, Fits
  <2>. QED BY <2>1, <1>1, <1>2 DEF IInv, TypeOK
<1>. QED
  BY <1>1, <1>3, QuietTotals

LEMMA RestResidualTotals ==
  ASSUME IInv, IInv', Totals, RestResidual
  PROVE  Totals'
<1>. DEFINE t == order[taker]
<1>1. /\ pc = "matching" /\ book' = RestOrder(book, taker, t)
      /\ order' = [order EXCEPT ![taker].rank = clock + 1]
  BY DEF RestResidual
<1>2. /\ order \in [Slot -> Order] /\ order' \in [Slot -> Order]
      /\ taker \in Slot /\ t \in Order /\ t.price \in Prices
      /\ GoodBook(book, order) /\ TotalsAre(book, order)
  BY <1>1 DEF IInv, TypeOK, BookIsSound, TakerIsSound, Totals
<1>3. \A x \in Slot : x # taker => order'[x] = order[x]
  BY <1>1, <1>2
<1>4. Remaining(t) = Remaining(order'[taker])
  <2>1. order'[taker] = [t EXCEPT !.rank = clock + 1]
    BY <1>1, <1>2
  <2>2. order'[taker].quantity = t.quantity /\ order'[taker].filled_qty = t.filled_qty
    BY <2>1, <1>2 DEF Order
  <2>. QED BY <2>2 DEF Remaining
<1>5. \A s \in Side : \A p : ~In(book, taker, s, p)
  BY QueuedIsOther DEF IInv
<1>6. TotalsAre(RestOrder(book, taker, t), order')
  <2>. HIDE DEF t
  <2>. QED BY <1>2, <1>3, <1>4, <1>5, RestOrderTotals
<1>. QED
  BY <1>1, <1>6 DEF Totals

LEMMA CancelOrderTotals ==
  ASSUME IInv, IInv', Totals, NEW id, CancelOrder(id)
  PROVE  Totals'
<1>. DEFINE m == order_map[id]
            o == order[m]
<1>1. /\ pc = "idle" /\ Known(id) /\ book' = RemoveFromBook(book, m, o)
      /\ order' = [order EXCEPT ![m] = DefaultOrder]
  BY DEF CancelOrder
<1>2. /\ order \in [Slot -> Order] /\ order' \in [Slot -> Order]
      /\ m \in Slot /\ In(book, m, o.side, o.price)
      /\ GoodBook(book, order) /\ TotalsAre(book, order)
  BY <1>1, KnownIsQueued DEF IInv, TypeOK, BookIsSound, Totals
<1>. HIDE DEF m
<1>3. \A x \in Slot : x # m => order'[x] = order[x]
  BY <1>1, <1>2
<1>4. TotalsAre(RemoveFromBook(book, m, o), order')
  BY <1>2, <1>3, RemoveFromBookTotals
<1>. QED
  BY <1>1, <1>4 DEF Totals

LEMMA AmendUpTotals ==
  ASSUME IInv, IInv', Totals, NEW id, NEW quantity \in Quantities, AmendUp(id, quantity)
  PROVE  Totals'
<1>. DEFINE m  == order_map[id]
            o  == order[m]
            o2 == [o EXCEPT !.quantity = quantity]
            b1 == RemoveFromBook(book, m, o)
<1>1. /\ pc = "idle" /\ Known(id) /\ book' = RestOrder(b1, m, o2)
      /\ order' = [order EXCEPT ![m].quantity = quantity, ![m].rank = clock + 1]
  BY DEF AmendUp
<1>2. /\ order \in [Slot -> Order] /\ order' \in [Slot -> Order]
      /\ m \in Slot /\ o \in Order /\ o.price \in Prices /\ In(book, m, o.side, o.price)
      /\ GoodBook(book, order) /\ TotalsAre(book, order)
  BY <1>1, KnownIsQueued DEF IInv, TypeOK, BookIsSound, Totals
<1>3. quantity \in Quantity
  BY OrderBookAssumption DEF Quantity
<1>. HIDE DEF m
<1>4. /\ o2 \in Order /\ o2.price = o.price /\ o2.quantity = quantity
      /\ o2.filled_qty = o.filled_qty
  <2>. HIDE DEF o
  <2>. QED BY <1>2, <1>3 DEF Order
<1>5. Remaining(o2) = Remaining(order'[m]) /\ \A x \in Slot : x # m => order'[x] = order[x]
  <2>1. order'[m] = [o EXCEPT !.quantity = quantity, !.rank = clock + 1]
        /\ \A x \in Slot : x # m => order'[x] = order[x]
    BY <1>1, <1>2
  <2>2. order'[m].quantity = quantity /\ order'[m].filled_qty = o.filled_qty
    <3>. HIDE DEF o
    <3>. QED BY <2>1, <1>2 DEF Order
  <2>. HIDE DEF o2
  <2>. QED BY <2>1, <2>2, <1>4 DEF Remaining
<1>6. GoodBook(b1, order) /\ \A s \in Side : \A p : ~In(b1, m, s, p)
  <2>1. /\ GoodBook(b1, order)
        /\ \A s \in Side : \A x, p : In(b1, x, s, p) <=> In(book, x, s, p) /\ x # m
    <3>. HIDE DEF o
    <3>. QED BY <1>2, RemoveFromBookIsGood
  <2>. HIDE DEF b1
  <2>. QED BY <2>1
<1>7. TotalsAre(b1, order)
  BY <1>2, RemoveFromBookTotals
<1>8. TotalsAre(RestOrder(b1, m, o2), order')
  <2>1. o2.price \in Prices
    BY <1>2, <1>4
  <2>2. Remaining(o2) = Remaining(order'[m]) /\ \A x \in Slot : x # m => order'[x] = order[x]
    BY <1>5
  <2>. HIDE DEF b1, o2, o
  <2>. QED BY <2>1, <2>2, <1>2, <1>4, <1>6, <1>7, RestOrderTotals
<1>. QED
  BY <1>1, <1>8 DEF Totals

LEMMA AmendDownTotals ==
  ASSUME IInv, IInv', Totals, NEW id, NEW quantity \in Quantities, AmendDown(id, quantity)
  PROVE  Totals'
<1>. DEFINE m  == order_map[id]
            o  == order[m]
            s  == o.side
            p  == o.price
            l  == book[s][p]
            d  == o.quantity - quantity
<1>1. /\ pc = "idle" /\ Known(id)
      /\ book' = IF p \in DOMAIN book[s] THEN SetLevel(book, s, p, TakeQty(l, d)) ELSE book
      /\ order' = [order EXCEPT ![m].quantity = quantity]
  BY DEF AmendDown
<1>2. /\ order \in [Slot -> Order] /\ order' \in [Slot -> Order]
      /\ m \in Slot /\ o \in Order /\ s \in Side /\ p \in Prices /\ In(book, m, s, p)
      /\ GoodBook(book, order) /\ TotalsAre(book, order)
  BY <1>1, KnownIsQueued DEF IInv, TypeOK, BookIsSound, Totals
<1>3. quantity \in Int /\ o.quantity \in Int /\ o.filled_qty \in Int
  BY <1>2, OrderBookAssumption DEF Quantity, Order
<1>. HIDE DEF m
<1>4. d = Remaining(o) - Remaining(order'[m]) /\ \A x \in Slot : x # m => order'[x] = order[x]
  <2>1. order'[m] = [o EXCEPT !.quantity = quantity]
        /\ \A x \in Slot : x # m => order'[x] = order[x]
    BY <1>1, <1>2
  <2>2. order'[m].quantity = quantity /\ order'[m].filled_qty = o.filled_qty
    <3>. HIDE DEF o
    <3>. QED BY <2>1, <1>2 DEF Order
  <2>. HIDE DEF o
  <2>. QED BY <2>1, <2>2, <1>3 DEF Remaining
<1>5. p \in DOMAIN book[s] /\ m \in ToSet(l.queue) /\ book' = SetLevel(book, s, p, TakeQty(l, d))
  <2>1. p \in DOMAIN book[s] /\ m \in ToSet(l.queue)
    BY <1>2 DEF In
  <2>. QED BY <1>1, <2>1
<1>. HIDE DEF d, s, p
<1>6. l \in PriceLevel /\ l.queue \in Seq(Slot) /\ TotalIs(l, order)
  BY <1>2, <1>5, GoodQueue DEF TotalsAre
<1>. HIDE DEF l
<1>7. TotalIs(TakeQty(l, d), order')
  <2>1. d = Remaining(order[m]) - Remaining(order'[m])
    BY <1>4
  <2>2. \A x \in ToSet(l.queue) : x # m => order'[x] = order[x]
    BY <1>4, <1>6, QueueIsFinite
  <2>. HIDE DEF o
  <2>. QED BY <2>1, <2>2, <1>2, <1>5, <1>6, TakeQtyTotal
<1>8. Elsewhere(book, s, p, order')
  <2>1. ASSUME NEW t \in Side, NEW q, NEW x, In(book, x, t, q), ~In(book, x, s, p)
        PROVE  Remaining(order'[x]) = Remaining(order[x])
    <3>1. x \in Slot
      BY <2>1, <1>2, QueuedFits
    <3>2. x # m
      BY <2>1, <1>2
    <3>. QED BY <3>1, <3>2, <1>4
  <2>. QED BY <2>1, <1>2, ElsewhereKept
<1>9. TotalsAre(SetLevel(book, s, p, TakeQty(l, d)), order')
  <2>1. WellFormed(book)
    BY <1>2 DEF GoodBook
  <2>. QED BY <2>1, <1>2, <1>7, <1>8, SetLevelTotals
<1>. QED
  BY <1>5, <1>9 DEF Totals

-----------------------------------------------------------------------------
(* One trade.                                                              *)

\* What Trade names: the side it takes from, its price, its maker and its size.
FromSide == Opposite(order[taker].side)
FromPx   == BestPrice(book, FromSide)
Maker    == Head(book[FromSide][FromPx].queue)
Taken    == IF Remaining(order[taker]) < Remaining(order[Maker])
            THEN Remaining(order[taker]) ELSE Remaining(order[Maker])

LEMMA TradersAre ==
  ASSUME IInv, pc = "matching", CanMatch
  PROVE  /\ order \in [Slot -> Order] /\ taker \in Slot /\ Maker \in Slot /\ Maker # taker
         /\ FromSide \in Side /\ FromPx \in DOMAIN book[FromSide]
         /\ In(book, Maker, FromSide, FromPx)
         /\ Fits(order[Maker], FromSide, FromPx)
         /\ order[taker].id # 0 /\ order[taker].filled_qty < order[taker].quantity
         /\ Taken \in Nat \ {0}
         /\ order[taker].filled_qty + Taken <= order[taker].quantity
         /\ order[Maker].filled_qty + Taken <= order[Maker].quantity
<1>1. /\ order \in [Slot -> Order] /\ taker \in Slot /\ order[taker].id # 0
      /\ IsActive(order[taker]) /\ order[taker].filled_qty < order[taker].quantity
      /\ FromSide \in Side /\ DOMAIN book[FromSide] # {}
  BY DEF IInv, TypeOK, TakerIsSound, Order, Opposite, Side, CanMatch, FromSide
<1>2. GoodBook(book, order) /\ DOMAIN book[FromSide] \subseteq Prices
  BY <1>1 DEF IInv, BookIsSound, TypeOK
<1>3. FromPx \in DOMAIN book[FromSide]
  BY <1>1, <1>2, BestPriceIsBest DEF FromPx
<1>4. In(book, Maker, FromSide, FromPx)
  <2>. DEFINE q == book[FromSide][FromPx].queue
  <2>1. q \in Seq(Slot) /\ q # <<>>
    BY <1>1, <1>2, <1>3, GoodQueue DEF GoodLevel
  <2>2. 1 \in DOMAIN q /\ q[1] = Head(q)
    <3>. HIDE DEF q
    <3>. QED BY <2>1, EmptySeq
  <2>. QED  BY <2>2, <1>3 DEF In, ToSet, Maker
<1>5. Maker \in Slot /\ Maker # taker /\ Fits(order[Maker], FromSide, FromPx)
  BY <1>1, <1>4, QueuedIsOther DEF IInv
<1>6. /\ order[taker].quantity \in Nat /\ order[taker].filled_qty \in Nat
      /\ order[Maker].quantity \in Nat /\ order[Maker].filled_qty \in Nat
      /\ order[Maker].filled_qty < order[Maker].quantity
  BY <1>1, <1>5, OrderBookAssumption DEF Order, Quantity, Fits
<1>7. /\ Taken \in Nat \ {0}
      /\ order[taker].filled_qty + Taken <= order[taker].quantity
      /\ order[Maker].filled_qty + Taken <= order[Maker].quantity
  BY <1>1, <1>6 DEF Remaining, Taken
<1>. QED
  BY <1>1, <1>3, <1>4, <1>5, <1>7

\* A trade takes Taken off what each of the two orders has left; an order that
\* leaves the book leaves its slot with nothing in it.
LEMMA TradeIs ==
  ASSUME IInv, Trade
  PROVE  /\ order'[taker] = Executed(order[taker], Taken)
         /\ \A x \in Slot : x # taker /\ x # Maker => order'[x] = order[x]
         /\ Remaining(order'[taker]) = Remaining(order[taker]) - Taken
         /\ Remaining(order'[Maker]) = Remaining(order[Maker]) - Taken
         /\ LET l == TakeQty(book[FromSide][FromPx], Taken)
            IN  IF Taken = Remaining(order[Maker])
                THEN /\ book' = SetOrErase(book, FromSide, FromPx,
                                           Unlink(l, Maker, Executed(order[Maker], Taken)))
                     /\ order'[Maker] = DefaultOrder
                     /\ Forget(Maker)
                ELSE /\ book' = SetLevel(book, FromSide, FromPx, l)
                     /\ order'[Maker] = Executed(order[Maker], Taken)
                     /\ free' = free /\ order_map' = order_map
<1>. DEFINE l == TakeQty(book[FromSide][FromPx], Taken)
            e == Executed(order[taker], Taken)
            f == Executed(order[Maker], Taken)
<1>1. /\ pc = "matching" /\ CanMatch
      /\ IF Taken = Remaining(order[Maker])
         THEN /\ book' = SetOrErase(book, FromSide, FromPx, Unlink(l, Maker, f))
              /\ order' = [order EXCEPT ![taker] = e, ![Maker] = DefaultOrder]
              /\ Forget(Maker)
         ELSE /\ book' = SetLevel(book, FromSide, FromPx, l)
              /\ order' = [order EXCEPT ![taker] = e, ![Maker] = f]
              /\ free' = free /\ order_map' = order_map
  BY DEF Trade, FromSide, FromPx, Maker, Taken
<1>2. /\ order \in [Slot -> Order] /\ taker \in Slot /\ Maker \in Slot /\ Maker # taker
      /\ Taken \in Nat
      /\ order[taker].filled_qty + Taken <= order[taker].quantity
      /\ order[Maker].filled_qty + Taken <= order[Maker].quantity
  BY <1>1, TradersAre
<1>3. /\ order[taker] \in Order /\ order[Maker] \in Order
      /\ order[taker].filled_qty \in Int /\ order[taker].quantity \in Int
      /\ order[Maker].filled_qty \in Int /\ order[Maker].quantity \in Int
  BY <1>2 DEF Order, Quantity
<1>4. /\ e.quantity = order[taker].quantity /\ e.filled_qty = order[taker].filled_qty + Taken
      /\ f.quantity = order[Maker].quantity /\ f.filled_qty = order[Maker].filled_qty + Taken
  BY <1>2, <1>3, ExecutedIs
<1>. HIDE DEF l, e, f
<1>5. /\ Remaining(e) = Remaining(order[taker]) - Taken
      /\ Remaining(f) = Remaining(order[Maker]) - Taken
  BY <1>2, <1>3, <1>4 DEF Remaining
<1>6. order'[taker] = e /\ \A x \in Slot : x # taker /\ x # Maker => order'[x] = order[x]
  BY <1>1, <1>2
<1>7. Taken = Remaining(order[Maker]) =>
        order'[Maker] = DefaultOrder /\ Remaining(order'[Maker]) = Remaining(order[Maker]) - Taken
  <2>1. Remaining(DefaultOrder) = 0
    BY DEF DefaultOrder, Remaining
  <2>. QED BY <2>1, <1>1, <1>2
<1>8. Taken # Remaining(order[Maker]) =>
        order'[Maker] = f /\ Remaining(order'[Maker]) = Remaining(order[Maker]) - Taken
  BY <1>1, <1>2, <1>5
<1>. QED
  BY <1>1, <1>5, <1>6, <1>7, <1>8 DEF l, e, f

LEMMA TradeTotals ==
  ASSUME IInv, IInv', Totals, Trade
  PROVE  Totals'
<1>. DEFINE s  == FromSide
            px == FromPx
            m  == Maker
            q  == Taken
            l0 == book[s][px]
            l  == TakeQty(l0, q)
            f  == Executed(order[m], q)
            ordx == [x \in Slot |-> IF x = m THEN f ELSE order[x]]
<1>1. pc = "matching" /\ CanMatch
  BY DEF Trade
<1>2. /\ order \in [Slot -> Order] /\ order' \in [Slot -> Order]
      /\ m \in Slot /\ taker \in Slot /\ m # taker /\ s \in Side /\ px \in DOMAIN book[s]
      /\ In(book, m, s, px) /\ q \in Nat /\ order[m].filled_qty + q <= order[m].quantity
      /\ GoodBook(book, order) /\ TotalsAre(book, order) /\ WellFormed(book) /\ px \in Prices
  BY <1>1, TradersAre DEF IInv, TypeOK, BookIsSound, Totals, GoodBook, WellFormed
<1>3. /\ \A x \in Slot : x # taker /\ x # m => order'[x] = order[x]
      /\ IF q = Remaining(order[m])
         THEN book' = SetOrErase(book, s, px, Unlink(l, m, f))
         ELSE book' = SetLevel(book, s, px, l) /\ order'[m] = f
  BY TradeIs
<1>. HIDE DEF s, px, m, q
<1>4. f \in Order /\ f.quantity = order[m].quantity /\ f.filled_qty = order[m].filled_qty + q
  BY <1>2, ExecutedIs
<1>. HIDE DEF f
<1>5. Remaining(order[m]) - Remaining(f) = q
  BY <1>2, <1>4 DEF Remaining, Order, Quantity
<1>6. ordx \in [Slot -> Order] /\ ordx[m] = f /\ \A x \in Slot : x # m => ordx[x] = order[x]
  BY <1>2, <1>4
<1>7. /\ l0 \in PriceLevel /\ GoodLevel(order, s, px, l0) /\ TotalIs(l0, order)
      /\ m \in ToSet(l0.queue) /\ l0.queue \in Seq(Slot)
  BY <1>2, GoodQueue DEF TotalsAre, In
<1>. HIDE DEF ordx, l0
<1>8. \A x \in ToSet(l0.queue) : x \in Slot /\ x # taker
  <2>1. \A x \in ToSet(l0.queue) : In(book, x, s, px)
    BY <1>2 DEF In, l0
  <2>. QED BY <2>1, <1>2, QueuedIsOther DEF IInv
<1>9. TotalIs(l, ordx) /\ GoodLevel(order, s, px, l) /\ l.queue = l0.queue
  <2>1. \A x \in ToSet(l0.queue) : x # m => ordx[x] = order[x]
    BY <1>6, <1>8
  <2>2. TotalIs(TakeQty(l0, q), ordx)
    BY <2>1, <1>2, <1>5, <1>6, <1>7, TakeQtyTotal
  <2>3. GoodLevel(order, s, px, TakeQty(l0, q)) /\ TakeQty(l0, q).queue = l0.queue
    BY <1>2, <1>7, TakeQtyIsGood
  <2>. QED BY <2>2, <2>3
<1>. HIDE DEF l
<1>10. Elsewhere(book, s, px, order')
  <2>1. ASSUME NEW t \in Side, NEW p, NEW x, In(book, x, t, p), ~In(book, x, s, px)
        PROVE  Remaining(order'[x]) = Remaining(order[x])
    <3>1. x \in Slot /\ x # taker
      BY <2>1, QueuedIsOther DEF IInv
    <3>2. x # m
      BY <2>1, <1>2
    <3>. QED BY <3>1, <3>2, <1>3
  <2>. QED BY <2>1, <1>2, ElsewhereKept
<1>11. \A x \in ToSet(l.queue) : x # m => order'[x] = ordx[x]
  BY <1>3, <1>6, <1>8, <1>9
<1>12. CASE q = Remaining(order[m])
  <2>1. TotalIs(Unlink(l, m, ordx[m]), order')
    BY <1>2, <1>6, <1>7, <1>9, <1>11, UnlinkTotal
  <2>2. TotalsAre(SetOrErase(book, s, px, Unlink(l, m, f)), order')
    BY <2>1, <1>2, <1>6, <1>10, SetOrEraseTotals
  <2>. QED BY <2>2, <1>3, <1>12 DEF Totals
<1>13. CASE q # Remaining(order[m])
  <2>1. order'[m] = f /\ book' = SetLevel(book, s, px, l)
    BY <1>3, <1>13
  <2>2. TotalIs(l, order')
    <3>1. \A x \in ToSet(l.queue) : Remaining(order'[x]) = Remaining(ordx[x])
      BY <2>1, <1>6, <1>11
    <3>. QED BY <3>1, <1>2, <1>6, <1>7, <1>9, SameTotal
  <2>3. TotalsAre(SetLevel(book, s, px, l), order')
    BY <2>2, <1>2, <1>10, SetLevelTotals
  <2>. QED BY <2>1, <2>3 DEF Totals
<1>. QED
  BY <1>12, <1>13

\* Every step of Next, and stuttering.
LEMMA StepTotals == IInv /\ Totals /\ [Next]_vars => Totals'
<1>. SUFFICES ASSUME IInv, Totals, [Next]_vars PROVE Totals'
  OBVIOUS
<1>1. IInv'
  BY StepIInv
<1>2. order \in [Slot -> Order]
  BY DEF IInv, TypeOK
<1>3. ASSUME book' = book, \/ order' = order
                           \/ order' = [order EXCEPT ![taker] = DefaultOrder]
      PROVE  Totals'
  <2>1. ASSUME NEW s \in Side, NEW p, NEW x, In(book, x, s, p)
        PROVE  order'[x] = order[x]
    <3>1. x \in Slot /\ x # taker
      BY <2>1, QueuedIsOther DEF IInv
    <3>. QED BY <3>1, <1>2, <1>3
  <2>. QED BY <2>1, <1>1, <1>3, QuietTotals
<1>4. CASE UNCHANGED vars \/ RejectFok \/ CancelResidual \/ StartMatching \/ FinishFilled
  BY <1>3, <1>4 DEF vars, RejectFok, CancelResidual, StartMatching, FinishFilled
<1>5. CASE Call
  BY <1>1, <1>4, <1>5, AddOrderTotals, CancelOrderTotals, AmendUpTotals, AmendDownTotals
     DEF Call, RefuseAdd, RefuseChange
<1>. QED
  BY <1>1, <1>4, <1>5, TradeTotals, RestResidualTotals DEF Next, Matching

LEMMA TotalsAlways == Spec => []Totals
  BY InitTotals, StepTotals, Invariance, PTL DEF Spec

\* The aggregates of a level are what its queue adds up to, and no empty level
\* stays in the map, though push_back, remove, execute_trade, rest_order and
\* amend_order each change them in their own way and Quantity wraps.
THEOREM Aggregates == Spec => []LevelAggregates
<1>1. IInv /\ Totals => LevelAggregates
  <2>. SUFFICES ASSUME IInv, Totals, NEW s \in Side, NEW p \in DOMAIN book[s]
       PROVE  /\ book[s][p].queue # <<>>
              /\ book[s][p].order_count = Len(book[s][p].queue)
              /\ book[s][p].total_qty = OpenIn(QueuedAt(s, p)) % QtyMod
    BY DEF LevelAggregates
  <2>1. GoodBook(book, order) /\ order \in [Slot -> Order]
    BY DEF IInv, BookIsSound, TypeOK
  <2>2. GoodLevel(order, s, p, book[s][p]) /\ book[s][p].queue \in Seq(Slot)
    BY <2>1, GoodQueue
  <2>3. QueuedAt(s, p) \subseteq Slot
    BY <2>2 DEF QueuedAt, ToSet
  <2>4. OpenIn(QueuedAt(s, p)) = SumFunctionOnSet(Open(order), QueuedAt(s, p))
    BY <2>1, <2>3, OpenInIs
  <2>. QED
    BY <2>2, <2>4 DEF GoodLevel, Totals, TotalsAre, TotalIs, QueuedAt
<1>. QED
  BY <1>1, Invariance, TotalsAlways, PTL

-----------------------------------------------------------------------------
(* Fill-or-kill.  check_fok_fillable adds up aggregates, the loop trades   *)
(* with orders: what ties them is that the orders within the price of the  *)
(* taker have, until it is filled, at least what it still needs.           *)

\* The open orders on the other side of tk, within its price.
Reach(ord, tk) ==
  {m \in Slot : /\ m # tk /\ ord[m].id # 0 /\ IsActive(ord[m])
                /\ ord[m].side = Opposite(ord[tk].side)
                /\ Crosses(ord[tk], ord[m].price)}

FokCovered ==
  (pc = "matching" /\ order[taker].type = "FOK") =>
    Remaining(order[taker]) <= SumFunctionOnSet(Open(order), Reach(order, taker))

\* Who is within reach is queued, and has something left.
LEMMA ReachIsQueued ==
  ASSUME IInv, NEW m \in Reach(order, taker)
  PROVE  /\ m \in Slot /\ order[m] \in Order /\ order[m].side \in Side
         /\ In(book, m, order[m].side, order[m].price)
         /\ Open(order)[m] \in Nat
<1>1. /\ m \in Slot /\ m # taker /\ order[m].id # 0 /\ IsActive(order[m])
      /\ order \in [Slot -> Order]
  BY DEF Reach, IInv, TypeOK
<1>2. order[m] \in Order /\ order[m].side \in Side
  BY <1>1 DEF Order
<1>3. In(book, m, order[m].side, order[m].price)
  BY <1>1 DEF Allocated, IInv, BookIsSound
<1>4. Fits(order[m], order[m].side, order[m].price)
  BY <1>2, <1>3, QueuedIsOther DEF IInv
<1>5. Open(order)[m] \in Nat
  <2>1. order[m].quantity \in Nat /\ order[m].filled_qty \in Nat
    BY <1>2, OrderBookAssumption DEF Order, Quantity
  <2>2. Open(order)[m] = order[m].quantity - order[m].filled_qty
    BY <1>1, OpenIs DEF Remaining
  <2>3. order[m].filled_qty < order[m].quantity
    BY <1>4 DEF Fits
  <2>. QED BY <2>1, <2>2, <2>3
<1>. QED
  BY <1>1, <1>2, <1>3, <1>5

LEMMA QueuedWithinIsReach ==
  ASSUME IInv, taker \in Slot, NEW p, NEW m,
         In(book, m, Opposite(order[taker].side), p), Crosses(order[taker], p)
  PROVE  m \in Reach(order, taker)
<1>1. Opposite(order[taker].side) \in Side
  BY DEF Opposite, Side
<1>2. m \in Slot /\ m # taker /\ Fits(order[m], Opposite(order[taker].side), p)
  BY <1>1, QueuedIsOther DEF IInv
<1>. QED
  BY <1>2 DEF Reach, Fits

\* The queues of the levels D of the side the taker trades with, who is queued
\* in them, and their totals.
Queues(D)   == [q \in D |-> QueuedAt(FromSide, q)]
QueuedIn(D) == UNION {QueuedAt(FromSide, q) : q \in D}
TotalsOf(D) == [q \in D |-> book[FromSide][q].total_qty]

\* Who is queued within the price of the taker is within reach, in one queue
\* only, and the total of a level is what its queue has, as a Quantity.
LEMMA LevelsAreGroups ==
  ASSUME IInv, Totals, taker \in Slot,
         NEW D, D \subseteq DOMAIN book[FromSide], \A q \in D : Crosses(order[taker], q)
  PROVE  /\ Groups(Open(order), D, Queues(D), QueuedIn(D))
         /\ QueuedIn(D) \subseteq Reach(order, taker)
         /\ \A q \in D :
              TotalsOf(D)[q] = SumFunctionOnSet(Open(order), Queues(D)[q]) % QtyMod
<1>. DEFINE f == Open(order)
            R == Reach(order, taker)
            Q == Queues(D)
<1>1. /\ order \in [Slot -> Order] /\ FromSide \in Side
      /\ GoodBook(book, order) /\ DOMAIN book[FromSide] \subseteq Prices
  BY DEF IInv, TypeOK, BookIsSound, Order, FromSide, Opposite, Side
<1>2. IsFiniteSet(D)
  <2>1. Prices \subseteq -MaxPrice .. MaxPrice /\ MaxPrice \in Int
    BY OrderBookAssumption
  <2>2. IsFiniteSet(-MaxPrice .. MaxPrice)
    BY <2>1, FS_Interval
  <2>3. D \subseteq -MaxPrice .. MaxPrice
    BY <1>1, <2>1
  <2>. QED BY <2>2, <2>3, FS_Subset
<1>3. \A q \in D : Q[q] = QueuedAt(FromSide, q) /\ \A x : x \in Q[q] <=> In(book, x, FromSide, q)
  BY DEF In, QueuedAt, Queues
<1>4. \A q \in D : Q[q] \subseteq R
  <2>1. ASSUME NEW q \in D, NEW x \in Q[q]
        PROVE  x \in R
    BY <1>3, QueuedWithinIsReach DEF FromSide
  <2>. HIDE DEF Q, R
  <2>. QED BY <2>1
<1>5. \A x \in R : f[x] \in Nat /\ x \in Slot
  BY ReachIsQueued
<1>6. \A q \in D : IsFiniteSet(Q[q]) /\ \A x \in Q[q] : f[x] \in Nat
  <2>. HIDE DEF Q, R, f
  <2>1. ASSUME NEW q \in D
        PROVE  IsFiniteSet(Q[q]) /\ \A x \in Q[q] : f[x] \in Nat
    <3>1. Q[q] \subseteq Slot /\ \A x \in Q[q] : f[x] \in Nat
      BY <1>4, <1>5
    <3>. QED BY <3>1, SlotIsFinite
  <2>. QED BY <2>1
<1>7. \A q, r \in D : q # r => Q[q] \cap Q[r] = {}
  <2>1. ASSUME NEW q \in D, NEW r \in D, NEW x, x \in Q[q], x \in Q[r]
        PROVE  q = r
    <3>1. In(book, x, FromSide, q) /\ In(book, x, FromSide, r)
      BY <1>3, <2>1
    <3>. QED BY <3>1, <1>1, QueuedOnce
  <2>. HIDE DEF Q
  <2>. QED BY <2>1
<1>8. \A x : x \in QueuedIn(D) <=> \E q \in D : x \in Q[q]
  BY <1>3 DEF QueuedIn
<1>9. \A q \in D : TotalsOf(D)[q] = SumFunctionOnSet(f, Q[q]) % QtyMod
  <2>1. ASSUME NEW q \in D
        PROVE  TotalsOf(D)[q] = SumFunctionOnSet(f, Q[q]) % QtyMod
    <3>1. TotalIs(book[FromSide][q], order)
      BY <1>1 DEF Totals, TotalsAre
    <3>. QED BY <3>1, <1>3 DEF TotalIs, TotalsOf, QueuedAt
  <2>. QED BY <2>1
<1>. HIDE DEF f, R, Q
<1>10. Groups(f, D, Q, QueuedIn(D))
  BY <1>2, <1>6, <1>7, <1>8 DEF Groups
<1>11. QueuedIn(D) \subseteq R
  BY <1>4, <1>8
<1>. QED
  BY <1>9, <1>10, <1>11 DEF f, R, Q

\* What a level within the price of the taker keeps out of its way is within
\* its price too.
LEMMA UpToIsWithin ==
  ASSUME IInv, taker \in Slot, NEW p \in DOMAIN book[FromSide], Crosses(order[taker], p),
         NEW q \in LevelsUpTo(FromSide, p)
  PROVE  q \in DOMAIN book[FromSide] /\ Crosses(order[taker], q)
<1>. DEFINE v == order[taker].side
            c == order[taker].price
            w == FromSide
<1>1. v \in Side /\ c \in Int /\ w \in Side /\ DOMAIN book[w] \subseteq Prices
      /\ ((v = "BID" /\ w = "ASK") \/ (v = "ASK" /\ w = "BID"))
  BY DEF IInv, TypeOK, Order, FromSide, Opposite, Side
<1>2. q \in DOMAIN book[w] /\ ~Better(w, p, q) /\ ~Better(v, p, c)
  BY DEF LevelsUpTo, Crosses
<1>3. p \in Int /\ q \in Int
  <2>1. \A x \in Prices : x \in Int
    BY OrderBookAssumption
  <2>. HIDE DEF w
  <2>. QED BY <1>1, <1>2, <2>1 DEF w
<1>. HIDE DEF v, c, w
<1>4. ~Better(v, q, c)
  BY <1>1, <1>2, <1>3 DEF Better
<1>. QED
  BY <1>2, <1>4 DEF Crosses, v, c, w

\* The check passes only if the orders within reach have what is asked for:
\* the levels up to the price where it stops are all within the price of the
\* order, and a sum that has wrapped is less than what it stands for.
LEMMA FillableIsCovered ==
  ASSUME IInv, Totals, pc = "match_order", FokFillable(order[taker])
  PROVE  order[taker].quantity <= SumFunctionOnSet(Open(order), Reach(order, taker))
<1>. DEFINE o == order[taker]
            f == Open(order)
            R == Reach(order, taker)
<1>1. taker \in Slot /\ o.quantity \in Nat
  BY OrderBookAssumption DEF IInv, TypeOK, Order, Quantity
<1>2. PICK p \in DOMAIN book[FromSide] :
        /\ Crosses(o, p)
        /\ SumFunction(TotalsOf(LevelsUpTo(FromSide, p))) % QtyMod >= o.quantity
  BY DEF FokFillable, FromSide, TotalsOf
<1>. DEFINE D == LevelsUpTo(FromSide, p)
            t == TotalsOf(D)
            Q == Queues(D)
            W == QueuedIn(D)
<1>3. \A q \in D : q \in DOMAIN book[FromSide] /\ Crosses(o, q)
  BY <1>1, <1>2, UpToIsWithin
<1>4. /\ Groups(f, D, Q, W) /\ W \subseteq R
      /\ \A q \in D : t[q] = SumFunctionOnSet(f, Q[q]) % QtyMod
  <2>. HIDE DEF D
  <2>. QED BY <1>1, <1>3, LevelsAreGroups
<1>5. IsFiniteSet(R) /\ \A x \in R : f[x] \in Nat
  BY ReachIsQueued, SlotIsFinite DEF Reach
<1>6. SumFunction(t) = SumFunctionOnSet(t, D) /\ SumFunction(t) % QtyMod >= o.quantity
  BY <1>2 DEF SumFunction, TotalsOf
<1>. HIDE DEF o, f, R, D, t, Q, W
<1>7. \A q \in D : t[q] \in Nat /\ t[q] <= SumFunctionOnSet(f, Q[q])
  <2>1. ASSUME NEW q \in D
        PROVE  t[q] \in Nat /\ t[q] <= SumFunctionOnSet(f, Q[q])
    <3>1. SumFunctionOnSet(f, Q[q]) \in Nat
      BY <1>4, SumOfNaturals DEF Groups
    <3>. QED BY <3>1, <1>4, OrderBookAssumption, ModIsAtMost
  <2>. QED BY <2>1
<1>8. SumFunctionOnSet(t, D) \in Nat /\ SumFunctionOnSet(t, D) <= SumFunctionOnSet(f, W)
  BY <1>4, <1>7, GroupsAreAtMost
<1>9. /\ SumFunctionOnSet(f, W) <= SumFunctionOnSet(f, R)
      /\ SumFunctionOnSet(f, R) \in Nat
      /\ SumFunctionOnSet(f, W) \in Nat
  <2>1. SumFunctionOnSet(f, W) <= SumFunctionOnSet(f, R) /\ SumFunctionOnSet(f, R) \in Nat
    BY <1>4, <1>5, SumOfNaturals
  <2>2. IsFiniteSet(W) /\ \A x \in W : f[x] \in Nat
    BY <1>4, <1>5, FS_Subset
  <2>. QED BY <2>1, <2>2, SumOfNaturals
<1>10. SumFunctionOnSet(t, D) % QtyMod <= SumFunctionOnSet(t, D)
       /\ SumFunctionOnSet(t, D) % QtyMod \in Nat
  BY <1>8, OrderBookAssumption, ModIsAtMost
<1>11. o.quantity <= SumFunctionOnSet(f, R)
  BY <1>1, <1>6, <1>8, <1>9, <1>10
<1>. QED
  BY <1>11 DEF o, f, R

\* As long as the orders within reach have something left, the head of the best
\* level is one of them.
LEMMA MakerIsInReach ==
  ASSUME IInv, pc = "matching", CanMatch,
         Remaining(order[taker]) <= SumFunctionOnSet(Open(order), Reach(order, taker))
  PROVE  Maker \in Reach(order, taker)
<1>. DEFINE o == order[taker]
            f == Open(order)
            R == Reach(order, taker)
<1>1. /\ order \in [Slot -> Order] /\ taker \in Slot /\ o \in Order /\ o.side \in Side
      /\ FromSide = Opposite(o.side) /\ FromSide \in Side
      /\ In(book, Maker, FromSide, FromPx)
      /\ DOMAIN book[FromSide] \subseteq Prices /\ DOMAIN book[FromSide] # {}
      /\ o.filled_qty < o.quantity
  <2>1. /\ order \in [Slot -> Order] /\ taker \in Slot /\ FromSide \in Side
        /\ FromPx \in DOMAIN book[FromSide] /\ In(book, Maker, FromSide, FromPx)
        /\ o.filled_qty < o.quantity
    BY TradersAre
  <2>2. DOMAIN book[FromSide] \subseteq Prices
    BY <2>1 DEF IInv, TypeOK
  <2>. QED BY <2>1, <2>2 DEF FromSide, Order
<1>2. R # {}
  <2>1. ASSUME R = {}
        PROVE  FALSE
    <3>1. SumFunctionOnSet(f, R) = 0
      BY <2>1, SumOfNone
    <3>2. Remaining(o) > 0 /\ Remaining(o) \in Int
      BY <1>1 DEF Remaining, Order, Quantity
    <3>3. Remaining(o) <= SumFunctionOnSet(f, R)
      OBVIOUS
    <3>. HIDE DEF f, R, o
    <3>. QED BY <3>1, <3>2, <3>3
  <2>. QED BY <2>1
<1>3. PICK x \in R : TRUE
  BY <1>2
<1>4. /\ In(book, x, order[x].side, order[x].price)
      /\ order[x].side = FromSide /\ Crosses(o, order[x].price)
  BY <1>1, ReachIsQueued DEF Reach
<1>5. order[x].price \in DOMAIN book[FromSide]
  BY <1>4 DEF In
<1>6. ~Better(FromSide, order[x].price, FromPx)
  BY <1>1, <1>5, BestPriceIsBest DEF FromPx
<1>7. Crosses(o, FromPx)
  <2>. DEFINE a == order[x].price
              b == FromPx
              c == o.price
              v == o.side
              w == FromSide
  <2>1. a \in Int /\ b \in Int /\ c \in Int
    <3>1. a \in Prices /\ b \in Prices
      BY <1>1, <1>5 DEF In
    <3>2. \A y \in Prices : y \in Int
      BY OrderBookAssumption
    <3>. HIDE DEF a, b
    <3>. QED BY <3>1, <3>2, <1>1 DEF Order
  <2>2. ~Better(v, a, c) /\ ~Better(w, a, b)
    BY <1>4, <1>6 DEF Crosses
  <2>3. (v = "BID" /\ w = "ASK") \/ (v = "ASK" /\ w = "BID")
    BY <1>1 DEF Opposite, Side
  <2>. HIDE DEF a, b, c, v, w
  <2>4. ~Better(v, b, c)
    BY <2>1, <2>2, <2>3 DEF Better
  <2>. QED BY <2>4 DEF Crosses, b, c, v
<1>. QED
  BY <1>1, <1>7, QueuedWithinIsReach

\* A trade takes the same off what the taker needs and what it can reach.
LEMMA TradeCovered ==
  ASSUME IInv, IInv', pc = "matching", Trade,
         Remaining(order[taker]) <= SumFunctionOnSet(Open(order), Reach(order, taker))
  PROVE  Remaining(order'[taker]) <= SumFunctionOnSet(Open(order'), Reach(order', taker))
<1>. DEFINE f == Open(order)
            g == Open(order')
            R == Reach(order, taker)
            T == Reach(order', taker)
            gone == Taken = Remaining(order[Maker])
<1>1. CanMatch
  BY DEF Trade
<1>2. /\ order \in [Slot -> Order] /\ order' \in [Slot -> Order]
      /\ taker \in Slot /\ Maker \in Slot /\ Maker # taker
      /\ Taken \in Nat /\ Taken # 0
      /\ order[taker].filled_qty + Taken <= order[taker].quantity
      /\ order[Maker].filled_qty + Taken <= order[Maker].quantity
  BY <1>1, TradersAre DEF IInv, TypeOK
<1>3. Maker \in R /\ R \subseteq Slot /\ IsFiniteSet(R)
  BY <1>1, MakerIsInReach, SlotIsFinite DEF Reach
<1>4. /\ order'[taker] = Executed(order[taker], Taken)
      /\ \A x \in Slot : x # taker /\ x # Maker => order'[x] = order[x]
      /\ Remaining(order'[taker]) = Remaining(order[taker]) - Taken
      /\ Remaining(order'[Maker]) = Remaining(order[Maker]) - Taken
      /\ IF gone THEN order'[Maker] = DefaultOrder
                 ELSE order'[Maker] = Executed(order[Maker], Taken)
  BY TradeIs
<1>5. order'[taker].side = order[taker].side /\ order'[taker].price = order[taker].price
  BY <1>2, <1>4, ExecutedIs
<1>6. (\A y \in Slot : f[y] \in Int /\ g[y] \in Int)
      /\ (\A y \in Slot : f[y] = Remaining(order[y]) /\ g[y] = Remaining(order'[y]))
  BY <1>2, OpenIs
<1>7. \A y : y \in R => y \in Slot /\ y # taker
  BY DEF Reach
<1>8. \A y \in R \ {Maker} : g[y] = f[y]
  <2>1. ASSUME NEW y \in R \ {Maker}
        PROVE  g[y] = f[y]
    <3>1. y \in Slot /\ y # taker /\ y # Maker
      BY <1>7
    <3>2. order'[y] = order[y]
      BY <3>1, <1>4
    <3>. HIDE DEF f, g
    <3>. QED BY <3>1, <3>2, <1>6
  <2>. HIDE DEF f, g, R
  <2>. QED BY <2>1
<1>9. SumFunctionOnSet(g, R) = SumFunctionOnSet(f, R) - Taken /\ SumFunctionOnSet(f, R) \in Int
  <2>1. g[Maker] = f[Maker] - Taken /\ f[Maker] \in Int /\ Taken \in Int
    <3>. HIDE DEF f, g
    <3>. QED BY <1>2, <1>4, <1>6
  <2>2. \A y \in R : f[y] \in Int /\ g[y] \in Int
    <3>. HIDE DEF f, g
    <3>. QED BY <1>3, <1>6
  <2>. HIDE DEF f, g, R
  <2>3. SumFunctionOnSet(g, R) = SumFunctionOnSet(f, R) + g[Maker] - f[Maker]
    BY <2>2, <1>3, <1>8, SumChangesAt
  <2>4. SumFunctionOnSet(f, R) \in Int
    BY <2>2, <1>3, SumTakes
  <2>. QED BY <2>1, <2>3, <2>4
<1>10. \A y : y # Maker => (y \in T <=> y \in R)
  <2>1. ASSUME NEW y \in Slot, y # Maker, y # taker
        PROVE  y \in T <=> y \in R
    <3>1. order'[y] = order[y]
      BY <2>1, <1>4
    <3>. QED BY <3>1, <1>5 DEF Reach, Crosses
  <2>2. \A y : y \in T => y \in Slot /\ y # taker
    BY DEF Reach
  <2>. HIDE DEF T, R
  <2>. QED BY <2>1, <2>2, <1>7
<1>11. CASE gone
  <2>1. Maker \notin T
    <3>1. order'[Maker].id = 0
      BY <1>4, <1>11 DEF DefaultOrder
    <3>. QED BY <3>1 DEF Reach
  <2>2. T = R \ {Maker}
    <3>. HIDE DEF T, R
    <3>. QED BY <2>1, <1>10
  <2>3. g[Maker] = 0
    <3>1. Remaining(order'[Maker]) = 0
      BY <1>4, <1>11 DEF DefaultOrder, Remaining
    <3>. HIDE DEF g
    <3>. QED BY <3>1, <1>2, <1>6
  <2>. HIDE DEF f, g, R, T
  <2>4. SumFunctionOnSet(g, R) = g[Maker] + SumFunctionOnSet(g, R \ {Maker})
        /\ SumFunctionOnSet(g, R \ {Maker}) \in Int
    <3>1. \A y \in R : g[y] \in Int
      BY <1>3, <1>6
    <3>2. IsFiniteSet(R \ {Maker}) /\ \A y \in R \ {Maker} : g[y] \in Int
      BY <3>1, <1>3, FS_RemoveElement
    <3>. QED BY <3>1, <3>2, <1>3, SumTakes
  <2>5. SumFunctionOnSet(g, T) = SumFunctionOnSet(g, R)
    BY <2>2, <2>3, <2>4
  <2>6. Remaining(order[taker]) <= SumFunctionOnSet(f, R) /\ Remaining(order[taker]) \in Int
    BY <1>2, <1>6 DEF f, R
  <2>7. Remaining(order'[taker]) <= SumFunctionOnSet(g, T)
    BY <2>5, <2>6, <1>2, <1>4, <1>9
  <2>. QED BY <2>7 DEF g, T
<1>12. CASE ~gone
  <2>1. Maker \in T
    <3>1. /\ order'[Maker].id = order[Maker].id /\ order'[Maker].side = order[Maker].side
          /\ order'[Maker].price = order[Maker].price
          /\ IsActive(order'[Maker]) <=> order[Maker].filled_qty + Taken < order[Maker].quantity
      BY <1>2, <1>4, <1>12, ExecutedIs
    <3>2. order[Maker].filled_qty + Taken < order[Maker].quantity
      BY <1>2, <1>12 DEF Remaining, Order, Quantity
    <3>. QED BY <3>1, <3>2, <1>2, <1>3, <1>5 DEF Reach, Crosses
  <2>2. T = R
    <3>. HIDE DEF T, R
    <3>. QED BY <2>1, <1>3, <1>10
  <2>. HIDE DEF f, g, R, T
  <2>3. Remaining(order[taker]) <= SumFunctionOnSet(f, R) /\ Remaining(order[taker]) \in Int
    BY <1>2, <1>6 DEF f, R
  <2>4. Remaining(order'[taker]) <= SumFunctionOnSet(g, R)
    BY <2>3, <1>2, <1>4, <1>9
  <2>. QED BY <2>2, <2>4 DEF g, T
<1>. QED
  BY <1>11, <1>12

LEMMA InitCovered == Init => FokCovered
  BY DEF Init, FokCovered

LEMMA StepCovered == IInv /\ Totals /\ FokCovered /\ [Next]_vars => FokCovered'
<1>. SUFFICES ASSUME IInv, Totals, FokCovered, [Next]_vars,
                     pc' = "matching", order'[taker'].type = "FOK"
     PROVE  Remaining(order'[taker'])
              <= SumFunctionOnSet(Open(order'), Reach(order', taker'))
  BY DEF FokCovered
<1>1. IInv'
  BY StepIInv
<1>2. CASE StartMatching
  <2>1. /\ pc = "match_order" /\ taker' = taker /\ order' = order
        /\ order[taker].type = "FOK" /\ FokFillable(order[taker])
    BY <1>2 DEF StartMatching
  <2>2. order[taker].quantity <= SumFunctionOnSet(Open(order), Reach(order, taker))
    BY <2>1, FillableIsCovered
  <2>3. order[taker] \in Order
    BY <2>1 DEF IInv, TypeOK
  <2>4. Remaining(order[taker]) <= order[taker].quantity
        /\ Remaining(order[taker]) \in Int /\ order[taker].quantity \in Int
    BY <2>3, OrderBookAssumption DEF Remaining, Order, Quantity
  <2>5. SumFunctionOnSet(Open(order), Reach(order, taker)) \in Int
    <3>. DEFINE f == Open(order)
                R == Reach(order, taker)
    <3>1. IsFiniteSet(R) /\ \A x \in R : f[x] \in Int
      BY ReachIsQueued, SlotIsFinite DEF Reach
    <3>. HIDE DEF f, R
    <3>2. SumFunctionOnSet(f, R) \in Int
      BY <3>1, SumTakes
    <3>. QED BY <3>2 DEF f, R
  <2>6. Remaining(order[taker]) <= SumFunctionOnSet(Open(order), Reach(order, taker))
    BY <2>2, <2>4, <2>5
  <2>. QED BY <2>1, <2>6
<1>3. CASE Trade
  <2>1. pc = "matching" /\ taker' = taker /\ order'[taker] = Executed(order[taker], Taken)
    BY <1>3, TradeIs DEF Trade
  <2>2. order[taker].type = "FOK"
    <3>1. /\ order \in [Slot -> Order] /\ taker \in Slot /\ Taken \in Nat
          /\ order[taker].filled_qty + Taken <= order[taker].quantity
      BY <1>3, <2>1, TradersAre DEF Trade
    <3>2. order'[taker].type = order[taker].type
      BY <2>1, <3>1, ExecutedIs
    <3>. QED BY <2>1, <3>2
  <2>3. Remaining(order[taker]) <= SumFunctionOnSet(Open(order), Reach(order, taker))
    BY <2>1, <2>2 DEF FokCovered
  <2>4. Remaining(order'[taker]) <= SumFunctionOnSet(Open(order'), Reach(order', taker))
    BY <1>1, <1>3, <2>1, <2>3, TradeCovered
  <2>. QED BY <2>1, <2>4
<1>4. CASE UNCHANGED vars
  <2>1. pc' = pc /\ taker' = taker /\ order' = order
    BY <1>4 DEF vars
  <2>2. Remaining(order[taker]) <= SumFunctionOnSet(Open(order), Reach(order, taker))
    BY <2>1 DEF FokCovered
  <2>. QED BY <2>1, <2>2
<1>5. CASE RejectFok \/ FinishFilled \/ RestResidual \/ CancelResidual
  BY <1>5 DEF RejectFok, FinishFilled, RestResidual, CancelResidual, Done
<1>6. CASE Call
  BY <1>4, <1>6 DEF Call, AddOrder, CancelOrder, AmendUp, AmendDown, RefuseAdd, RefuseChange
<1>. QED
  BY <1>2, <1>3, <1>4, <1>5, <1>6 DEF Next, Matching

LEMMA CoveredAlways == Spec => []FokCovered
  BY InitCovered, StepCovered, Invariance, TotalsAlways, PTL DEF Spec

LEMMA CoveredCompletes == IInv /\ FokCovered => FokCompletes
<1>. SUFFICES ASSUME IInv, FokCovered, pc = "matching", order[taker].type = "FOK",
                     IsActive(order[taker])
     PROVE  CanMatch
  BY DEF FokCompletes
<1>. DEFINE f == Open(order)
            R == Reach(order, taker)
<1>1. Remaining(order[taker]) <= SumFunctionOnSet(f, R)
  BY DEF FokCovered
<1>2. Remaining(order[taker]) > 0 /\ Remaining(order[taker]) \in Int
  <2>1. order[taker] \in Order /\ order[taker].filled_qty < order[taker].quantity
    BY DEF IInv, TypeOK, TakerIsSound
  <2>. QED BY <2>1 DEF Remaining, Order, Quantity
<1>3. R # {}
  <2>1. ASSUME R = {}
        PROVE  FALSE
    <3>1. SumFunctionOnSet(f, R) = 0
      BY <2>1, SumOfNone
    <3>. HIDE DEF f, R
    <3>. QED BY <3>1, <1>1, <1>2
  <2>. QED BY <2>1
<1>4. PICK x \in R : TRUE
  BY <1>3
<1>5. In(book, x, order[x].side, order[x].price) /\ order[x].side = Opposite(order[taker].side)
  BY ReachIsQueued DEF Reach
<1>6. DOMAIN book[Opposite(order[taker].side)] # {}
  BY <1>5 DEF In
<1>. QED
  BY <1>6 DEF CanMatch

\* FOK is all or nothing: once check_fok_fillable has let it in, the loop never
\* runs out of orders before it is filled, for any width of Quantity, though
\* the aggregates that the check adds up and their sum may have wrapped.
THEOREM FokAllOrNothing == Spec => []FokCompletes
  BY CoveredCompletes, Invariance, CoveredAlways, PTL

\* An order that a matching step changes while it is in a queue is the maker of
\* a trade.
LEMMA ChangedIsMaker ==
  ASSUME IInv, [Next]_vars, pc = "matching", NEW m \in Booked, order'[m] # order[m]
  PROVE  Trade /\ m = Maker
<1>1. m \in Slot /\ m # taker /\ order \in [Slot -> Order]
  BY BookedIsIn DEF IInv, TypeOK
<1>2. ~(order' = order) /\ \A o : ~(order' = [order EXCEPT ![taker] = o])
  BY <1>1
<1>3. Trade
  <2>1. ~RejectFok /\ ~StartMatching /\ ~Call /\ ~FinishFilled
    BY <1>2 DEF RejectFok, StartMatching, Call, AddOrder, RefuseAdd, CancelOrder,
                AmendUp, AmendDown, RefuseChange, FinishFilled
  <2>2. ~RestResidual /\ ~CancelResidual
    BY <1>2 DEF RestResidual, CancelResidual
  <2>. QED  BY <1>2, <2>1, <2>2 DEF Next, Matching, vars
<1>. QED
  BY <1>1, <1>3, TradeIs

\* A LIMIT order trades within its price because the loop looks at the price, a
\* FOK order because what it needs is within its price and served first.
THEOREM WithinPrice == Spec => LimitRespected
<1>. DEFINE Respected ==
              (pc = "matching" /\ order[taker].type \in {"LIMIT", "FOK"}) =>
                \A m \in Booked : order'[m] # order[m] => Crosses(order[taker], order[m].price)
<1>1. ASSUME IInv, FokCovered, [Next]_vars,
             pc = "matching", order[taker].type \in {"LIMIT", "FOK"},
             NEW m \in Booked, order'[m] # order[m]
      PROVE  Crosses(order[taker], order[m].price)
  <2>1. m = Maker /\ CanMatch
    BY <1>1, ChangedIsMaker DEF Trade
  <2>2. CASE order[taker].type = "LIMIT"
    <3>1. order[Maker].price = FromPx
      BY <1>1, <2>1, TradersAre DEF Fits
    <3>2. Crosses(order[taker], FromPx)
      BY <2>1, <2>2 DEF CanMatch, FromPx, FromSide
    <3>. QED BY <2>1, <3>1, <3>2
  <2>3. CASE order[taker].type = "FOK"
    <3>1. Remaining(order[taker]) <= SumFunctionOnSet(Open(order), Reach(order, taker))
      BY <1>1, <2>3 DEF FokCovered
    <3>2. Maker \in Reach(order, taker)
      BY <1>1, <2>1, <3>1, MakerIsInReach
    <3>. QED BY <2>1, <3>2 DEF Reach
  <2>. QED BY <1>1, <2>2, <2>3
<1>2. IInv /\ FokCovered /\ [Next]_vars => Respected
  BY <1>1
<1>. QED
  BY <1>2, Invariance, CoveredAlways, PTL DEF Spec, LimitRespected

-----------------------------------------------------------------------------
(* The book with its reports is the book.                                  *)

LEMMA ReportsStepIsStep == [ReportsNext]_rvars => [Next]_vars
<1>1. CASE UNCHANGED rvars
  BY <1>1 DEF rvars
<1>2. CASE Add
  BY <1>2 DEF Add, Next, Call
<1>3. CASE Finish
  BY <1>3 DEF Finish, Next, Matching
<1>4. CASE Refuse
  BY <1>4 DEF Refuse, RefuseAdd, RefuseChange
<1>5. ASSUME NEW id \in 0 .. id_counter, Cancel(id) \/ \E quantity \in Quantities : Amend(id, quantity)
      PROVE  Next
  BY <1>5 DEF Cancel, Amend, Next, Call
<1>6. CASE ReportTrade \/ Reject \/ StartMatching
  BY <1>6 DEF ReportTrade, Reject, Next, Matching
<1>7. CASE ReturnId
  BY <1>7 DEF ReturnId
<1>. QED
  BY <1>1, <1>2, <1>3, <1>4, <1>5, <1>6, <1>7 DEF ReportsNext

\* Whatever the handlers of trades and ticks call, the book goes through states
\* it could go through without them.
THEOREM ReportsKeepTheBook == ReportsSpec => Init /\ [][Next]_vars
  BY ReportsStepIsStep, PTL DEF ReportsSpec, ReportsInit

LEMMA BookAlways == ReportsSpec => []IInv /\ []Totals
  BY InitIInv, StepIInv, InitTotals, StepTotals, ReportsKeepTheBook, PTL

-----------------------------------------------------------------------------
(* What each action does to the orders.                                    *)

OnlyAt(m) ==
  /\ order \in [Slot -> Order] /\ order' \in [Slot -> Order] /\ m \in Slot
  /\ \A x \in Slot : x # m => order'[x] = order[x]

LEMMA AddIs ==
  ASSUME IInv, IInv', NEW side, NEW type, NEW price, NEW quantity, AddOrder(side, type, price, quantity)
  PROVE  /\ OnlyAt(taker') /\ order[taker'].id = 0
         /\ order'[taker'].id = id_counter + 1 /\ id_counter' = id_counter + 1
         /\ order'[taker'].quantity = quantity /\ order'[taker'].filled_qty = 0
<1>. DEFINE slot == Head(free)
            new == [id |-> id_counter + 1, price |-> price, quantity |-> quantity,
                    filled_qty |-> 0, side |-> side, type |-> type, status |-> "NEW", rank |-> 0]
<1>1. /\ free # <<>> /\ order' = [order EXCEPT ![slot] = new]
      /\ id_counter' = id_counter + 1 /\ taker' = slot
  BY DEF AddOrder
<1>2. slot \in Slot /\ order[slot].id = 0
  <2>1. free \in Seq(Slot) /\ ToSet(free) = Slot \ Allocated
    BY DEF IInv, TypeOK, FreeIsSound
  <2>2. slot = free[1] /\ 1 \in DOMAIN free
    BY <1>1, <2>1, EmptySeq
  <2>3. slot \in ToSet(free)
    BY <2>2 DEF ToSet
  <2>. HIDE DEF slot
  <2>. QED BY <2>1, <2>3 DEF Allocated
<1>. HIDE DEF slot
<1>3. order'[slot] = new /\ new.id = id_counter + 1 /\ new.quantity = quantity /\ new.filled_qty = 0
  BY <1>1, <1>2 DEF IInv, TypeOK
<1>. HIDE DEF new
<1>4. OnlyAt(slot)
  BY <1>1, <1>2 DEF OnlyAt, IInv, TypeOK
<1>. QED
  BY <1>1, <1>2, <1>3, <1>4

\* The order in m is destroyed.
LEMMA DropIs ==
  ASSUME IInv, IInv', NEW m \in Slot, order' = [order EXCEPT ![m] = DefaultOrder]
  PROVE  OnlyAt(m) /\ order'[m].id = 0 /\ Remaining(order'[m]) = 0
  BY DEF IInv, TypeOK, OnlyAt, DefaultOrder, Remaining

\* The order in m is still the same order, and has filled as much.
Stays(m) ==
  /\ OnlyAt(m) /\ order[m].id # 0 /\ order'[m].id = order[m].id
  /\ order'[m].filled_qty = order[m].filled_qty

LEMMA RestIs ==
  ASSUME IInv, IInv', RestResidual
  PROVE  Stays(taker) /\ order'[taker].quantity = order[taker].quantity
<1>1. pc = "matching" /\ order' = [order EXCEPT ![taker].rank = clock + 1]
  BY DEF RestResidual
<1>2. taker \in Slot /\ order[taker].id # 0 /\ order \in [Slot -> Order] /\ order' \in [Slot -> Order]
  BY <1>1 DEF IInv, TypeOK, TakerIsSound
<1>3. order'[taker] = [order[taker] EXCEPT !.rank = clock + 1] /\ order[taker] \in Order
  BY <1>1, <1>2
<1>4. /\ order'[taker].id = order[taker].id /\ order'[taker].filled_qty = order[taker].filled_qty
      /\ order'[taker].quantity = order[taker].quantity
  BY <1>3 DEF Order
<1>5. OnlyAt(taker)
  BY <1>1, <1>2 DEF OnlyAt
<1>. QED
  BY <1>2, <1>4, <1>5 DEF Stays

LEMMA AmendIs ==
  ASSUME IInv, IInv', NEW id, NEW quantity, AmendUp(id, quantity) \/ AmendDown(id, quantity)
  PROVE  LET m == order_map[id] IN Stays(m) /\ order'[m].quantity = quantity
<1>. DEFINE m == order_map[id]
            o == order[m]
<1>1. /\ pc = "idle" /\ Known(id)
      /\ \/ order' = [order EXCEPT ![m].quantity = quantity, ![m].rank = clock + 1]
         \/ order' = [order EXCEPT ![m].quantity = quantity]
  BY DEF AmendUp, AmendDown
<1>2. /\ m \in Slot /\ order[m].id # 0 /\ o \in Order
      /\ order \in [Slot -> Order] /\ order' \in [Slot -> Order]
  BY <1>1, KnownIsQueued DEF Fits, IInv, TypeOK
<1>. HIDE DEF m
<1>3. \/ order'[m] = [o EXCEPT !.quantity = quantity, !.rank = clock + 1]
      \/ order'[m] = [o EXCEPT !.quantity = quantity]
  BY <1>1, <1>2
<1>4. /\ order'[m].id = order[m].id /\ order'[m].filled_qty = order[m].filled_qty
      /\ order'[m].quantity = quantity
  <2>1. o = order[m]
    OBVIOUS
  <2>. HIDE DEF o
  <2>. QED BY <1>2, <1>3, <2>1 DEF Order
<1>5. OnlyAt(m)
  BY <1>1, <1>2 DEF OnlyAt
<1>. QED
  BY <1>2, <1>4, <1>5 DEF Stays, m

LEMMA CancelIs ==
  ASSUME IInv, IInv', NEW id, CancelOrder(id)
  PROVE  LET m == order_map[id] IN OnlyAt(m) /\ order'[m].id = 0 /\ Remaining(order'[m]) = 0
<1>. DEFINE m == order_map[id]
<1>1. pc = "idle" /\ Known(id) /\ order' = [order EXCEPT ![m] = DefaultOrder]
  BY DEF CancelOrder
<1>2. m \in Slot
  BY <1>1, KnownIsQueued
<1>. HIDE DEF m
<1>3. OnlyAt(m) /\ order'[m].id = 0 /\ Remaining(order'[m]) = 0
  BY <1>1, <1>2, DropIs
<1>. QED
  BY <1>3 DEF m

\* A trade, in the same terms.
LEMMA TradeFills ==
  ASSUME IInv, IInv', Trade
  PROVE  /\ order \in [Slot -> Order] /\ order' \in [Slot -> Order]
         /\ taker \in Slot /\ Maker \in Slot /\ Maker # taker /\ Taken \in Nat
         /\ order[taker].id # 0 /\ order[Maker].id # 0
         /\ \A x \in Slot : x # taker /\ x # Maker => order'[x] = order[x]
         /\ order'[taker].id = order[taker].id
         /\ order'[taker].filled_qty = order[taker].filled_qty + Taken
         /\ order'[Maker].id # 0 =>
              /\ order'[Maker].id = order[Maker].id
              /\ order'[Maker].filled_qty = order[Maker].filled_qty + Taken
         /\ order'[Maker].id = 0 => Remaining(order'[Maker]) = 0
         /\ Remaining(order'[taker]) = Remaining(order[taker]) - Taken
         /\ Remaining(order'[Maker]) = Remaining(order[Maker]) - Taken
<1>1. pc = "matching" /\ CanMatch
  BY DEF Trade
<1>2. /\ order \in [Slot -> Order] /\ order' \in [Slot -> Order]
      /\ taker \in Slot /\ Maker \in Slot /\ Maker # taker /\ Taken \in Nat
      /\ order[taker].id # 0 /\ order[Maker].id # 0
      /\ order[taker].filled_qty + Taken <= order[taker].quantity
      /\ order[Maker].filled_qty + Taken <= order[Maker].quantity
      /\ order[taker] \in Order /\ order[Maker] \in Order
  BY <1>1, TradersAre DEF IInv, TypeOK, Fits
<1>3. /\ order'[taker] = Executed(order[taker], Taken)
      /\ \A x \in Slot : x # taker /\ x # Maker => order'[x] = order[x]
      /\ Remaining(order'[taker]) = Remaining(order[taker]) - Taken
      /\ Remaining(order'[Maker]) = Remaining(order[Maker]) - Taken
      /\ order'[Maker] = DefaultOrder \/ order'[Maker] = Executed(order[Maker], Taken)
  BY TradeIs
<1>4. /\ order'[taker].id = order[taker].id
      /\ order'[taker].filled_qty = order[taker].filled_qty + Taken
  BY <1>2, <1>3, ExecutedIs
<1>5. CASE order'[Maker] = DefaultOrder
  <2>1. order'[Maker].id = 0 /\ Remaining(order'[Maker]) = 0
    BY <1>5 DEF DefaultOrder, Remaining
  <2>. QED BY <2>1, <1>2, <1>3, <1>4
<1>6. CASE order'[Maker] = Executed(order[Maker], Taken)
  <2>1. /\ order'[Maker].id = order[Maker].id
        /\ order'[Maker].filled_qty = order[Maker].filled_qty + Taken
    BY <1>2, <1>6, ExecutedIs
  <2>. QED BY <2>1, <1>2, <1>3, <1>4
<1>. QED
  BY <1>3, <1>5, <1>6

-----------------------------------------------------------------------------
(* The reports: their types.                                               *)

TradeReport == [maker_order_id : Nat, taker_order_id : Nat, price : Int, quantity : Nat]

Statistics ==
  [total_trades : Nat, total_volume : Nat, orders_added : Nat, orders_cancelled : Nat]

RunningCall == [slot : Slot, id : Nat, published : BOOLEAN, added : SUBSET Nat]

ReportsTyped ==
  /\ stats \in Statistics /\ asked \in Int
  /\ tape \in Seq(TradeReport)
  /\ calls \in Seq(RunningCall) /\ stored \in [Slot -> Nat]

LEMMA StatisticsAre ==
  ASSUME NEW st \in Statistics, NEW n \in Nat
  PROVE  /\ LET more == [st EXCEPT !.orders_added = @ + 1]
            IN  more \in Statistics /\ more.total_volume = st.total_volume
         /\ LET more == [st EXCEPT !.orders_cancelled = @ + 1]
            IN  more \in Statistics /\ more.total_volume = st.total_volume
         /\ LET more == [st EXCEPT !.total_trades = @ + 1, !.total_volume = @ + n]
            IN  more \in Statistics /\ more.total_volume = st.total_volume + n
<1>1. /\ st.total_trades \in Nat /\ st.total_volume \in Nat
      /\ st.orders_added \in Nat /\ st.orders_cancelled \in Nat
  BY DEF Statistics
<1>2. LET more == [st EXCEPT !.orders_added = @ + 1]
      IN  more \in Statistics /\ more.total_volume = st.total_volume
  BY <1>1 DEF Statistics
<1>3. LET more == [st EXCEPT !.orders_cancelled = @ + 1]
      IN  more \in Statistics /\ more.total_volume = st.total_volume
  BY <1>1 DEF Statistics
<1>4. LET more == [st EXCEPT !.total_trades = @ + 1, !.total_volume = @ + n]
      IN  more \in Statistics /\ more.total_volume = st.total_volume + n
  <2>. DEFINE mid  == [st EXCEPT !.total_trades = st.total_trades + 1]
              more == [mid EXCEPT !.total_volume = st.total_volume + n]
  <2>1. mid \in Statistics
    BY <1>1 DEF Statistics
  <2>2. more \in Statistics /\ more.total_volume = st.total_volume + n
    <3>. HIDE DEF mid
    <3>. QED BY <1>1, <2>1 DEF Statistics
  <2>3. more = [st EXCEPT !.total_trades = st.total_trades + 1, !.total_volume = st.total_volume + n]
    OBVIOUS
  <2>4. [st EXCEPT !.total_trades = @ + 1, !.total_volume = @ + n] = more
    BY <2>3 
  <2>. QED BY <2>2, <2>4
<1>. QED
  BY <1>2, <1>3, <1>4

\* The Trade on the tape is the trade of the book.
LEMMA ThisTradeIs ==
  ASSUME IInv, IInv', Trade
  PROVE  /\ ThisTrade \in TradeReport
         /\ ThisTrade.maker_order_id = order[Maker].id
         /\ ThisTrade.taker_order_id = order[taker].id
         /\ ThisTrade.quantity = Taken
<1>1. /\ order \in [Slot -> Order] /\ taker \in Slot /\ Maker \in Slot /\ Taken \in Nat
      /\ order'[taker].filled_qty = order[taker].filled_qty + Taken
  BY TradeFills
<1>2. FromPx \in Int
  <2>1. FromPx \in DOMAIN book[FromSide] /\ FromSide \in Side
    BY TradersAre DEF Trade
  <2>. QED BY <2>1, OrderBookAssumption DEF IInv, TypeOK
<1>3. order[taker].filled_qty \in Int /\ order[taker].id \in Nat /\ order[Maker].id \in Nat
  BY <1>1, OrderBookAssumption DEF Order, Quantity
<1>4. order'[taker].filled_qty - order[taker].filled_qty = Taken
  BY <1>1, <1>3
<1>5. ThisTrade = [maker_order_id |-> order[Maker].id, taker_order_id |-> order[taker].id,
                   price |-> FromPx, quantity |-> Taken]
  BY <1>4 DEF ThisTrade, FromSide, FromPx, Maker
<1>. QED
  BY <1>1, <1>2, <1>3, <1>5 DEF TradeReport

LEMMA InitReportsTyped == ReportsInit => ReportsTyped
  BY DEF ReportsInit, ReportsTyped, Statistics

LEMMA StepReportsTyped == IInv /\ IInv' /\ ReportsTyped /\ [ReportsNext]_rvars => ReportsTyped'
<1>. SUFFICES ASSUME IInv, IInv', ReportsTyped, [ReportsNext]_rvars
     PROVE  ReportsTyped'
  OBVIOUS
<1>. USE DEF ReportsTyped
<1>0. order \in [Slot -> Order] /\ id_counter \in Nat /\ id_counter' \in Nat
  BY DEF IInv, TypeOK
<1>1. CASE UNCHANGED rvars
  BY <1>1 DEF rvars, reports
<1>2. CASE Add
  <2>1. PICK side \in Side, type \in OrderType, price \in Prices, quantity \in Quantities :
          AddOrder(side, type, price, quantity) /\ asked' = asked + quantity
    BY <1>2 DEF Add
  <2>2. taker' \in Slot
    BY <2>1, AddIs DEF OnlyAt
  <2>. DEFINE new  == [slot |-> taker', id |-> id_counter', published |-> FALSE, added |-> {}]
              rest == [i \in DOMAIN calls |-> [calls[i] EXCEPT !.added = @ \cup {id_counter'}]]
  <2>3. new \in RunningCall
    BY <1>0, <2>2 DEF RunningCall
  <2>4. rest \in Seq(RunningCall)
    <3>1. DOMAIN calls = 1 .. Len(calls) /\ Len(calls) \in Nat
      BY LenProperties
    <3>2. ASSUME NEW i \in 1 .. Len(calls)
          PROVE  [calls[i] EXCEPT !.added = @ \cup {id_counter'}] \in RunningCall
      <4>1. calls[i] \in RunningCall
        BY <3>1, ElementOfSeq
      <4>. QED BY <1>0, <4>1 DEF RunningCall
    <3>3. rest = [i \in 1 .. Len(calls) |-> [calls[i] EXCEPT !.added = @ \cup {id_counter'}]]
      BY <3>1
    <3>. QED BY <3>1, <3>2, <3>3, SeqDef
  <2>5. <<new>> \o rest \in Seq(RunningCall)
    <3>. HIDE DEF new, rest
    <3>1. <<new>> \in Seq(RunningCall)
      BY <2>3
    <3>. QED BY <2>4, <3>1, ConcatProperties
  <2>6. calls' \in Seq(RunningCall)
    BY <1>2, <2>5 DEF Add
  <2>7. stats' \in Statistics
    <3>1. stats' = [stats EXCEPT !.orders_added = @ + 1]
      BY <1>2 DEF Add
    <3>. QED BY <3>1, StatisticsAre
  <2>8. stored' \in [Slot -> Nat]
    BY <1>0, <1>2, <2>2 DEF Add
  <2>9. asked' \in Int
    BY <2>1, OrderBookAssumption
  <2>. QED BY <1>2, <2>6, <2>7, <2>8, <2>9 DEF Add
<1>3. CASE ReportTrade
  <2>1. ThisTrade \in TradeReport
    BY <1>3, ThisTradeIs DEF ReportTrade
  <2>2. tape' \in Seq(TradeReport)
    BY <1>3, <2>1, AppendProperties DEF ReportTrade
  <2>3. ThisTrade.quantity \in Nat
    BY <2>1 DEF TradeReport
  <2>4. stats' \in Statistics
    <3>. DEFINE n == ThisTrade.quantity
    <3>1. stats' = [stats EXCEPT !.total_trades = @ + 1, !.total_volume = @ + n]
      BY <1>3 DEF ReportTrade
    <3>2. n \in Nat
      BY <2>3
    <3>. HIDE DEF n
    <3>. QED BY <3>1, <3>2, StatisticsAre
  <2>. QED BY <1>3, <2>2, <2>4 DEF ReportTrade
<1>4. CASE Finish
  <2>1. pc = "matching"
    BY <1>4 DEF Finish, FinishFilled, RestResidual, CancelResidual
  <2>2. Remaining(order[taker]) \in Int
    BY <1>0, <2>1, OpenIs DEF IInv, TypeOK
  <2>3. asked' \in Int
    BY <1>4, <2>2 DEF Finish
  <2>4. calls' \in Seq(RunningCall)
    <3>1. CASE calls = <<>>
      <4>1. [calls EXCEPT ![1].published = TRUE] = calls
        BY <3>1
      <4>. QED BY <4>1, <1>4 DEF Finish
    <3>2. CASE calls # <<>>
      <4>1. 1 \in DOMAIN calls /\ calls[1] \in RunningCall
        BY <3>2, EmptySeq, ElementOfSeq
      <4>2. [calls[1] EXCEPT !.published = TRUE] \in RunningCall
        BY <4>1 DEF RunningCall
      <4>3. calls' = [calls EXCEPT ![1] = [calls[1] EXCEPT !.published = TRUE]]
        BY <1>4 DEF Finish
      <4>. QED BY <4>1, <4>2, <4>3, ExceptSeq
    <3>. QED BY <3>1, <3>2
  <2>. QED BY <1>4, <2>3, <2>4 DEF Finish
<1>5. CASE Reject
  <2>1. pc = "match_order"
    BY <1>5 DEF Reject, RejectFok
  <2>2. order[taker].quantity \in Int
    BY <1>0, <2>1 DEF IInv, TypeOK, Order, Quantity
  <2>. QED BY <1>5, <2>2 DEF Reject
<1>6. CASE ReturnId
  <2>1. calls' \in Seq(RunningCall)
    BY <1>6, HeadTailProperties DEF ReturnId
  <2>. QED BY <1>6, <2>1 DEF ReturnId
<1>7. CASE Refuse
  BY <1>7 DEF Refuse
<1>8. CASE StartMatching /\ UNCHANGED reports
  BY <1>8 DEF reports
<1>9. ASSUME NEW id \in 0 .. id_counter, Cancel(id)
      PROVE  ReportsTyped'
  <2>1. order_map[id] \in Slot
    BY <1>9, KnownIsQueued DEF Cancel, CancelOrder
  <2>2. Remaining(order[order_map[id]]) \in Int
    BY <1>0, <2>1, OpenIs
  <2>3. stats' \in Statistics
    <3>1. stats' = [stats EXCEPT !.orders_cancelled = @ + 1]
      BY <1>9 DEF Cancel
    <3>. QED BY <3>1, StatisticsAre
  <2>. QED BY <1>9, <2>2, <2>3 DEF Cancel
<1>10. ASSUME NEW id \in 0 .. id_counter, NEW quantity \in Quantities, Amend(id, quantity)
      PROVE  ReportsTyped'
  <2>1. order_map[id] \in Slot
    BY <1>10, KnownIsQueued DEF Amend, AmendUp, AmendDown
  <2>2. order[order_map[id]].quantity \in Int /\ quantity \in Int
    BY <1>0, <2>1, OrderBookAssumption DEF Order, Quantity
  <2>. QED BY <1>10, <2>2 DEF Amend
<1>. QED
  BY <1>1, <1>2, <1>3, <1>4, <1>5, <1>6, <1>7, <1>8, <1>9, <1>10 DEF ReportsNext

LEMMA TypedAlways == ReportsSpec => []ReportsTyped
  BY InitReportsTyped, StepReportsTyped, BookAlways, PTL DEF ReportsSpec

-----------------------------------------------------------------------------
(* The volume.                                                             *)

\* A slot without an order has nothing open.
Blank == \A m \in Slot : order[m].id = 0 => Remaining(order[m]) = 0

LEMMA InitBlank == Init => Blank
  BY DEF Init, Blank, DefaultOrder, Remaining

\* A step that leaves the other slots alone and m with an order or nothing open.
LEMMA OnlyAtBlank ==
  ASSUME Blank, NEW m, OnlyAt(m), order'[m].id # 0 \/ Remaining(order'[m]) = 0
  PROVE  Blank'
  BY DEF Blank, OnlyAt

LEMMA StepBlank == IInv /\ IInv' /\ Blank /\ [Next]_vars => Blank'
<1>. SUFFICES ASSUME IInv, IInv', Blank, [Next]_vars
     PROVE  Blank'
  OBVIOUS
<1>1. CASE order' = order
  BY <1>1 DEF Blank
<1>2. ASSUME NEW side \in Side, NEW type \in OrderType, NEW price \in Prices,
             NEW quantity \in Quantities, AddOrder(side, type, price, quantity)
      PROVE  Blank'
  <2>1. OnlyAt(taker') /\ order'[taker'].id = id_counter + 1 /\ id_counter \in Nat
    BY <1>2, AddIs DEF IInv, TypeOK
  <2>. QED BY <2>1, OnlyAtBlank
<1>3. CASE RejectFok \/ CancelResidual
  <2>1. taker \in Slot /\ order' = [order EXCEPT ![taker] = DefaultOrder]
    BY <1>3 DEF RejectFok, CancelResidual, IInv, TypeOK
  <2>. QED BY <2>1, DropIs, OnlyAtBlank
<1>4. CASE RestResidual
  BY <1>4, RestIs, OnlyAtBlank DEF Stays
<1>5. CASE Trade
  <2>1. /\ Maker \in Slot /\ order'[taker].id # 0
        /\ order'[Maker].id = 0 => Remaining(order'[Maker]) = 0
        /\ \A x \in Slot : x # taker /\ x # Maker => order'[x] = order[x]
    BY <1>5, TradeFills
  <2>. QED BY <2>1 DEF Blank
<1>6. ASSUME NEW id, CancelOrder(id)
      PROVE  Blank'
  BY <1>6, CancelIs, OnlyAtBlank
<1>7. ASSUME NEW id, NEW quantity, AmendUp(id, quantity) \/ AmendDown(id, quantity)
      PROVE  Blank'
  <2>. DEFINE m == order_map[id]
  <2>1. Stays(m)
    BY <1>7, AmendIs
  <2>. HIDE DEF m
  <2>. QED BY <2>1, OnlyAtBlank DEF Stays
<1>8. CASE StartMatching \/ FinishFilled
  BY <1>1, <1>8 DEF StartMatching, FinishFilled
<1>9. ASSUME NEW type, NEW price, NEW quantity, RefuseAdd(type, price, quantity)
      PROVE  Blank'
  BY <1>1, <1>9 DEF RefuseAdd, vars
<1>10. ASSUME NEW id, NEW quantity, RefuseChange(id, quantity)
       PROVE  Blank'
  BY <1>1, <1>10 DEF RefuseChange, vars
<1>11. CASE UNCHANGED vars
  BY <1>1, <1>11 DEF vars
<1>. QED
  BY <1>2, <1>3, <1>4, <1>5, <1>6, <1>7, <1>8, <1>9, <1>10, <1>11 DEF Next, Matching, Call

\* An order that has not begun to match has filled nothing.
FreshTaker == pc = "match_order" => order[taker].filled_qty = 0

LEMMA InitFresh == Init => FreshTaker
  BY DEF Init, FreshTaker

LEMMA StepFresh == IInv /\ IInv' /\ FreshTaker /\ [Next]_vars => FreshTaker'
<1>. SUFFICES ASSUME IInv, IInv', FreshTaker, [Next]_vars, pc' = "match_order"
     PROVE  order'[taker'].filled_qty = 0
  BY DEF FreshTaker
<1>1. ASSUME NEW side \in Side, NEW type \in OrderType, NEW price \in Prices,
             NEW quantity \in Quantities, AddOrder(side, type, price, quantity)
      PROVE  order'[taker'].filled_qty = 0
  BY <1>1, AddIs
<1>2. CASE UNCHANGED vars
  BY <1>2 DEF vars, FreshTaker
<1>3. ~Matching
  BY DEF Matching, RejectFok, StartMatching, Trade, FinishFilled, RestResidual, CancelResidual, Done
<1>4. ASSUME NEW id, NEW quantity, AmendUp(id, quantity) \/ AmendDown(id, quantity)
      PROVE  FALSE
  BY <1>4 DEF AmendUp, AmendDown
<1>5. ASSUME NEW id, CancelOrder(id)
      PROVE  FALSE
  BY <1>5 DEF CancelOrder
<1>. QED
  BY <1>1, <1>2, <1>3, <1>4, <1>5 DEF Next, Call, RefuseAdd, RefuseChange

\* What is open in the whole pool, and the account that VolumeIsConserved keeps.
OpenInAll(ord) == SumFunctionOnSet(Open(ord), Slot)
Conserved      == asked = 2 * stats.total_volume + OpenInAll(order)

\* A step changes what one slot has open and what is asked for by as much, ...
Orders(m) ==
  /\ OnlyAt(m)
  /\ asked' = asked + Remaining(order'[m]) - Remaining(order[m])
  /\ stats'.total_volume = stats.total_volume

\* ... or it is a trade, ...
Trades ==
  /\ Trade /\ asked' = asked
  /\ stats'.total_volume = stats.total_volume + Taken

\* ... or it changes nothing of the kind.
Nothing == order' = order /\ asked' = asked /\ stats'.total_volume = stats.total_volume

LEMMA StepBalances ==
  ASSUME IInv, IInv', ReportsTyped, Blank, FreshTaker, [ReportsNext]_rvars
  PROVE  Nothing \/ Trades \/ \E m : Orders(m)
<1>0. order \in [Slot -> Order] /\ stats \in Statistics /\ asked \in Int
  BY DEF IInv, TypeOK, ReportsTyped
<1>1. CASE UNCHANGED rvars
  BY <1>1 DEF rvars, vars, reports, Nothing
<1>2. CASE Add
  <2>1. PICK side \in Side, type \in OrderType, price \in Prices, quantity \in Quantities :
          AddOrder(side, type, price, quantity) /\ asked' = asked + quantity
    BY <1>2 DEF Add
  <2>2. /\ OnlyAt(taker') /\ order[taker'].id = 0
        /\ order'[taker'].quantity = quantity /\ order'[taker'].filled_qty = 0
    BY <2>1, AddIs
  <2>3. Remaining(order[taker']) = 0
    BY <2>2 DEF Blank, OnlyAt
  <2>4. Remaining(order'[taker']) = quantity /\ quantity \in Int
    BY <2>2, OrderBookAssumption DEF Remaining
  <2>5. stats'.total_volume = stats.total_volume
    BY <1>0, <1>2, StatisticsAre DEF Add
  <2>6. asked' = asked + Remaining(order'[taker']) - Remaining(order[taker'])
    BY <1>0, <2>1, <2>3, <2>4
  <2>. QED BY <2>2, <2>5, <2>6 DEF Orders
<1>3. CASE ReportTrade
  <2>1. ThisTrade.quantity = Taken /\ Taken \in Nat
    BY <1>3, ThisTradeIs, TradeFills DEF ReportTrade
  <2>2. stats' = [stats EXCEPT !.total_trades = @ + 1, !.total_volume = @ + Taken]
    BY <1>3, <2>1 DEF ReportTrade
  <2>3. stats'.total_volume = stats.total_volume + Taken
    BY <1>0, <2>1, <2>2, StatisticsAre
  <2>. QED BY <1>3, <2>3 DEF ReportTrade, Trades
<1>4. CASE Finish
  <2>1. CASE FinishFilled /\ asked' = asked
    BY <1>4, <2>1 DEF FinishFilled, Finish, Nothing
  <2>2. CASE RestResidual /\ asked' = asked
    <3>1. /\ OnlyAt(taker) /\ order'[taker].quantity = order[taker].quantity
          /\ order'[taker].filled_qty = order[taker].filled_qty
      BY <2>2, RestIs DEF Stays
    <3>2. Remaining(order'[taker]) = Remaining(order[taker]) /\ Remaining(order[taker]) \in Int
      BY <1>0, <3>1, OpenIs DEF Remaining, OnlyAt
    <3>3. asked' = asked + Remaining(order'[taker]) - Remaining(order[taker])
      BY <1>0, <2>2, <3>2
    <3>. QED BY <1>4, <3>1, <3>3 DEF Finish, Orders
  <2>3. CASE CancelResidual /\ asked' = asked - Remaining(order[taker])
    <3>1. taker \in Slot /\ order' = [order EXCEPT ![taker] = DefaultOrder]
      BY <2>3 DEF CancelResidual, IInv, TypeOK
    <3>2. OnlyAt(taker) /\ Remaining(order'[taker]) = 0 /\ Remaining(order[taker]) \in Int
      BY <1>0, <3>1, DropIs, OpenIs
    <3>3. asked' = asked + Remaining(order'[taker]) - Remaining(order[taker])
      BY <1>0, <2>3, <3>2
    <3>. QED BY <1>4, <3>2, <3>3 DEF Finish, Orders
  <2>. QED BY <1>4, <2>1, <2>2, <2>3 DEF Finish
<1>5. CASE Reject
  <2>1. pc = "match_order" /\ taker \in Slot /\ order' = [order EXCEPT ![taker] = DefaultOrder]
    BY <1>5 DEF Reject, RejectFok, IInv, TypeOK
  <2>2. OnlyAt(taker) /\ Remaining(order'[taker]) = 0
    BY <2>1, DropIs
  <2>3. order[taker].filled_qty = 0 /\ order[taker].quantity \in Int
    BY <1>0, <2>1 DEF FreshTaker, Order, Quantity
  <2>4. Remaining(order[taker]) = order[taker].quantity
    BY <2>3 DEF Remaining
  <2>5. asked' = asked + Remaining(order'[taker]) - Remaining(order[taker])
    BY <1>0, <1>5, <2>2, <2>3, <2>4 DEF Reject
  <2>. QED BY <1>5, <2>2, <2>5 DEF Reject, Orders
<1>6. CASE ReturnId \/ Refuse \/ (StartMatching /\ UNCHANGED reports)
  BY <1>6 DEF ReturnId, Refuse, RefuseAdd, RefuseChange, StartMatching, vars, reports, Nothing
<1>7. ASSUME NEW id, Cancel(id)
      PROVE  Orders(order_map[id])
  <2>. DEFINE m == order_map[id]
  <2>1. OnlyAt(m) /\ Remaining(order'[m]) = 0
    BY <1>7, CancelIs DEF Cancel
  <2>2. asked' = asked - Remaining(order[m]) /\ stats' = [stats EXCEPT !.orders_cancelled = @ + 1]
    BY <1>7 DEF Cancel
  <2>. HIDE DEF m
  <2>3. Remaining(order[m]) \in Int
    BY <1>0, <2>1, OpenIs DEF OnlyAt
  <2>4. asked' = asked + Remaining(order'[m]) - Remaining(order[m])
    BY <1>0, <2>1, <2>2, <2>3
  <2>5. stats'.total_volume = stats.total_volume
    BY <1>0, <2>2, StatisticsAre
  <2>6. Orders(m)
    BY <2>1, <2>4, <2>5 DEF Orders
  <2>. QED BY <2>6 DEF m
<1>8. ASSUME NEW id, NEW quantity \in Quantities, Amend(id, quantity)
      PROVE  Orders(order_map[id])
  <2>. DEFINE m == order_map[id]
  <2>1. Stays(m) /\ order'[m].quantity = quantity
    BY <1>8, AmendIs DEF Amend
  <2>2. asked' = asked + quantity - order[m].quantity /\ stats' = stats
    BY <1>8 DEF Amend
  <2>. HIDE DEF m
  <2>3. order[m].quantity \in Int /\ order[m].filled_qty \in Int /\ quantity \in Int
    BY <1>0, <2>1, OrderBookAssumption DEF Stays, OnlyAt, Order, Quantity
  <2>4. asked' = asked + Remaining(order'[m]) - Remaining(order[m])
    BY <1>0, <2>1, <2>2, <2>3 DEF Remaining, Stays
  <2>5. Orders(m)
    BY <2>1, <2>2, <2>4 DEF Orders, Stays
  <2>. QED BY <2>5 DEF m
<1>. QED
  BY <1>1, <1>2, <1>3, <1>4, <1>5, <1>6, <1>7, <1>8 DEF ReportsNext

\* One slot's change is the change of the sum.
LEMMA OpenInAllChanges ==
  ASSUME NEW ord \in [Slot -> Order], NEW ord2 \in [Slot -> Order], NEW m \in Slot,
         \A x \in Slot : x # m => Remaining(ord2[x]) = Remaining(ord[x])
  PROVE  /\ OpenInAll(ord) \in Int
         /\ OpenInAll(ord2) = OpenInAll(ord) + Remaining(ord2[m]) - Remaining(ord[m])
<1>. DEFINE f == Open(ord)
            g == Open(ord2)
<1>1. /\ \A x \in Slot : f[x] \in Int /\ f[x] = Remaining(ord[x])
      /\ \A x \in Slot : g[x] \in Int /\ g[x] = Remaining(ord2[x])
  BY OpenIs
<1>. HIDE DEF f, g
<1>2. \A x \in Slot \ {m} : g[x] = f[x]
  BY <1>1
<1>3. SumFunctionOnSet(g, Slot) = SumFunctionOnSet(f, Slot) + g[m] - f[m]
  BY <1>1, <1>2, SlotIsFinite, SumChangesAt
<1>4. SumFunctionOnSet(f, Slot) \in Int
  BY <1>1, SlotIsFinite, SumTakes
<1>. QED
  BY <1>1, <1>3, <1>4 DEF f, g, OpenInAll

LEMMA InitConserved == ReportsInit => Conserved
<1>. SUFFICES ASSUME ReportsInit
     PROVE  Conserved
  OBVIOUS
<1>. DEFINE f == Open(order)
<1>1. order \in [Slot -> Order] /\ \A m \in Slot : Remaining(order[m]) = 0
  BY InitIInv DEF ReportsInit, Init, IInv, TypeOK, DefaultOrder, Remaining
<1>2. \A m \in Slot : f[m] = 0
  BY <1>1, OpenIs
<1>. HIDE DEF f
<1>3. SumFunctionOnSet(f, Slot) = 0
  BY <1>2, SlotIsFinite, SumOfZeros
<1>. QED
  BY <1>3 DEF Conserved, OpenInAll, ReportsInit, f

LEMMA StepConserved ==
  IInv /\ IInv' /\ ReportsTyped /\ Blank /\ FreshTaker /\ Conserved /\ [ReportsNext]_rvars
    => Conserved'
<1>. SUFFICES ASSUME IInv, IInv', ReportsTyped, Blank, FreshTaker, Conserved, [ReportsNext]_rvars
     PROVE  Conserved'
  OBVIOUS
<1>0. order \in [Slot -> Order] /\ asked \in Int /\ stats.total_volume \in Int
  BY DEF IInv, TypeOK, ReportsTyped, Statistics
<1>1. CASE Nothing
  BY <1>1 DEF Nothing, Conserved
<1>2. ASSUME NEW m, Orders(m)
      PROVE  Conserved'
  <2>1. /\ OpenInAll(order) \in Int
        /\ OpenInAll(order') = OpenInAll(order) + Remaining(order'[m]) - Remaining(order[m])
    BY <1>2, OpenInAllChanges DEF Orders, OnlyAt
  <2>2. Remaining(order'[m]) \in Int /\ Remaining(order[m]) \in Int
    BY <1>2, OpenIs DEF Orders, OnlyAt
  <2>. QED BY <1>0, <1>2, <2>1, <2>2 DEF Orders, Conserved
<1>3. CASE Trades
  <2>1. /\ order' \in [Slot -> Order] /\ taker \in Slot /\ Maker \in Slot /\ Maker # taker
        /\ Taken \in Int
        /\ \A x \in Slot : x # taker /\ x # Maker => order'[x] = order[x]
        /\ Remaining(order'[taker]) = Remaining(order[taker]) - Taken
        /\ Remaining(order'[Maker]) = Remaining(order[Maker]) - Taken
    BY <1>3, TradeFills DEF Trades
  <2>. DEFINE half == [order EXCEPT ![taker] = order'[taker]]
  <2>2. half \in [Slot -> Order] /\ half[taker] = order'[taker]
        /\ \A x \in Slot : x # taker => half[x] = order[x]
    BY <1>0, <2>1
  <2>. HIDE DEF half
  <2>3. /\ OpenInAll(order) \in Int
        /\ OpenInAll(half) = OpenInAll(order) + Remaining(half[taker]) - Remaining(order[taker])
    BY <1>0, <2>1, <2>2, OpenInAllChanges
  <2>4. OpenInAll(order') = OpenInAll(half) + Remaining(order'[Maker]) - Remaining(half[Maker])
    BY <2>1, <2>2, OpenInAllChanges
  <2>5. Remaining(order[taker]) \in Int /\ Remaining(order[Maker]) \in Int
    BY <1>0, <2>1, OpenIs
  <2>6. OpenInAll(order') = OpenInAll(order) - 2 * Taken
    BY <2>1, <2>2, <2>3, <2>4, <2>5
  <2>. QED BY <1>0, <1>3, <2>1, <2>3, <2>6 DEF Trades, Conserved
<1>. QED
  BY <1>1, <1>2, <1>3, StepBalances

LEMMA ConservedAlways == ReportsSpec => []Blank /\ []Conserved
<1>1. ReportsSpec => []Blank
  BY InitBlank, StepBlank, BookAlways, ReportsKeepTheBook, PTL
<1>2. ReportsSpec => []FreshTaker
  BY InitFresh, StepFresh, BookAlways, ReportsKeepTheBook, PTL
<1>. QED
  BY <1>1, <1>2, InitConserved, StepConserved, TypedAlways, BookAlways, PTL DEF ReportsSpec

\* What callers asked for and did not withdraw is open or was traded, and a
\* trade takes its volume from two orders: over any run of the book, whatever
\* the handlers call, no quantity is lost, made or counted twice.
THEOREM Conservation == ReportsSpec => []VolumeIsConserved
<1>1. IInv /\ Blank /\ Conserved => VolumeIsConserved
  <2>. SUFFICES ASSUME IInv, Blank, Conserved
       PROVE  VolumeIsConserved
    OBVIOUS
  <2>. DEFINE f == Open(order)
              A == Allocated
              B == Slot \ Allocated
  <2>1. order \in [Slot -> Order] /\ A \in SUBSET Slot /\ A \cup B = Slot /\ A \cap B = {}
    BY DEF IInv, TypeOK, Allocated
  <2>2. /\ \A x \in Slot : f[x] \in Int
        /\ \A x \in B : f[x] = 0
    BY <2>1, OpenIs DEF Blank, Allocated
  <2>3. OpenIn(A) = SumFunctionOnSet(f, A)
    BY <2>1, OpenInIs
  <2>. HIDE DEF f, A, B
  <2>4. IsFiniteSet(A) /\ IsFiniteSet(B)
    BY <2>1, SlotIsFinite
  <2>5. SumFunctionOnSet(f, A \cup B) = SumFunctionOnSet(f, A) + SumFunctionOnSet(f, B)
    BY <2>1, <2>2, <2>4, SumOfParts
  <2>6. SumFunctionOnSet(f, B) = 0
    BY <2>2, <2>4, SumOfZeros
  <2>7. SumFunctionOnSet(f, A) \in Int
    BY <2>1, <2>2, <2>4, SumTakes
  <2>8. SumFunctionOnSet(f, Slot) = OpenIn(A)
    <3>. DEFINE a == SumFunctionOnSet(f, A)
                b == SumFunctionOnSet(f, B)
    <3>1. SumFunctionOnSet(f, Slot) = a + b
      BY <2>1, <2>5, Zenon
    <3>2. a \in Int /\ b = 0 /\ OpenIn(A) = a
      BY <2>3, <2>6, <2>7
    <3>. HIDE DEF a, b
    <3>. QED BY <3>1, <3>2
  <2>. QED BY <2>8 DEF Conserved, OpenInAll, VolumeIsConserved, f, A
<1>. QED
  BY <1>1, ConservedAlways, BookAlways, PTL

-----------------------------------------------------------------------------
(* The tape.                                                               *)

Amount(t)      == [i \in DOMAIN t |-> t[i].quantity]
NamedIn(t, id) == {i \in DOMAIN t : id \in {t[i].maker_order_id, t[i].taker_order_id}}

\* What the trades on tape t name the order id for.
FilledOn(t, id) == SumFunctionOnSet(Amount(t), NamedIn(t, id))

\* The tape names ids handed out, and has what each order filled.
TapeSound ==
  /\ \A i \in DOMAIN tape :
       tape[i].maker_order_id <= id_counter /\ tape[i].taker_order_id <= id_counter
  /\ \A m \in Slot : order[m].id # 0 => order[m].filled_qty = FilledOn(tape, order[m].id)

LEMMA NamedInIsFinite ==
  ASSUME NEW t \in Seq(TradeReport), NEW id
  PROVE  /\ IsFiniteSet(NamedIn(t, id)) /\ NamedIn(t, id) \subseteq 1 .. Len(t)
         /\ \A i \in NamedIn(t, id) : Amount(t)[i] = t[i].quantity /\ Amount(t)[i] \in Int
<1>1. DOMAIN t = 1 .. Len(t) /\ Len(t) \in Nat
  BY LenProperties
<1>2. NamedIn(t, id) \subseteq 1 .. Len(t)
  BY <1>1 DEF NamedIn
<1>3. 1 \in Int /\ Len(t) \in Int
  BY <1>1
<1>4. IsFiniteSet(1 .. Len(t))
  BY <1>3, FS_Interval
<1>5. IsFiniteSet(NamedIn(t, id))
  BY <1>2, <1>4, FS_Subset
<1>6. ASSUME NEW i \in NamedIn(t, id)
      PROVE  Amount(t)[i] = t[i].quantity /\ Amount(t)[i] \in Int
  <2>1. i \in DOMAIN t /\ t[i] \in TradeReport
    BY <1>1, <1>2, ElementOfSeq
  <2>. QED BY <2>1 DEF Amount, TradeReport
<1>. QED
  BY <1>2, <1>5, <1>6

\* One more trade adds its quantity for the two orders it names.
LEMMA TapeGrows ==
  ASSUME NEW t \in Seq(TradeReport), NEW r \in TradeReport, NEW id
  PROVE  /\ FilledOn(t, id) \in Int
         /\ FilledOn(Append(t, r), id) =
              IF id \in {r.maker_order_id, r.taker_order_id}
              THEN FilledOn(t, id) + r.quantity ELSE FilledOn(t, id)
<1>. DEFINE z == Append(t, r)
            n == Len(t) + 1
            f == Amount(t)
            g == Amount(z)
            S == NamedIn(t, id)
            R == NamedIn(z, id)
            Here == id \in {r.maker_order_id, r.taker_order_id}
<1>1. /\ z \in Seq(TradeReport) /\ Len(z) = n /\ z[n] = r
      /\ \A i \in 1 .. Len(t) : z[i] = t[i]
      /\ Len(t) \in Nat /\ DOMAIN t = 1 .. Len(t) /\ DOMAIN z = 1 .. n
  BY AppendProperties
<1>2. /\ IsFiniteSet(S) /\ S \subseteq 1 .. Len(t)
      /\ \A i \in S : f[i] = t[i].quantity /\ f[i] \in Int
  BY NamedInIsFinite
<1>. HIDE DEF z
<1>3. /\ IsFiniteSet(R) /\ R \subseteq 1 .. n
      /\ \A i \in R : g[i] = z[i].quantity /\ g[i] \in Int
  BY <1>1, NamedInIsFinite
<1>4. \A i : i \in R <=> i \in S \/ (i = n /\ Here)
  <2>1. \A i : i \in R <=> i \in 1 .. n /\ id \in {z[i].maker_order_id, z[i].taker_order_id}
    BY <1>1 DEF NamedIn
  <2>2. \A i : i \in S <=> i \in 1 .. Len(t) /\ id \in {t[i].maker_order_id, t[i].taker_order_id}
    BY <1>1 DEF NamedIn
  <2>3. \A i : i \in 1 .. n <=> i \in 1 .. Len(t) \/ i = n
    BY <1>1
  <2>4. n \notin 1 .. Len(t)
    BY <1>1
  <2>. HIDE DEF R, S, n
  <2>. QED BY <1>1, <2>1, <2>2, <2>3, <2>4
<1>5. SumFunctionOnSet(f, S) \in Int
  <2>. HIDE DEF f, S
  <2>. QED BY <1>2, SumTakes
<1>6. SumFunctionOnSet(g, S) = SumFunctionOnSet(f, S)
  <2>1. \A i \in S : f[i] \in Int /\ g[i] = f[i]
    <3>. HIDE DEF f, g, S, R
    <3>. QED BY <1>1, <1>2, <1>3, <1>4
  <2>. HIDE DEF f, g, S
  <2>. QED BY <1>2, <2>1, SumOfSame
<1>7. CASE Here
  <2>1. R = S \cup {n} /\ n \notin S
    <3>1. n \notin S
      BY <1>1, <1>2
    <3>. HIDE DEF R, S, n
    <3>. QED BY <1>4, <1>7, <3>1
  <2>2. g[n] = r.quantity
    <3>. HIDE DEF g, R, n
    <3>. QED BY <1>1, <1>3, <2>1
  <2>3. SumFunctionOnSet(g, S \cup {n}) = g[n] + SumFunctionOnSet(g, S)
    <3>1. \A y \in S \cup {n} : g[y] \in Int
      <4>. HIDE DEF g, R, n, S
      <4>. QED BY <1>3, <2>1
    <3>. HIDE DEF g, S, n
    <3>. QED BY <1>2, <2>1, <3>1, SumAddsOne
  <2>4. r.quantity \in Int
    BY DEF TradeReport
  <2>5. SumFunctionOnSet(g, R) = SumFunctionOnSet(f, S) + r.quantity
    <3>. DEFINE a == SumFunctionOnSet(f, S)
    <3>1. SumFunctionOnSet(g, R) = r.quantity + a /\ a \in Int
      <4>. HIDE DEF f, g, S, R, n
      <4>. QED BY <1>5, <1>6, <2>1, <2>2, <2>3
    <3>. HIDE DEF a, f, g, S, R
    <3>2. SumFunctionOnSet(g, R) = a + r.quantity
      BY <2>4, <3>1
    <3>. QED BY <3>2 DEF a
  <2>. QED BY <1>5, <1>7, <2>5 DEF FilledOn, z
<1>8. CASE ~Here
  <2>1. R = S
    <3>. HIDE DEF R, S
    <3>. QED BY <1>4, <1>8
  <2>2. SumFunctionOnSet(g, R) = SumFunctionOnSet(f, S)
    <3>. HIDE DEF f, g, S, R
    <3>. QED BY <1>6, <2>1
  <2>. QED BY <1>5, <1>8, <2>2 DEF FilledOn, z
<1>. QED
  BY <1>7, <1>8

\* A tape that does not name the order has nothing for it.
LEMMA NotOnTheTape ==
  ASSUME NEW t \in Seq(TradeReport), NEW n \in Nat, NEW id \in Nat, n < id,
         \A i \in DOMAIN t : t[i].maker_order_id <= n /\ t[i].taker_order_id <= n
  PROVE  FilledOn(t, id) = 0
<1>1. ASSUME NEW i \in DOMAIN t, id \in {t[i].maker_order_id, t[i].taker_order_id}
      PROVE  FALSE
  BY <1>1
<1>2. NamedIn(t, id) = {}
  BY <1>1 DEF NamedIn
<1>. QED
  BY <1>2, SumOfNone DEF FilledOn

\* No two orders have the same id, and no order has one to come.
LEMMA IdsAreUnique ==
  ASSUME IInv
  PROVE  /\ \A m, n \in Slot : (order[m].id # 0 /\ order[m].id = order[n].id) => m = n
         /\ \A m \in Slot : order[m].id # 0 => order[m].id <= id_counter /\ order[m].id \in Nat
<1>1. \A m \in Slot : order[m].id # 0 =>
        order[m].id \in DOMAIN order_map /\ order_map[order[m].id] = m
  BY DEF IInv, MapIsSound, Allocated
<1>2. DOMAIN order_map \subseteq 1 .. id_counter /\ id_counter \in Nat
  BY DEF IInv, TypeOK
<1>. QED
  BY <1>1, <1>2

LEMMA InitTape == ReportsInit => TapeSound
  BY DEF ReportsInit, Init, TapeSound, DefaultOrder

\* A step without a trade, in which at most m is another order: a new one, none
\* or one that filled as much.
LEMMA QuietTape ==
  ASSUME IInv, IInv', ReportsTyped, TapeSound, tape' = tape, id_counter <= id_counter',
         NEW m, OnlyAt(m),
         \/ order'[m].id = 0
         \/ Stays(m)
         \/ order'[m].id = id_counter + 1 /\ order'[m].filled_qty = 0
  PROVE  TapeSound'
<1>0. id_counter \in Nat /\ id_counter' \in Nat /\ tape \in Seq(TradeReport)
  BY DEF IInv, TypeOK, ReportsTyped
<1>1. ASSUME NEW i \in DOMAIN tape
      PROVE  tape[i].maker_order_id <= id_counter' /\ tape[i].taker_order_id <= id_counter'
  <2>1. tape[i].maker_order_id <= id_counter /\ tape[i].taker_order_id <= id_counter
    BY DEF TapeSound
  <2>2. tape[i].maker_order_id \in Nat /\ tape[i].taker_order_id \in Nat
    <3>1. i \in 1 .. Len(tape)
      BY <1>0, LenProperties
    <3>2. tape[i] \in TradeReport
      BY <1>0, <3>1, ElementOfSeq
    <3>. QED BY <3>2 DEF TradeReport
  <2>. QED BY <1>0, <2>1, <2>2
<1>2. ASSUME NEW x \in Slot, order'[x].id # 0
      PROVE  order'[x].filled_qty = FilledOn(tape, order'[x].id)
  <2>1. CASE x # m
    BY <1>2, <2>1 DEF TapeSound, OnlyAt
  <2>2. CASE x = m /\ Stays(m)
    BY <1>2, <2>2 DEF TapeSound, Stays
  <2>3. CASE order'[m].id = id_counter + 1 /\ order'[m].filled_qty = 0 /\ x = m
    <3>1. id_counter + 1 \in Nat /\ id_counter < id_counter + 1
      BY <1>0
    <3>2. \A i \in DOMAIN tape :
            tape[i].maker_order_id <= id_counter /\ tape[i].taker_order_id <= id_counter
      BY DEF TapeSound
    <3>3. FilledOn(tape, id_counter + 1) = 0
      BY <1>0, <3>1, <3>2, NotOnTheTape
    <3>. QED BY <2>3, <3>3
  <2>. QED BY <1>2, <2>1, <2>2, <2>3
<1>. QED
  BY <1>1, <1>2 DEF TapeSound

LEMMA TradeTape ==
  ASSUME IInv, IInv', ReportsTyped, TapeSound, ReportTrade
  PROVE  TapeSound'
<1>. DEFINE r == ThisTrade
<1>1. /\ r \in TradeReport /\ r.quantity = Taken
      /\ r.maker_order_id = order[Maker].id /\ r.taker_order_id = order[taker].id
  BY ThisTradeIs DEF ReportTrade
<1>2. tape' = Append(tape, r) /\ id_counter' = id_counter /\ Trade
  BY DEF ReportTrade, Trade
<1>. HIDE DEF r
<1>3. /\ order' \in [Slot -> Order] /\ taker \in Slot /\ Maker \in Slot /\ Maker # taker
      /\ order[taker].id # 0 /\ order[Maker].id # 0
      /\ \A x \in Slot : x # taker /\ x # Maker => order'[x] = order[x]
      /\ order'[taker].id = order[taker].id
      /\ order'[taker].filled_qty = order[taker].filled_qty + Taken
      /\ order'[Maker].id # 0 =>
           /\ order'[Maker].id = order[Maker].id
           /\ order'[Maker].filled_qty = order[Maker].filled_qty + Taken
  BY <1>2, TradeFills
<1>4. tape \in Seq(TradeReport)
  BY DEF ReportsTyped
<1>5. \A id : FilledOn(tape', id) =
        IF id \in {order[Maker].id, order[taker].id}
        THEN FilledOn(tape, id) + Taken ELSE FilledOn(tape, id)
  BY <1>1, <1>2, <1>4, TapeGrows
<1>6. ASSUME NEW i \in DOMAIN tape'
      PROVE  tape'[i].maker_order_id <= id_counter /\ tape'[i].taker_order_id <= id_counter
  <2>1. /\ DOMAIN tape = 1 .. Len(tape) /\ Len(tape) \in Nat
        /\ DOMAIN tape' = 1 .. Len(tape) + 1
        /\ \A j \in 1 .. Len(tape) : tape'[j] = tape[j]
        /\ tape'[Len(tape) + 1] = r
    BY <1>1, <1>2, <1>4, AppendProperties
  <2>2. CASE i = Len(tape) + 1
    BY <1>1, <1>3, <2>1, <2>2, IdsAreUnique
  <2>3. CASE i \in 1 .. Len(tape)
    BY <2>1, <2>3 DEF TapeSound
  <2>. QED BY <2>1, <2>2, <2>3
<1>7. ASSUME NEW x \in Slot, order'[x].id # 0
      PROVE  order'[x].filled_qty = FilledOn(tape', order'[x].id)
  <2>1. CASE x # taker /\ x # Maker
    <3>1. order'[x] = order[x] /\ order[x].filled_qty = FilledOn(tape, order[x].id)
      BY <1>3, <1>7, <2>1 DEF TapeSound
    <3>2. order[x].id # order[Maker].id /\ order[x].id # order[taker].id
      BY <1>3, <2>1, IdsAreUnique
    <3>. QED BY <1>5, <3>1, <3>2
  <2>2. CASE x = taker
    <3>1. order[x].filled_qty = FilledOn(tape, order[x].id)
      BY <1>3, <2>2 DEF TapeSound
    <3>. QED BY <1>3, <1>5, <2>2, <3>1
  <2>3. CASE x = Maker
    <3>1. order[x].filled_qty = FilledOn(tape, order[x].id)
      BY <1>3, <2>3 DEF TapeSound
    <3>. QED BY <1>3, <1>5, <1>7, <2>3, <3>1
  <2>. QED BY <2>1, <2>2, <2>3
<1>. QED
  BY <1>2, <1>6, <1>7 DEF TapeSound

LEMMA StepTape == IInv /\ IInv' /\ ReportsTyped /\ TapeSound /\ [ReportsNext]_rvars => TapeSound'
<1>. SUFFICES ASSUME IInv, IInv', ReportsTyped, TapeSound, [ReportsNext]_rvars
     PROVE  TapeSound'
  OBVIOUS
<1>0. id_counter \in Nat
  BY DEF IInv, TypeOK
<1>1. ASSUME order' = order, id_counter' = id_counter, tape' = tape
      PROVE  TapeSound'
  BY <1>1 DEF TapeSound
<1>2. CASE Add
  <2>1. PICK side \in Side, type \in OrderType, price \in Prices, quantity \in Quantities :
          AddOrder(side, type, price, quantity)
    BY <1>2 DEF Add
  <2>2. /\ OnlyAt(taker') /\ order'[taker'].id = id_counter + 1
        /\ order'[taker'].filled_qty = 0 /\ id_counter' = id_counter + 1
    BY <2>1, AddIs
  <2>3. tape' = tape /\ id_counter <= id_counter'
    BY <1>0, <1>2, <2>2 DEF Add
  <2>. QED BY <2>2, <2>3, QuietTape
<1>3. CASE ReportTrade
  BY <1>3, TradeTape
<1>4. CASE Finish
  <2>1. tape' = tape /\ id_counter' = id_counter /\ id_counter <= id_counter'
    BY <1>0, <1>4 DEF Finish, FinishFilled, RestResidual, CancelResidual
  <2>2. CASE FinishFilled
    BY <1>1, <2>1, <2>2 DEF FinishFilled
  <2>3. CASE RestResidual
    BY <2>1, <2>3, RestIs, QuietTape DEF Stays
  <2>4. CASE CancelResidual
    <3>1. taker \in Slot /\ order' = [order EXCEPT ![taker] = DefaultOrder]
      BY <2>4 DEF CancelResidual, IInv, TypeOK
    <3>. QED BY <2>1, <3>1, DropIs, QuietTape
  <2>. QED BY <1>4, <2>2, <2>3, <2>4 DEF Finish
<1>5. CASE Reject
  <2>1. /\ taker \in Slot /\ order' = [order EXCEPT ![taker] = DefaultOrder]
        /\ tape' = tape /\ id_counter' = id_counter /\ id_counter <= id_counter'
    BY <1>0, <1>5 DEF Reject, RejectFok, IInv, TypeOK
  <2>. QED BY <2>1, DropIs, QuietTape
<1>6. CASE ReturnId \/ Refuse \/ (StartMatching /\ UNCHANGED reports) \/ UNCHANGED rvars
  BY <1>1, <1>6 DEF ReturnId, Refuse, RefuseAdd, RefuseChange, StartMatching, rvars, vars, reports
<1>7. ASSUME NEW id, Cancel(id)
      PROVE  TapeSound'
  <2>. DEFINE m == order_map[id]
  <2>1. OnlyAt(m) /\ order'[m].id = 0
    BY <1>7, CancelIs DEF Cancel
  <2>2. tape' = tape /\ id_counter <= id_counter'
    BY <1>0, <1>7 DEF Cancel, CancelOrder
  <2>. HIDE DEF m
  <2>. QED BY <2>1, <2>2, QuietTape
<1>8. ASSUME NEW id, NEW quantity, Amend(id, quantity)
      PROVE  TapeSound'
  <2>. DEFINE m == order_map[id]
  <2>1. Stays(m)
    BY <1>8, AmendIs DEF Amend
  <2>2. tape' = tape /\ id_counter <= id_counter'
    BY <1>0, <1>8 DEF Amend, AmendUp, AmendDown
  <2>. HIDE DEF m
  <2>. QED BY <2>1, <2>2, QuietTape DEF Stays
<1>. QED
  BY <1>2, <1>3, <1>4, <1>5, <1>6, <1>7, <1>8 DEF ReportsNext

LEMMA TapeAlways == ReportsSpec => []TapeSound
  BY InitTape, StepTape, TypedAlways, BookAlways, PTL DEF ReportsSpec

\* An order's filled quantity is what the trades reported for its id add up to,
\* though its slot may have had other orders, and other slots may have it later.
THEOREM FillsAreReported == ReportsSpec => []FillsAreOnTheTape
<1>1. IInv /\ ReportsTyped /\ TapeSound => FillsAreOnTheTape
  <2>. SUFFICES ASSUME IInv, ReportsTyped, TapeSound, NEW m \in Allocated
       PROVE  order[m].filled_qty =
                SumFunction([i \in Naming(order[m].id) |-> tape[i].quantity])
    BY DEF FillsAreOnTheTape
  <2>. DEFINE f == Amount(tape)
              S == NamedIn(tape, order[m].id)
  <2>1. order[m].filled_qty = SumFunctionOnSet(f, S)
    BY DEF TapeSound, FilledOn, Allocated
  <2>2. IsFiniteSet(S) /\ \A i \in S : f[i] = tape[i].quantity /\ f[i] \in Int
    BY NamedInIsFinite DEF ReportsTyped
  <2>3. SumFunction([i \in S |-> f[i]]) = SumFunctionOnSet(f, S)
    <3>. HIDE DEF f, S
    <3>. QED BY <2>2, SumOfAll
  <2>4. [i \in S |-> f[i]] = [i \in S |-> tape[i].quantity]
    <3>. HIDE DEF f, S
    <3>. QED BY <2>2
  <2>5. Naming(order[m].id) = S
    BY DEF Naming, NamedIn
  <2>. QED BY <2>1, <2>3, <2>4, <2>5
<1>. QED
  BY <1>1, TapeAlways, TypedAlways, BookAlways, PTL

-----------------------------------------------------------------------------
(* The id that add_order returns.                                          *)

\* The slot of each running call has the id of its order, or of one added
\* while the call runs.
CallsSound ==
  \A i \in 1 .. Len(calls) : stored[calls[i].slot] \in {calls[i].id} \cup calls[i].added

LEMMA StepCalls ==
  IInv /\ IInv' /\ ReportsTyped /\ CallsSound /\ [ReportsNext]_rvars => CallsSound'
<1>. SUFFICES ASSUME IInv, IInv', ReportsTyped, CallsSound, [ReportsNext]_rvars
     PROVE  CallsSound'
  OBVIOUS
<1>0. /\ calls \in Seq(RunningCall) /\ DOMAIN calls = 1 .. Len(calls) /\ Len(calls) \in Nat
      /\ stored \in [Slot -> Nat]
      /\ \A i \in 1 .. Len(calls) : calls[i] \in RunningCall
  BY LenProperties, ElementOfSeq DEF ReportsTyped
<1>1. CASE UNCHANGED <<calls, stored>>
  BY <1>1 DEF CallsSound
<1>2. CASE Add
  <2>1. PICK side \in Side, type \in OrderType, price \in Prices, quantity \in Quantities :
          AddOrder(side, type, price, quantity)
    BY <1>2 DEF Add
  <2>2. taker' \in Slot
    BY <2>1, AddIs DEF OnlyAt
  <2>. DEFINE id   == id_counter'
              new  == [slot |-> taker', id |-> id, published |-> FALSE, added |-> {}]
              more(i) == [calls[i] EXCEPT !.added = @ \cup {id}]
              rest == [i \in 1 .. Len(calls) |-> more(i)]
              n    == Len(calls)
  <2>3. calls' = <<new>> \o rest /\ stored' = [stored EXCEPT ![taker'] = id]
    BY <1>0, <1>2 DEF Add
  <2>4. Len(rest) = n /\ \A i \in 1 .. n : rest[i] = more(i)
    BY <1>0
  <2>5. Len(calls') = n + 1 /\ calls'[1] = new /\ \A i \in 2 .. n + 1 : calls'[i] = rest[i - 1]
    <3>. HIDE DEF new, rest
    <3>. QED BY <1>0, <2>3, <2>4
  <2>6. stored'[new.slot] = new.id
    BY <1>0, <2>2, <2>3
  <2>7. ASSUME NEW i \in 1 .. n
        PROVE  stored'[more(i).slot] \in {more(i).id} \cup more(i).added
    <3>1. /\ more(i).slot = calls[i].slot /\ more(i).id = calls[i].id
          /\ more(i).added = calls[i].added \cup {id}
          /\ calls[i].slot \in Slot
      BY <1>0 DEF RunningCall
    <3>2. stored[calls[i].slot] \in {calls[i].id} \cup calls[i].added
      BY DEF CallsSound
    <3>. HIDE DEF id, more
    <3>. QED BY <1>0, <2>2, <2>3, <3>1, <3>2
  <2>8. ASSUME NEW i \in 1 .. n + 1
        PROVE  stored'[calls'[i].slot] \in {calls'[i].id} \cup calls'[i].added
    <3>1. CASE i = 1
      <4>. HIDE DEF new
      <4>. QED BY <2>5, <2>6, <3>1
    <3>2. CASE i # 1
      <4>1. i - 1 \in 1 .. n /\ i \in 2 .. n + 1
        BY <1>0, <3>2
      <4>2. calls'[i] = more(i - 1)
        <5>. HIDE DEF more, rest
        <5>. QED BY <2>4, <2>5, <4>1
      <4>. HIDE DEF more
      <4>. QED BY <2>7, <4>1, <4>2
    <3>. QED BY <3>1, <3>2
  <2>. HIDE DEF n
  <2>. QED BY <2>5, <2>8 DEF CallsSound
<1>3. CASE Finish
  <2>1. calls' = [calls EXCEPT ![1].published = TRUE] /\ stored' = stored
    BY <1>3 DEF Finish
  <2>2. Len(calls') = Len(calls)
    BY <1>0, <2>1
  <2>3. ASSUME NEW i \in 1 .. Len(calls)
        PROVE  /\ calls'[i].slot = calls[i].slot /\ calls'[i].id = calls[i].id
               /\ calls'[i].added = calls[i].added
    <3>1. calls[i] \in RunningCall
      BY <1>0
    <3>2. CASE i = 1
      <4>1. calls'[i] = [calls[i] EXCEPT !.published = TRUE]
        BY <1>0, <2>1, <3>2
      <4>. QED BY <3>1, <4>1 DEF RunningCall
    <3>3. CASE i # 1
      BY <1>0, <2>1, <3>3
    <3>. QED BY <3>2, <3>3
  <2>. QED BY <2>1, <2>2, <2>3 DEF CallsSound
<1>4. CASE ReturnId
  <2>1. calls # <<>> /\ calls' = Tail(calls) /\ stored' = stored
    BY <1>4 DEF ReturnId
  <2>2. Len(calls') = Len(calls) - 1 /\ \A i \in 1 .. Len(calls) - 1 : calls'[i] = calls[i + 1]
    BY <1>0, <2>1, HeadTailProperties
  <2>3. \A i \in 1 .. Len(calls) - 1 : i + 1 \in 1 .. Len(calls)
    BY <1>0
  <2>. QED BY <2>1, <2>2, <2>3 DEF CallsSound
<1>5. CASE UNCHANGED rvars \/ ReportTrade \/ Reject \/ Refuse \/ (StartMatching /\ UNCHANGED reports)
  BY <1>1, <1>5 DEF rvars, reports, ReportTrade, Reject, Refuse
<1>6. ASSUME NEW id, NEW quantity, Amend(id, quantity)
      PROVE  CallsSound'
  BY <1>1, <1>6 DEF Amend
<1>7. ASSUME NEW id, Cancel(id)
      PROVE  CallsSound'
  BY <1>1, <1>7 DEF Cancel
<1>. QED
  BY <1>2, <1>3, <1>4, <1>5, <1>6, <1>7 DEF ReportsNext

LEMMA StepReturns ==
  ReportsTyped /\ CallsSound /\ AddReturnsItsId /\ [ReportsNext]_rvars => AddReturnsItsId'
<1>. SUFFICES ASSUME ReportsTyped, CallsSound, AddReturnsItsId, [ReportsNext]_rvars
     PROVE  AddReturnsItsId'
  OBVIOUS
<1>1. CASE returned' = returned
  BY <1>1 DEF AddReturnsItsId
<1>2. CASE ReturnId
  <2>1. /\ calls # <<>>
        /\ returned' = [id |-> stored[Head(calls).slot], own |-> Head(calls).id,
                        added |-> Head(calls).added]
    BY <1>2 DEF ReturnId, IdInSlot
  <2>2. Head(calls) = calls[1] /\ 1 \in 1 .. Len(calls)
    BY <2>1, EmptySeq, LenProperties DEF ReportsTyped
  <2>3. stored[calls[1].slot] \in {calls[1].id} \cup calls[1].added
    BY <2>2 DEF CallsSound
  <2>. QED BY <2>1, <2>2, <2>3 DEF AddReturnsItsId
<1>3. CASE Refuse
  <2>1. returned' = returned \/ returned' = NoReturn
    BY <1>3 DEF Refuse
  <2>. QED BY <1>1, <2>1 DEF AddReturnsItsId, NoReturn
<1>4. CASE UNCHANGED rvars \/ Add \/ ReportTrade \/ Finish \/ Reject
           \/ (StartMatching /\ UNCHANGED reports)
  BY <1>1, <1>4 DEF rvars, reports, Add, ReportTrade, Finish, Reject
<1>5. ASSUME NEW id, Cancel(id)
      PROVE  AddReturnsItsId'
  BY <1>1, <1>5 DEF Cancel
<1>6. ASSUME NEW id, NEW quantity, Amend(id, quantity)
      PROVE  AddReturnsItsId'
  BY <1>1, <1>6 DEF Amend
<1>. QED
  BY <1>2, <1>3, <1>4, <1>5, <1>6 DEF ReportsNext

\* add_order returns the id of its own order, also when that order is gone by
\* then; only an order added from inside the call can put its id in the place.
THEOREM OwnIdReturned == ReportsSpec => []AddReturnsItsId
<1>1. ReportsInit => CallsSound /\ AddReturnsItsId
  BY DEF ReportsInit, CallsSound, AddReturnsItsId, NoReturn
<1>. QED
  BY <1>1, StepCalls, StepReturns, TypedAlways, BookAlways, PTL DEF ReportsSpec

-----------------------------------------------------------------------------
(* The queries.                                                            *)

\* How many levels of side s come before the one at p.
Before(s, p) == {q \in DOMAIN book[s] : Better(s, q, p)}
Ranks(s)     == [p \in DOMAIN book[s] |-> Cardinality(Before(s, p))]

\* The prices of a side are finitely many integers.
LEMMA SideIsFinite ==
  ASSUME IInv, NEW s \in Side
  PROVE  /\ IsFiniteSet(DOMAIN book[s]) /\ DOMAIN book[s] \subseteq Int
         /\ Cardinality(DOMAIN book[s]) \in Nat
         /\ IsFiniteSet(Prices) /\ Cardinality(DOMAIN book[s]) <= Cardinality(Prices)
<1>1. Prices \subseteq -MaxPrice .. MaxPrice /\ MaxPrice \in Int
  BY OrderBookAssumption
<1>2. IsFiniteSet(-MaxPrice .. MaxPrice)
  BY <1>1, FS_Interval
<1>3. IsFiniteSet(Prices)
  BY <1>1, <1>2, FS_Subset
<1>4. DOMAIN book[s] \subseteq Prices
  BY DEF IInv, TypeOK
<1>5. IsFiniteSet(DOMAIN book[s]) /\ Cardinality(DOMAIN book[s]) <= Cardinality(Prices)
  BY <1>3, <1>4, FS_Subset
<1>6. DOMAIN book[s] \subseteq Int
  BY <1>1, <1>4
<1>. QED
  BY <1>3, <1>5, <1>6, FS_CardinalityType

\* Fewer levels come before a better one; so no two have the same number before them.
LEMMA BetterComesFirst ==
  ASSUME IInv, NEW s \in Side, NEW p \in DOMAIN book[s], NEW r \in DOMAIN book[s], Better(s, p, r)
  PROVE  Cardinality(Before(s, p)) < Cardinality(Before(s, r))
<1>1. IsFiniteSet(DOMAIN book[s]) /\ DOMAIN book[s] \subseteq Int
  BY SideIsFinite
<1>2. Before(s, p) \cup {p} \subseteq Before(s, r) /\ p \notin Before(s, p)
  BY <1>1 DEF Before, Better
<1>3. IsFiniteSet(Before(s, p)) /\ IsFiniteSet(Before(s, r))
  BY <1>1, FS_Subset DEF Before
<1>4. Cardinality(Before(s, p) \cup {p}) = Cardinality(Before(s, p)) + 1
  BY <1>2, <1>3, FS_AddElement
<1>5. Cardinality(Before(s, p) \cup {p}) <= Cardinality(Before(s, r))
  BY <1>2, <1>3, FS_Subset
<1>6. Cardinality(Before(s, p)) \in Nat /\ Cardinality(Before(s, r)) \in Nat
  BY <1>3, FS_CardinalityType
<1>. QED
  BY <1>4, <1>5, <1>6

LEMMA RanksDiffer ==
  ASSUME IInv, NEW s \in Side
  PROVE  /\ \A p \in DOMAIN book[s] : Ranks(s)[p] \in 0 .. Cardinality(DOMAIN book[s]) - 1
         /\ \A p, r \in DOMAIN book[s] : Ranks(s)[p] = Ranks(s)[r] => p = r
         /\ \A p, r \in DOMAIN book[s] : Ranks(s)[p] < Ranks(s)[r] => Better(s, p, r)
<1>. DEFINE D == DOMAIN book[s]
<1>1. IsFiniteSet(D) /\ D \subseteq Int /\ Cardinality(D) \in Nat
  BY SideIsFinite
<1>2. ASSUME NEW p \in D
      PROVE  Ranks(s)[p] \in 0 .. Cardinality(D) - 1
  <2>1. Before(s, p) \subseteq D \ {p}
    BY <1>1 DEF Before, Better
  <2>2. IsFiniteSet(D \ {p}) /\ Cardinality(D \ {p}) = Cardinality(D) - 1
    BY <1>1, FS_RemoveElement
  <2>3. IsFiniteSet(Before(s, p)) /\ Cardinality(Before(s, p)) <= Cardinality(D) - 1
    BY <2>1, <2>2, FS_Subset
  <2>4. Cardinality(Before(s, p)) \in Nat
    BY <2>3, FS_CardinalityType
  <2>. QED BY <1>1, <2>3, <2>4 DEF Ranks
<1>3. ASSUME NEW p \in D, NEW r \in D
      PROVE  p = r \/ (Better(s, p, r) /\ Ranks(s)[p] < Ranks(s)[r])
                   \/ (Better(s, r, p) /\ Ranks(s)[r] < Ranks(s)[p])
  <2>1. p = r \/ Better(s, p, r) \/ Better(s, r, p)
    BY <1>1 DEF Better
  <2>. QED BY <2>1, BetterComesFirst DEF Ranks
<1>4. \A p, r \in D : Ranks(s)[p] = Ranks(s)[r] => p = r
  <2>1. \A p \in D : Ranks(s)[p] \in Int
    BY <1>1, <1>2
  <2>. QED BY <1>3, <2>1
<1>5. \A p, r \in D : Ranks(s)[p] < Ranks(s)[r] => Better(s, p, r)
  <2>1. \A p \in D : Ranks(s)[p] \in Int
    BY <1>1, <1>2
  <2>. QED BY <1>3, <2>1
<1>. QED
  BY <1>2, <1>4, <1>5

\* Counting the levels before it finds each level once, best first.
LEMMA PricesAreOrdered ==
  ASSUME IInv, NEW s \in Side
  PROVE  LET held == Cardinality(DOMAIN book[s])
         IN  /\ \A i \in 1 .. held : PriceAt(s, i) \in DOMAIN book[s]
             /\ \A i, j \in 1 .. held : i < j => Better(s, PriceAt(s, i), PriceAt(s, j))
             /\ \A i, j \in 1 .. held : PriceAt(s, i) = PriceAt(s, j) => i = j
             /\ \A p \in DOMAIN book[s] : \E i \in 1 .. held : PriceAt(s, i) = p
             /\ held > 0 => PriceAt(s, 1) = BestPrice(book, s)
<1>. DEFINE D == DOMAIN book[s]
            held == Cardinality(D)
            r == Ranks(s)
<1>1. IsFiniteSet(D) /\ D \subseteq Int /\ held \in Nat
  BY SideIsFinite
<1>2. /\ \A p \in D : r[p] \in 0 .. held - 1
      /\ \A p, q \in D : r[p] = r[q] => p = q
      /\ \A p, q \in D : r[p] < r[q] => Better(s, p, q)
  BY RanksDiffer
<1>3. \A k \in 0 .. held - 1 : \E p \in D : r[p] = k
  <2>1. IsFiniteSet(D)
    BY <1>1
  <2>2. Numbering(r, D)
    BY <1>2 DEF Numbering
  <2>. HIDE DEF D, r
  <2>. QED BY <2>1, <2>2, NumberingIsOnto
<1>4. ASSUME NEW i \in 1 .. held
      PROVE  PriceAt(s, i) \in D /\ r[PriceAt(s, i)] = i - 1
  <2>1. i - 1 \in 0 .. held - 1
    BY <1>1
  <2>2. PICK p \in D : r[p] = i - 1
    BY <2>1, <1>3
  <2>3. \E q \in D : Cardinality(Before(s, q)) = i - 1
    BY <2>2 DEF Ranks
  <2>4. PriceAt(s, i) = CHOOSE q \in D : Cardinality(Before(s, q)) = i - 1
    BY DEF PriceAt, Before
  <2>5. PriceAt(s, i) \in D /\ Cardinality(Before(s, PriceAt(s, i))) = i - 1
    <3>. HIDE DEF D
    <3>. QED BY <2>3, <2>4
  <2>. QED BY <2>5 DEF Ranks
<1>5. ASSUME NEW p \in D
      PROVE  r[p] + 1 \in 1 .. held /\ PriceAt(s, r[p] + 1) = p
  <2>1. r[p] + 1 \in 1 .. held /\ r[p] \in Int
    BY <1>1, <1>2
  <2>2. PriceAt(s, r[p] + 1) \in D /\ r[PriceAt(s, r[p] + 1)] = (r[p] + 1) - 1
    BY <2>1, <1>4
  <2>. HIDE DEF D, r
  <2>3. r[PriceAt(s, r[p] + 1)] = r[p]
    BY <2>1, <2>2
  <2>. QED BY <2>1, <2>2, <2>3, <1>2
<1>. HIDE DEF D, r
<1>6. \A i, j \in 1 .. held : i < j => Better(s, PriceAt(s, i), PriceAt(s, j))
  <2>1. ASSUME NEW i \in 1 .. held, NEW j \in 1 .. held, i < j
        PROVE  Better(s, PriceAt(s, i), PriceAt(s, j))
    <3>1. PriceAt(s, i) \in D /\ PriceAt(s, j) \in D
      BY <1>4
    <3>2. r[PriceAt(s, i)] = i - 1 /\ r[PriceAt(s, j)] = j - 1
      BY <1>4
    <3>3. i - 1 < j - 1
      BY <1>1, <2>1
    <3>. QED BY <3>1, <3>2, <3>3, <1>2
  <2>. QED BY <2>1
<1>7. \A i, j \in 1 .. held : PriceAt(s, i) = PriceAt(s, j) => i = j
  <2>1. ASSUME NEW i \in 1 .. held, NEW j \in 1 .. held, PriceAt(s, i) = PriceAt(s, j)
        PROVE  i = j
    <3>1. i - 1 = j - 1 /\ i \in Int /\ j \in Int
      BY <1>1, <1>4, <2>1
    <3>. QED BY <3>1
  <2>. QED BY <2>1
<1>8. held > 0 => PriceAt(s, 1) = BestPrice(book, s)
  <2>. SUFFICES ASSUME held > 0
       PROVE  PriceAt(s, 1) = BestPrice(book, s)
    OBVIOUS
  <2>1. 1 \in 1 .. held /\ D # {}
    BY <1>1, FS_EmptySet
  <2>2. PriceAt(s, 1) \in D /\ r[PriceAt(s, 1)] = 0
    BY <2>1, <1>4
  <2>3. BestPrice(book, s) \in D /\ ~Better(s, PriceAt(s, 1), BestPrice(book, s))
    BY <2>1, <2>2, BestPriceIsBest DEF D, IInv, TypeOK
  <2>4. r[BestPrice(book, s)] \in 0 .. held - 1
    BY <2>3, <1>2
  <2>5. ~(r[PriceAt(s, 1)] < r[BestPrice(book, s)])
    BY <2>2, <2>3, <1>2
  <2>6. r[BestPrice(book, s)] = 0
    BY <2>2, <2>4, <2>5, <1>1
  <2>. QED BY <2>2, <2>3, <2>6, <1>2
<1>9. \A p \in D : \E i \in 1 .. held : PriceAt(s, i) = p
  BY <1>5
<1>. QED
  BY <1>4, <1>6, <1>7, <1>8, <1>9 DEF D

\* The orders of a side that are open, and the queues of its levels.
OpenOn(s)     == {m \in Allocated : order[m].side = s /\ IsActive(order[m])}
SideQueues(s) == [p \in DOMAIN book[s] |-> QueuedAt(s, p)]

\* Between calls each open order is queued in one level of its side.
LEMMA OpenIsQueued ==
  ASSUME IInv, pc = "idle", NEW s \in Side, NEW f, \A m \in OpenOn(s) : f[m] \in Nat
  PROVE  Groups(f, DOMAIN book[s], SideQueues(s), OpenOn(s))
<1>. DEFINE D == DOMAIN book[s]
            Q == SideQueues(s)
            W == OpenOn(s)
<1>1. order \in [Slot -> Order] /\ GoodBook(book, order) /\ IsFiniteSet(D) /\ taker \notin Slot
  BY SideIsFinite, OrderBookAssumption DEF IInv, TypeOK, BookIsSound, Null, Slot
<1>2. \A p \in D : Q[p] = QueuedAt(s, p) /\ \A x : x \in Q[p] <=> In(book, x, s, p)
  BY DEF In, QueuedAt, SideQueues
<1>3. \A p \in D : \A x \in Q[p] : x \in W
  BY <1>2, QueuedIsOther DEF IInv, Fits, Allocated, OpenOn
<1>4. ASSUME NEW x \in W
      PROVE  \E p \in D : x \in Q[p]
  <2>1. In(book, x, s, order[x].price)
    BY <1>1 DEF IInv, BookIsSound, OpenOn, Allocated
  <2>. QED BY <2>1, <1>2 DEF In
<1>5. \A p, r \in D : p # r => Q[p] \cap Q[r] = {}
  <2>1. ASSUME NEW p \in D, NEW r \in D, NEW x, x \in Q[p], x \in Q[r]
        PROVE  p = r
    <3>1. In(book, x, s, p) /\ In(book, x, s, r)
      BY <1>2, <2>1
    <3>. QED BY <3>1, <1>1, QueuedOnce
  <2>. HIDE DEF Q
  <2>. QED BY <2>1
<1>6. ASSUME NEW p \in D
      PROVE  IsFiniteSet(Q[p])
  <2>1. Q[p] \subseteq Slot
    BY <1>3 DEF OpenOn, Allocated
  <2>. HIDE DEF Q
  <2>. QED BY <2>1, SlotIsFinite
<1>. HIDE DEF D, Q, W
<1>7. Groups(f, D, Q, W)
  <2>1. \A x \in W : f[x] \in Nat
    BY DEF W
  <2>. QED BY <2>1, <1>1, <1>3, <1>4, <1>5, <1>6 DEF Groups
<1>. QED
  BY <1>7 DEF D, Q, W

\* What the levels have adds up along the depth as it does over the prices.
LEMMA DepthAddsUp ==
  ASSUME IInv, NEW s \in Side, NEW f, \A p \in DOMAIN book[s] : f[p] \in Int
  PROVE  SumFunction([i \in 1 .. Cardinality(DOMAIN book[s]) |-> f[PriceAt(s, i)]])
           = SumFunctionOnSet(f, DOMAIN book[s])
<1>. DEFINE D == DOMAIN book[s]
            S == 1 .. Cardinality(D)
            g == [i \in S |-> PriceAt(s, i)]
            k == [i \in S |-> f[PriceAt(s, i)]]
<1>1. IsFiniteSet(S)
  BY SideIsFinite, FS_Interval
<1>2. /\ \A i \in S : g[i] \in D
      /\ \A i, j \in S : g[i] = g[j] => i = j
      /\ \A p \in D : \E i \in S : g[i] = p
  BY PricesAreOrdered
<1>3. {g[i] : i \in S} = D
  <2>. HIDE DEF g, S, D
  <2>. QED BY <1>2
<1>4. \A i \in S : k[i] = f[g[i]] /\ k[i] \in Int
  BY <1>2
<1>. HIDE DEF D, S
<1>5. k = [i \in S |-> k[i]]
  OBVIOUS
<1>. HIDE DEF g, k
<1>6. SumFunction([i \in S |-> k[i]]) = SumFunctionOnSet(k, S)
  BY <1>1, <1>4, SumOfAll
<1>7. SumFunctionOnSet(f, {g[i] : i \in S}) = SumFunctionOnSet(k, S)
  BY <1>1, <1>2, <1>4, SumOfImage
<1>8. SumFunction(k) = SumFunctionOnSet(f, D)
  BY <1>3, <1>5, <1>6, <1>7
<1>. QED
  BY <1>8 DEF k, S, D

\* The entries count each open order of the side.
LEMMA DepthCounts ==
  ASSUME IInv, pc = "idle", NEW s \in Side
  PROVE  SumFunction([i \in 1 .. Cardinality(DOMAIN book[s]) |-> book[s][PriceAt(s, i)].order_count])
           = Cardinality(OpenOn(s))
<1>. DEFINE D == DOMAIN book[s]
            S == 1 .. Cardinality(D)
            n == [p \in D |-> book[s][p].order_count]
            one == [m \in Slot |-> 1]
            Q == SideQueues(s)
            W == OpenOn(s)
<1>1. order \in [Slot -> Order] /\ GoodBook(book, order)
  BY DEF IInv, TypeOK, BookIsSound
<1>2. W \subseteq Slot /\ IsFiniteSet(W) /\ \A m \in W : one[m] = 1 /\ one[m] \in Nat
  BY SlotIsFinite DEF OpenOn, Allocated
<1>3. Groups(one, D, Q, W)
  <2>. HIDE DEF one
  <2>. QED BY <1>2, OpenIsQueued
<1>4. ASSUME NEW p \in D
      PROVE  n[p] = SumFunctionOnSet(one, Q[p]) /\ n[p] \in Int
  <2>. DEFINE q == book[s][p].queue
  <2>1. GoodLevel(order, s, p, book[s][p]) /\ q \in Seq(Slot)
    BY <1>1, GoodQueue
  <2>2. n[p] = Len(q) /\ Len(q) \in Nat /\ DOMAIN q = 1 .. Len(q)
    BY <2>1 DEF GoodLevel
  <2>3. Q[p] = ToSet(q)
    BY DEF SideQueues, QueuedAt
  <2>4. \A i, j \in DOMAIN q : q[i] = q[j] => i = j
    BY <2>1, <1>1, GoodLevelIsInjective
  <2>5. (\A i \in DOMAIN q : q[i] \in ToSet(q)) /\ \A z \in ToSet(q) : \E i \in DOMAIN q : q[i] = z
    BY DEF ToSet
  <2>6. IsFiniteSet(DOMAIN q) /\ Cardinality(DOMAIN q) = Len(q)
    BY <2>2, FS_Interval
  <2>. HIDE DEF q
  <2>7. IsFiniteSet(ToSet(q)) /\ Cardinality(ToSet(q)) = Cardinality(DOMAIN q)
    BY <2>4, <2>5, <2>6, SameSize
  <2>8. \A m \in ToSet(q) : one[m] = 1
    BY <2>1 DEF ToSet
  <2>. HIDE DEF one
  <2>9. SumFunctionOnSet(one, ToSet(q)) = Cardinality(ToSet(q))
    BY <2>7, <2>8, SumOfOnes
  <2>. QED BY <2>2, <2>3, <2>6, <2>7, <2>9
<1>5. [i \in S |-> book[s][PriceAt(s, i)].order_count] = [i \in S |-> n[PriceAt(s, i)]]
  BY PricesAreOrdered
<1>. HIDE DEF n, one, Q, W
<1>6. SumFunction([i \in S |-> n[PriceAt(s, i)]]) = SumFunctionOnSet(n, D)
  BY <1>4, DepthAddsUp
<1>7. SumFunctionOnSet(n, D) = SumFunctionOnSet(one, W)
  <2>. HIDE DEF D
  <2>. QED BY <1>3, <1>4, GroupsAddUp
<1>8. SumFunctionOnSet(one, W) = Cardinality(W)
  BY <1>2, SumOfOnes
<1>. QED
  BY <1>5, <1>6, <1>7, <1>8 DEF W

\* The quantities of the entries are what those orders have left.
LEMMA DepthTotals ==
  ASSUME IInv, Totals, pc = "idle", NEW s \in Side
  PROVE  SumFunction([i \in 1 .. Cardinality(DOMAIN book[s]) |-> book[s][PriceAt(s, i)].total_qty]) % QtyMod
           = OpenIn(OpenOn(s)) % QtyMod
<1>. DEFINE D == DOMAIN book[s]
            S == 1 .. Cardinality(D)
            t == [p \in D |-> book[s][p].total_qty]
            f == Open(order)
            Q == SideQueues(s)
            W == OpenOn(s)
            u == [p \in D |-> SumFunctionOnSet(f, Q[p])]
<1>1. order \in [Slot -> Order] /\ GoodBook(book, order) /\ IsFiniteSet(D)
  BY SideIsFinite DEF IInv, TypeOK, BookIsSound
<1>2. W \subseteq Slot
  BY DEF OpenOn, Allocated
<1>3. \A m \in W : f[m] \in Nat
  <2>1. ASSUME NEW m \in W
        PROVE  f[m] \in Nat
    <3>1. m \in Slot /\ m # taker
      BY <1>2, OrderBookAssumption DEF IInv, TypeOK, Null, Slot
    <3>2. In(book, m, s, order[m].price)
      BY <3>1 DEF IInv, BookIsSound, OpenOn, Allocated
    <3>3. order[m].filled_qty < order[m].quantity
      BY <3>2, QueuedIsOther DEF IInv, Fits
    <3>4. order[m] \in Order
      BY <1>1, <3>1
    <3>5. order[m].quantity \in Nat /\ order[m].filled_qty \in Nat
      BY <3>4, OrderBookAssumption DEF Order, Quantity
    <3>. QED BY <1>1, <3>1, <3>3, <3>5, OpenIs DEF Remaining
  <2>. QED BY <2>1
<1>4. Groups(f, D, Q, W)
  <2>. HIDE DEF f
  <2>. QED BY <1>3, OpenIsQueued
<1>5. \A p \in D : IsFiniteSet(Q[p]) /\ \A x \in Q[p] : f[x] \in Nat
  BY <1>4 DEF Groups
<1>6. \A p \in D : u[p] = SumFunctionOnSet(f, Q[p]) /\ u[p] \in Int
  <2>. HIDE DEF f, Q
  <2>. QED BY <1>5, SumOfNaturals
<1>7. \A p \in D : t[p] = u[p] % QtyMod
  <2>1. ASSUME NEW p \in D
        PROVE  t[p] = u[p] % QtyMod
    <3>1. TotalIs(book[s][p], order) /\ Q[p] = ToSet(book[s][p].queue)
      BY DEF Totals, TotalsAre, SideQueues, QueuedAt
    <3>. QED BY <3>1 DEF TotalIs
  <2>. QED BY <2>1
<1>8. \A p \in D : t[p] \in Int
  BY <1>1, GoodQueue, OrderBookAssumption DEF PriceLevel, Quantity
<1>9. [i \in S |-> book[s][PriceAt(s, i)].total_qty] = [i \in S |-> t[PriceAt(s, i)]]
  BY PricesAreOrdered
<1>10. OpenIn(W) = SumFunctionOnSet(f, W)
  BY <1>1, <1>2, OpenInIs
<1>. HIDE DEF t, f, Q, W, u
<1>11. SumFunction([i \in S |-> t[PriceAt(s, i)]]) = SumFunctionOnSet(t, D)
  BY <1>8, DepthAddsUp
<1>. HIDE DEF D
<1>12. SumFunctionOnSet(t, D) % QtyMod = SumFunctionOnSet(u, D) % QtyMod
  <2>1. QtyMod \in Nat \ {0}
    BY OrderBookAssumption
  <2>. QED BY <2>1, <1>1, <1>6, <1>7, SumOfRemainders
<1>13. SumFunctionOnSet(u, D) = SumFunctionOnSet(f, W)
  BY <1>4, <1>6, GroupsAddUp
<1>. QED
  BY <1>9, <1>10, <1>11, <1>12, <1>13 DEF W, D

\* order_map_ has an entry for each live order.
LEMMA OrdersAreCounted ==
  ASSUME IInv
  PROVE  OrderCount = Cardinality(Allocated)
<1>. DEFINE g == [m \in Allocated |-> order[m].id]
<1>1. IsFiniteSet(Allocated)
  BY SlotIsFinite DEF Allocated
<1>2. /\ \A m \in Allocated : g[m] \in DOMAIN order_map
      /\ \A m, n \in Allocated : g[m] = g[n] => m = n
  BY DEF IInv, MapIsSound
<1>3. ASSUME NEW id \in DOMAIN order_map
      PROVE  \E m \in Allocated : g[m] = id
  <2>1. id # 0 /\ order_map[id] \in Slot /\ order[order_map[id]].id = id
    BY DEF IInv, TypeOK, MapIsSound
  <2>. QED BY <2>1 DEF Allocated
<1>. HIDE DEF g
<1>4. Cardinality(DOMAIN order_map) = Cardinality(Allocated)
  BY <1>1, <1>2, <1>3, SameSize
<1>. QED
  BY <1>4 DEF OrderCount

\* The whole depth of a side: its levels, best first.
LEMMA DepthIs ==
  ASSUME IInv, NEW s \in Side
  PROVE  LET held == Cardinality(DOMAIN book[s])
             all  == Depth(s, Cardinality(Prices))
         IN  /\ held \in Nat
             /\ all = [i \in 1 .. held |-> Entry(s, PriceAt(s, i))]
             /\ Len(all) = held
<1>. DEFINE held == Cardinality(DOMAIN book[s])
            all  == Depth(s, Cardinality(Prices))
            E    == {Entry(s, p) : p \in DOMAIN book[s]}
<1>1. held \in Nat /\ Cardinality(Prices) \in Nat /\ held <= Cardinality(Prices)
  BY SideIsFinite, FS_CardinalityType
<1>2. all = [i \in 1 .. held |-> Entry(s, PriceAt(s, i))]
  <2>1. (IF held < Cardinality(Prices) THEN held ELSE Cardinality(Prices)) = held
    BY <1>1
  <2>. QED BY <2>1 DEF Depth
<1>3. \A i \in 1 .. held : Entry(s, PriceAt(s, i)) \in E
  BY PricesAreOrdered
<1>. HIDE DEF E
<1>4. all \in Seq(E) /\ Len(all) = held
  <2>. HIDE DEF all, held
  <2>. QED BY <1>1, <1>2, <1>3
<1>. QED
  BY <1>1, <1>2, <1>4

\* Between calls, and in the handler of a tick, the queries agree with the
\* orders: depth, top of the book, spread and order count, although they are
\* computed from maps and aggregates that five operations adjust.
THEOREM QueriesAreRight == ReportsSpec => []QueriesShowTheBook
<1>1. ASSUME IInv, Totals, pc = "idle", NEW s \in Side
      PROVE  LET all  == Depth(s, Cardinality(Prices))
                 open == {m \in Allocated : order[m].side = s /\ IsActive(order[m])}
             IN  /\ SumFunction([i \in DOMAIN all |-> all[i].order_cnt]) = Cardinality(open)
                 /\ SumFunction([i \in DOMAIN all |-> all[i].qty]) % QtyMod
                      = OpenIn(open) % QtyMod
                 /\ \A i, j \in DOMAIN all : i < j => Better(s, all[i].price, all[j].price)
                 /\ all # <<>> => all[1].price = Best(s) /\ all[1].qty = BestQty(s)
  <2>. DEFINE held == Cardinality(DOMAIN book[s])
              all  == Depth(s, Cardinality(Prices))
              S    == 1 .. held
  <2>1. /\ held \in Nat /\ all = [i \in S |-> Entry(s, PriceAt(s, i))] /\ Len(all) = held
    BY <1>1, DepthIs
  <2>. HIDE DEF all
  <2>2. /\ DOMAIN all = S
        /\ \A i \in S : /\ all[i].price = PriceAt(s, i)
                        /\ all[i].qty = book[s][PriceAt(s, i)].total_qty
                        /\ all[i].order_cnt = book[s][PriceAt(s, i)].order_count
    BY <2>1 DEF Entry
  <2>3. SumFunction([i \in DOMAIN all |-> all[i].order_cnt]) = Cardinality(OpenOn(s))
    <3>1. [i \in DOMAIN all |-> all[i].order_cnt]
            = [i \in S |-> book[s][PriceAt(s, i)].order_count]
      BY <2>2
    <3>. QED BY <3>1, <1>1, DepthCounts
  <2>4. SumFunction([i \in DOMAIN all |-> all[i].qty]) % QtyMod = OpenIn(OpenOn(s)) % QtyMod
    <3>1. [i \in DOMAIN all |-> all[i].qty] = [i \in S |-> book[s][PriceAt(s, i)].total_qty]
      BY <2>2
    <3>. QED BY <3>1, <1>1, DepthTotals
  <2>5. \A i, j \in DOMAIN all : i < j => Better(s, all[i].price, all[j].price)
    <3>1. \A i, j \in S : i < j => Better(s, PriceAt(s, i), PriceAt(s, j))
      BY <1>1, PricesAreOrdered
    <3>. HIDE DEF S
    <3>. QED BY <2>2, <3>1
  <2>6. all # <<>> => all[1].price = Best(s) /\ all[1].qty = BestQty(s)
    <3>. SUFFICES ASSUME all # <<>>
         PROVE  all[1].price = Best(s) /\ all[1].qty = BestQty(s)
      OBVIOUS
    <3>1. held > 0
      BY <2>1
    <3>2. 1 \in S /\ DOMAIN book[s] # {} /\ PriceAt(s, 1) = BestPrice(book, s)
      BY <1>1, <2>1, <3>1, FS_EmptySet, PricesAreOrdered
    <3>. QED BY <2>2, <3>2 DEF Best, BestQty, HasLevels
  <2>. QED
    BY <2>1, <2>3, <2>4, <2>5, <2>6 DEF OpenOn, all
<1>2. ASSUME IInv
      PROVE  (HasLevels("BID") /\ HasLevels("ASK")) <=> Spread > 0
  <2>1. \A s \in Side : HasLevels(s) =>
          BestPrice(book, s) \in DOMAIN book[s] /\ BestPrice(book, s) \in Int
    BY <1>2, BestPriceIsBest, OrderBookAssumption DEF IInv, TypeOK, HasLevels
  <2>2. HasLevels("BID") /\ HasLevels("ASK") => Spread > 0
    BY <1>2, <2>1 DEF IInv, NoCross, Spread, Best, Side
  <2>. QED BY <2>2 DEF Spread
<1>3. IInv /\ Totals => QueriesShowTheBook
  BY <1>1, <1>2, OrdersAreCounted DEF QueriesShowTheBook
<1>. QED
  BY <1>3, BookAlways, PTL

-----------------------------------------------------------------------------
(* A FOK order that is turned away.                                        *)

\* What the pool can hold of any quantity in use does not wrap.
NothingWraps == \A quantity \in Quantities : quantity * Capacity < QtyMod

\* Every order asks for a quantity that a caller gave.
AsAsked == \A m \in Slot : order[m].id # 0 => order[m].quantity \in Quantities

LEMMA InitAsAsked == Init => AsAsked
  BY DEF Init, AsAsked, DefaultOrder

LEMMA OnlyAtAsAsked ==
  ASSUME AsAsked, NEW m, OnlyAt(m), order'[m].id # 0 => order'[m].quantity \in Quantities
  PROVE  AsAsked'
  BY DEF AsAsked, OnlyAt

\* A trade changes nobody's quantity.
LEMMA TradeKeepsQuantity ==
  ASSUME IInv, IInv', Trade
  PROVE  /\ order'[taker].quantity = order[taker].quantity
         /\ order'[Maker].id # 0 => order'[Maker].quantity = order[Maker].quantity
<1>1. pc = "matching" /\ CanMatch
  BY DEF Trade
<1>2. /\ taker \in Slot /\ Maker \in Slot /\ Taken \in Nat
      /\ order[taker] \in Order /\ order[Maker] \in Order
      /\ order[taker].filled_qty + Taken <= order[taker].quantity
      /\ order[Maker].filled_qty + Taken <= order[Maker].quantity
  BY <1>1, TradersAre DEF IInv, TypeOK
<1>3. /\ order'[taker] = Executed(order[taker], Taken)
      /\ order'[Maker] = DefaultOrder \/ order'[Maker] = Executed(order[Maker], Taken)
  BY TradeIs
<1>4. order'[taker].quantity = order[taker].quantity
  BY <1>2, <1>3, ExecutedIs
<1>5. CASE order'[Maker] = DefaultOrder
  BY <1>4, <1>5 DEF DefaultOrder
<1>6. CASE order'[Maker] = Executed(order[Maker], Taken)
  <2>1. order'[Maker].quantity = order[Maker].quantity
    BY <1>2, <1>6, ExecutedIs
  <2>. QED BY <2>1, <1>4
<1>. QED
  BY <1>3, <1>5, <1>6

LEMMA StepAsAsked == IInv /\ IInv' /\ AsAsked /\ [Next]_vars => AsAsked'
<1>. SUFFICES ASSUME IInv, IInv', AsAsked, [Next]_vars
     PROVE  AsAsked'
  OBVIOUS
<1>1. CASE order' = order
  BY <1>1 DEF AsAsked
<1>2. ASSUME NEW side \in Side, NEW type \in OrderType, NEW price \in Prices,
             NEW quantity \in Quantities, AddOrder(side, type, price, quantity)
      PROVE  AsAsked'
  <2>1. OnlyAt(taker') /\ order'[taker'].quantity = quantity
    BY <1>2, AddIs
  <2>. QED BY <2>1, OnlyAtAsAsked
<1>3. CASE RejectFok \/ CancelResidual
  <2>1. taker \in Slot /\ order' = [order EXCEPT ![taker] = DefaultOrder]
    BY <1>3 DEF RejectFok, CancelResidual, IInv, TypeOK
  <2>. QED BY <2>1, DropIs, OnlyAtAsAsked
<1>4. CASE RestResidual
  <2>1. /\ OnlyAt(taker) /\ taker \in Slot /\ order[taker].id # 0
        /\ order'[taker].quantity = order[taker].quantity
    BY <1>4, RestIs DEF Stays, OnlyAt
  <2>2. order[taker].quantity \in Quantities
    BY <2>1 DEF AsAsked
  <2>. QED BY <2>1, <2>2, OnlyAtAsAsked
<1>5. CASE Trade
  <2>1. /\ taker \in Slot /\ Maker \in Slot
        /\ order[taker].id # 0 /\ order[Maker].id # 0
        /\ \A x \in Slot : x # taker /\ x # Maker => order'[x] = order[x]
    BY <1>5, TradeFills
  <2>2. /\ order'[taker].quantity = order[taker].quantity
        /\ order'[Maker].id # 0 => order'[Maker].quantity = order[Maker].quantity
    BY <1>5, TradeKeepsQuantity
  <2>. QED BY <2>1, <2>2 DEF AsAsked
<1>6. ASSUME NEW id, CancelOrder(id)
      PROVE  AsAsked'
  BY <1>6, CancelIs, OnlyAtAsAsked
<1>7. ASSUME NEW id, NEW quantity \in Quantities, AmendUp(id, quantity) \/ AmendDown(id, quantity)
      PROVE  AsAsked'
  <2>. DEFINE m == order_map[id]
  <2>1. Stays(m) /\ order'[m].quantity = quantity
    BY <1>7, AmendIs
  <2>. HIDE DEF m
  <2>. QED BY <2>1, OnlyAtAsAsked DEF Stays
<1>8. CASE StartMatching \/ FinishFilled
  BY <1>1, <1>8 DEF StartMatching, FinishFilled
<1>9. ASSUME NEW type, NEW price, NEW quantity, RefuseAdd(type, price, quantity)
      PROVE  AsAsked'
  BY <1>1, <1>9 DEF RefuseAdd, vars
<1>10. ASSUME NEW id, NEW quantity, RefuseChange(id, quantity)
       PROVE  AsAsked'
  BY <1>1, <1>10 DEF RefuseChange, vars
<1>11. CASE UNCHANGED vars
  BY <1>1, <1>11 DEF vars
<1>. QED
  BY <1>2, <1>3, <1>4, <1>5, <1>6, <1>7, <1>8, <1>9, <1>10, <1>11 DEF Next, Matching, Call

\* The orders within reach of a taker have less than QtyMod, all together.
LEMMA ReachDoesNotWrap ==
  ASSUME NothingWraps, IInv, AsAsked, taker \in Slot, Reach(order, taker) # {}
  PROVE  SumFunctionOnSet(Open(order), Reach(order, taker)) < QtyMod
<1>. DEFINE f == Open(order)
            R == Reach(order, taker)
<1>1. PICK a \in R : TRUE
  OBVIOUS
<1>2. \A x \in R : x \in Slot /\ f[x] \in Nat /\ order[x].quantity \in Quantities
                   /\ order[x].quantity \in Nat /\ f[x] <= order[x].quantity
  <2>1. ASSUME NEW x \in R
        PROVE  x \in Slot /\ f[x] \in Nat /\ order[x].quantity \in Quantities
               /\ order[x].quantity \in Nat /\ f[x] <= order[x].quantity
    <3>1. x \in Slot /\ order[x] \in Order /\ f[x] \in Nat
      BY ReachIsQueued
    <3>2. order[x].quantity \in Quantities
      BY <3>1 DEF Reach, AsAsked
    <3>3. f[x] = order[x].quantity - order[x].filled_qty
      BY <3>1, OpenIs DEF Remaining, IInv, TypeOK
    <3>4. order[x].quantity \in Nat /\ order[x].filled_qty \in Nat
      BY <3>1, OrderBookAssumption DEF Order, Quantity
    <3>. HIDE DEF f
    <3>. QED BY <3>1, <3>2, <3>3, <3>4
  <2>. HIDE DEF f, R
  <2>. QED BY <2>1
<1>3. PICK k \in Quantities : \A q \in Quantities : q <= k
  <2>1. Quantities # {}
    BY <1>1, <1>2
  <2>2. Quantities \subseteq Int /\ IsFiniteSet(Quantities)
    <3>1. Quantities \subseteq 0 .. QtyMod - 1 /\ QtyMod - 1 \in Int
      BY OrderBookAssumption
    <3>2. IsFiniteSet(0 .. QtyMod - 1)
      BY <3>1, FS_Interval
    <3>3. Quantities \subseteq Int
      BY <3>1
    <3>. QED BY <3>1, <3>2, <3>3, FS_Subset
  <2>. QED BY <2>1, <2>2, FiniteHasEnds
<1>4. k \in Nat /\ k * Capacity < QtyMod
  BY OrderBookAssumption DEF NothingWraps
<1>5. IsFiniteSet(R) /\ Cardinality(R) \in Nat /\ Cardinality(R) <= Capacity
  <2>1. Cardinality(Slot) = Capacity
    <3>1. Capacity \in Nat \ {0} /\ 0 \in Int /\ Capacity - 1 \in Int
      BY OrderBookAssumption
    <3>2. Cardinality(0 .. Capacity - 1) = IF 0 > Capacity - 1 THEN 0 ELSE Capacity - 1 - 0 + 1
      BY <3>1, FS_Interval
    <3>. QED BY <3>1, <3>2 DEF Slot
  <2>2. R \subseteq Slot
    BY <1>2
  <2>. HIDE DEF R
  <2>3. Cardinality(R) <= Cardinality(Slot)
    BY <2>2, SlotIsFinite, FS_Subset
  <2>. QED BY <2>1, <2>2, <2>3, SlotIsFinite, FS_CardinalityType
<1>6. \A x \in R : f[x] \in Nat /\ f[x] <= k
  <2>. HIDE DEF f, R
  <2>1. ASSUME NEW x \in R
        PROVE  f[x] \in Nat /\ f[x] <= k
    <3>1. /\ f[x] \in Nat /\ order[x].quantity \in Quantities
          /\ order[x].quantity \in Nat /\ f[x] <= order[x].quantity
      BY <1>2
    <3>2. order[x].quantity <= k
      BY <3>1, <1>3
    <3>. QED BY <3>1, <3>2, <1>4
  <2>. QED BY <2>1
<1>. HIDE DEF f, R
<1>7. SumFunctionOnSet(f, R) <= k * Cardinality(R) /\ SumFunctionOnSet(f, R) \in Nat
  BY <1>4, <1>5, <1>6, SumIsAtMost, SumOfNaturals
<1>8. k * Cardinality(R) <= k * Capacity
  <2>1. Capacity \in Nat
    BY OrderBookAssumption
  <2>2. \A a1, b1, c1 \in Nat : b1 <= c1 => a1 * b1 <= a1 * c1
    OBVIOUS
  <2>. QED BY <2>1, <2>2, <1>4, <1>5
<1>9. SumFunctionOnSet(f, R) < QtyMod
  <2>. DEFINE u == k * Cardinality(R)
              v == k * Capacity
  <2>1. u \in Int /\ v \in Int
    BY <1>4, <1>5, OrderBookAssumption
  <2>. HIDE DEF u, v
  <2>2. SumFunctionOnSet(f, R) <= u /\ u <= v /\ v < QtyMod
    BY <1>4, <1>7, <1>8 DEF u, v
  <2>. QED BY <2>1, <2>2, <1>7, OrderBookAssumption
<1>. QED
  BY <1>9 DEF f, R

\* Where it does not wrap, the check fails only if the orders within reach lack
\* what is asked for: the levels up to the worst within the price of the order
\* hold all of them.
LEMMA UnfillableIsShort ==
  ASSUME IInv, Totals, pc = "match_order", ~FokFillable(order[taker]),
         SumFunctionOnSet(Open(order), Reach(order, taker)) < QtyMod
  PROVE  SumFunctionOnSet(Open(order), Reach(order, taker)) < order[taker].quantity
<1>. DEFINE o == order[taker]
            f == Open(order)
            R == Reach(order, taker)
            D == {q \in DOMAIN book[FromSide] : Crosses(o, q)}
            t == TotalsOf(D)
            Q == Queues(D)
            W == QueuedIn(D)
<1>1. taker \in Slot /\ o.quantity \in Nat /\ o.quantity > 0
  <2>1. taker \in Slot /\ o \in Order /\ o.filled_qty < o.quantity
    BY DEF IInv, TypeOK, TakerIsSound
  <2>. QED BY <2>1, OrderBookAssumption DEF Order, Quantity
<1>2. /\ Groups(f, D, Q, W) /\ W \subseteq R
      /\ \A q \in D : t[q] = SumFunctionOnSet(f, Q[q]) % QtyMod
  <2>1. D \subseteq DOMAIN book[FromSide] /\ \A q \in D : Crosses(o, q)
    OBVIOUS
  <2>. HIDE DEF D
  <2>. QED BY <1>1, <2>1, LevelsAreGroups
<1>3. \A x \in R : f[x] \in Nat /\ order[x].price \in D /\ x \in QueuedAt(FromSide, order[x].price)
  <2>1. ASSUME NEW x \in R
        PROVE  f[x] \in Nat /\ order[x].price \in D /\ x \in QueuedAt(FromSide, order[x].price)
    <3>1. f[x] \in Nat /\ In(book, x, FromSide, order[x].price)
      BY ReachIsQueued DEF Reach, FromSide
    <3>2. Crosses(o, order[x].price)
      BY DEF Reach
    <3>. HIDE DEF f
    <3>. QED BY <3>1, <3>2 DEF In, QueuedAt
  <2>. HIDE DEF f, R, D
  <2>. QED BY <2>1
<1>4. R \subseteq W
  <2>. HIDE DEF R, D, f
  <2>. QED BY <1>3 DEF QueuedIn
<1>5. CASE R = {}
  <2>. HIDE DEF f, R, o
  <2>1. SumFunctionOnSet(f, R) = 0
    BY <1>5, SumOfNone
  <2>. QED BY <2>1, <1>1 DEF f, R, o
<1>6. CASE R # {}
  <2>1. SumFunctionOnSet(f, R) < QtyMod
    OBVIOUS
  <2>2. R = W
    BY <1>2, <1>4
  <2>3. D # {}
    BY <1>3, <1>6
  <2>4. PICK p \in D : LevelsUpTo(FromSide, p) = D
    <3>. DEFINE w == FromSide
                v == o.side
                c == o.price
    <3>1. /\ w \in Side /\ c \in Int /\ DOMAIN book[w] \subseteq Prices
          /\ (v = "BID" /\ w = "ASK") \/ (v = "ASK" /\ w = "BID")
      BY <1>1 DEF IInv, TypeOK, Order, FromSide, Opposite, Side
    <3>2. D \subseteq Int
      <4>1. \A x \in Prices : x \in Int
        BY OrderBookAssumption
      <4>. QED BY <3>1, <4>1
    <3>3. IsFiniteSet(D)
      BY <1>2 DEF Groups
    <3>4. PICK p \in D : \A q \in D : ~Better(w, p, q)
      <4>. HIDE DEF D, w, v, c
      <4>1. (\E x \in D : \A y \in D : x <= y) /\ (\E x \in D : \A y \in D : y <= x)
        BY <2>3, <3>2, <3>3, FiniteHasEnds
      <4>2. \A x, y \in D : (w = "BID" /\ x <= y) \/ (w = "ASK" /\ y <= x) => ~Better(w, x, y)
        BY <3>2 DEF Better
      <4>3. CASE w = "BID"
        <5>1. PICK x \in D : \A y \in D : x <= y
          BY <4>1
        <5>. QED BY <5>1, <4>2, <4>3
      <4>4. CASE w = "ASK"
        <5>1. PICK x \in D : \A y \in D : y <= x
          BY <4>1
        <5>. QED BY <5>1, <4>2, <4>4
      <4>. QED BY <4>3, <4>4, <3>1
    <3>5. LevelsUpTo(FromSide, p) \subseteq D
      BY <1>1, <3>4, UpToIsWithin
    <3>6. D \subseteq LevelsUpTo(FromSide, p)
      <4>1. D \subseteq DOMAIN book[FromSide] /\ \A q \in D : ~Better(FromSide, p, q)
        BY <3>4
      <4>. HIDE DEF D
      <4>. QED BY <4>1 DEF LevelsUpTo
    <3>. QED BY <3>4, <3>5, <3>6
  <2>5. ~(SumFunction(t) % QtyMod >= o.quantity)
    <3>1. ~(SumFunction([q \in LevelsUpTo(FromSide, p) |-> book[FromSide][q].total_qty]) % QtyMod
            >= o.quantity)
      <4>1. p \in DOMAIN book[FromSide] /\ Crosses(o, p)
        OBVIOUS
      <4>. HIDE DEF D, o
      <4>. QED BY <4>1 DEF FokFillable, FromSide, o
    <3>. HIDE DEF D
    <3>. QED BY <3>1, <2>4 DEF TotalsOf
  <2>6. SumFunction(t) = SumFunctionOnSet(t, D)
    BY DEF SumFunction, TotalsOf
  <2>7. IsFiniteSet(R) /\ SumFunctionOnSet(f, R) \in Nat
    BY <1>3, SlotIsFinite, SumOfNaturals DEF Reach
  <2>. HIDE DEF f, R, D, t, Q, W, o
  <2>8. \A q \in D : t[q] = SumFunctionOnSet(f, Q[q])
    <3>1. ASSUME NEW q \in D
          PROVE  t[q] = SumFunctionOnSet(f, Q[q])
      <4>1. Q[q] \subseteq R
        BY <1>2 DEF Groups
      <4>2. SumFunctionOnSet(f, Q[q]) <= SumFunctionOnSet(f, R) /\ SumFunctionOnSet(f, Q[q]) \in Nat
        <5>1. IsFiniteSet(Q[q]) /\ \A x \in Q[q] : f[x] \in Nat
          BY <1>2 DEF Groups
        <5>2. SumFunctionOnSet(f, Q[q]) <= SumFunctionOnSet(f, R)
          BY <4>1, <1>3, <2>7, SumOfNaturals
        <5>. QED BY <5>1, <5>2, SumOfNaturals
      <4>3. SumFunctionOnSet(f, Q[q]) \in 0 .. QtyMod - 1
        BY <4>2, <2>1, <2>7, OrderBookAssumption
      <4>4. SumFunctionOnSet(f, Q[q]) % QtyMod = SumFunctionOnSet(f, Q[q])
        BY <4>3, OrderBookAssumption, ModOfSmall
      <4>. QED BY <4>4, <1>2
    <3>. QED BY <3>1
  <2>9. SumFunctionOnSet(t, D) = SumFunctionOnSet(f, R)
    BY <1>2, <2>2, <2>8, GroupsAddUp
  <2>10. SumFunctionOnSet(f, R) % QtyMod = SumFunctionOnSet(f, R)
    <3>1. SumFunctionOnSet(f, R) \in 0 .. QtyMod - 1
      BY <2>1, <2>7, OrderBookAssumption
    <3>. QED BY <3>1, OrderBookAssumption, ModOfSmall
  <2>11. SumFunctionOnSet(f, R) < o.quantity
    BY <1>1, <2>5, <2>6, <2>7, <2>9, <2>10
  <2>. QED BY <2>11 DEF f, R, o
<1>. QED
  BY <1>5, <1>6

LEMMA AsAskedAlways == Spec => []AsAsked
  BY InitAsAsked, StepAsAsked, Invariance, PTL DEF Spec

\* When a FOK order is turned away, Liquidity is what the orders within its reach
\* have, and is less than it asks for or more than a Quantity can count.
LEMMA FokIsShort ==
  ASSUME IInv, Totals, [Next]_vars, pc = "match_order", pc' = "idle"
  PROVE  /\ Liquidity(order[taker]) = SumFunctionOnSet(Open(order), Reach(order, taker))
         /\ taker \in Slot
         /\ Liquidity(order[taker]) < order[taker].quantity \/ ~(Liquidity(order[taker]) < QtyMod)
<1>1. RejectFok
  <2>1. ~StartMatching /\ ~Trade /\ ~FinishFilled /\ ~RestResidual /\ ~CancelResidual /\ ~Call
    BY DEF StartMatching, Trade, FinishFilled, RestResidual, CancelResidual, Call, AddOrder,
           RefuseAdd, CancelOrder, AmendUp, AmendDown, RefuseChange
  <2>. QED BY <2>1 DEF Next, Matching, vars
<1>. DEFINE M == {m \in Resting(FromSide) : Crosses(order[taker], order[m].price)}
<1>2. taker \in Slot /\ FromSide \in Side /\ order \in [Slot -> Order]
  BY DEF IInv, TypeOK, FromSide, Opposite, Side
<1>3. M \subseteq Reach(order, taker)
  <2>1. ASSUME NEW m \in M
        PROVE  m \in Reach(order, taker)
    <3>1. PICK p : In(book, m, FromSide, p)
      BY DEF Resting, QueuedAt, In
    <3>2. order[m].price = p
      BY <1>2, <3>1, QueuedIsOther DEF IInv, Fits
    <3>. QED BY <1>2, <3>1, <3>2, QueuedWithinIsReach DEF FromSide
  <2>. QED BY <2>1
<1>4. Reach(order, taker) \subseteq M
  <2>1. ASSUME NEW m \in Reach(order, taker)
        PROVE  m \in M
    <3>1. In(book, m, FromSide, order[m].price) /\ Crosses(order[taker], order[m].price)
      BY ReachIsQueued DEF Reach, FromSide
    <3>. QED BY <3>1 DEF In, Resting, QueuedAt
  <2>. QED BY <2>1
<1>5. M = Reach(order, taker)
  BY <1>3, <1>4
<1>6. Liquidity(order[taker]) = OpenIn(M)
  BY DEF Liquidity, FromSide
<1>7. OpenIn(M) = SumFunctionOnSet(Open(order), M)
  <2>1. M \subseteq Slot
    BY <1>5 DEF Reach
  <2>. HIDE DEF M
  <2>. QED BY <2>1, <1>2, OpenInIs
<1>8. Liquidity(order[taker]) = SumFunctionOnSet(Open(order), Reach(order, taker))
  BY <1>5, <1>6, <1>7
<1>9. ASSUME Liquidity(order[taker]) < QtyMod
      PROVE  Liquidity(order[taker]) < order[taker].quantity
  BY <1>1, <1>8, <1>9, UnfillableIsShort DEF RejectFok
<1>. QED
  BY <1>2, <1>8, <1>9

\* A FOK order is turned away only if what rests within its price is less than
\* it asks for, or more than a Quantity can count.
THEOREM FokTurnedAway ==
  Spec => [][ (pc = "match_order" /\ pc' = "idle") =>
                \/ Liquidity(order[taker]) < order[taker].quantity
                \/ Liquidity(order[taker]) >= QtyMod ]_vars
<1>. DEFINE Justified == (pc = "match_order" /\ pc' = "idle") =>
              \/ Liquidity(order[taker]) < order[taker].quantity
              \/ Liquidity(order[taker]) >= QtyMod
<1>1. ASSUME IInv, Totals, [Next]_vars, pc = "match_order", pc' = "idle"
      PROVE  \/ Liquidity(order[taker]) < order[taker].quantity
             \/ Liquidity(order[taker]) >= QtyMod
  <2>1. /\ Liquidity(order[taker]) = SumFunctionOnSet(Open(order), Reach(order, taker))
        /\ taker \in Slot
        /\ Liquidity(order[taker]) < order[taker].quantity \/ ~(Liquidity(order[taker]) < QtyMod)
    BY <1>1, FokIsShort
  <2>2. SumFunctionOnSet(Open(order), Reach(order, taker)) \in Nat
    BY <1>1, ReachIsQueued, SlotIsFinite, SumOfNaturals DEF Reach
  <2>. QED BY <2>1, <2>2, OrderBookAssumption
<1>2. IInv /\ Totals /\ [Next]_vars => Justified
  BY <1>1
<1>. QED
  BY <1>2, Invariance, TotalsAlways, PTL DEF Spec

\* The check never turns a FOK order away in error if what the pool can hold
\* does not wrap; where it may, it does, and a run shows it.
THEOREM FokJudgedRightly ==
  ASSUME NothingWraps
  PROVE  Spec => FokRejectedOnlyIfShort
<1>. DEFINE Short == (pc = "match_order" /\ pc' = "idle") =>
                        Liquidity(order[taker]) < order[taker].quantity
<1>1. ASSUME IInv, Totals, AsAsked, [Next]_vars, pc = "match_order", pc' = "idle"
      PROVE  Liquidity(order[taker]) < order[taker].quantity
  <2>1. /\ Liquidity(order[taker]) = SumFunctionOnSet(Open(order), Reach(order, taker))
        /\ taker \in Slot
        /\ Liquidity(order[taker]) < order[taker].quantity \/ ~(Liquidity(order[taker]) < QtyMod)
    BY <1>1, FokIsShort
  <2>2. SumFunctionOnSet(Open(order), Reach(order, taker)) < QtyMod
    <3>1. CASE Reach(order, taker) = {}
      BY <3>1, SumOfNone, OrderBookAssumption
    <3>2. CASE Reach(order, taker) # {}
      BY <1>1, <2>1, <3>2, ReachDoesNotWrap
    <3>. QED BY <3>1, <3>2
  <2>. QED BY <2>1, <2>2
<1>2. IInv /\ Totals /\ AsAsked /\ [Next]_vars => Short
  BY <1>1
<1>. QED
  BY <1>2, Invariance, TotalsAlways, AsAskedAlways, PTL DEF Spec, FokRejectedOnlyIfShort

-----------------------------------------------------------------------------
(* The promise: the safety part of module Clob, step by step.              *)

\* The open orders except tk, and what Clob sees of the orders in S.
Live(ord, tk) == {m \in Slot : m # tk /\ ord[m].id # 0 /\ IsActive(ord[m])}
Show(ord, S)  == {Shown(ord[m]) : m \in S}

\* What the queues link to are the open orders except the taker.
BookIsLive == RestingOrders = Show(order, Live(order, taker))

LEMMA BookedIsLive == IInv => Booked = Live(order, taker)
<1>. SUFFICES ASSUME IInv PROVE Booked = Live(order, taker)
  OBVIOUS
<1>1. ASSUME NEW m \in Booked
      PROVE  m \in Live(order, taker)
  <2>1. m \in Slot /\ m # taker /\ order[m] \in Order /\ In(book, m, order[m].side, order[m].price)
    BY BookedIsIn
  <2>2. order[m].side \in Side
    BY <2>1 DEF Order
  <2>3. Fits(order[m], order[m].side, order[m].price)
    BY <2>1, <2>2, QueuedIsOther DEF IInv
  <2>. QED BY <2>1, <2>3 DEF Live, Fits
<1>2. ASSUME NEW m \in Live(order, taker)
      PROVE  m \in Booked
  <2>1. m \in Allocated /\ m # taker /\ IsActive(order[m]) /\ order[m] \in Order
    BY DEF Live, Allocated, IInv, TypeOK
  <2>2. In(book, m, order[m].side, order[m].price) /\ order[m].side \in Side
    BY <2>1 DEF IInv, BookIsSound, Order
  <2>. QED BY <2>2 DEF In, Booked, Resting, QueuedAt
<1>. QED
  BY <1>1, <1>2

LEMMA BookShows == IInv => BookIsLive
  BY BookedIsLive DEF BookIsLive, RestingOrders, Show

LEMMA BookShowsNext == IInv' => BookIsLive'
  BY BookShows, PTL

\* No two live orders look the same.
LEMMA ShownApart ==
  ASSUME IInv, NEW m \in Live(order, taker), NEW n \in Live(order, taker),
         Shown(order[m]) = Shown(order[n])
  PROVE  m = n
<1>1. order[m].id = order[n].id
  BY DEF Shown
<1>2. m \in Slot /\ n \in Slot /\ order[m].id # 0
  BY DEF Live
<1>. QED
  BY <1>1, <1>2, IdsAreUnique

\* The resting orders of Clob in a step that leaves them alone, ...
LEMMA NothingShows ==
  ASSUME IInv, IInv', Live(order', taker') = Live(order, taker),
         \A x \in Live(order, taker) : order'[x] = order[x]
  PROVE  RestingOrders' = RestingOrders
<1>. DEFINE L == Live(order, taker)
<1>1. RestingOrders = Show(order, L)
  BY BookShows DEF BookIsLive
<1>2. RestingOrders' = Show(order', L)
  <2>1. RestingOrders' = Show(order', Live(order', taker'))
    BY BookShowsNext DEF BookIsLive
  <2>. QED BY <2>1
<1>. HIDE DEF L
<1>3. Show(order', L) = Show(order, L)
  BY DEF Show, L
<1>. QED
  BY <1>1, <1>2, <1>3

\* ... takes one out, ...
LEMMA OneGoes ==
  ASSUME IInv, IInv', NEW m \in Live(order, taker),
         Live(order', taker') = Live(order, taker) \ {m},
         \A x \in Live(order, taker) : x # m => order'[x] = order[x]
  PROVE  RestingOrders' = RestingOrders \ {Shown(order[m])}
<1>. DEFINE L == Live(order, taker)
            K == L \ {m}
<1>1. RestingOrders = Show(order, L)
  BY BookShows DEF BookIsLive
<1>2. RestingOrders' = Show(order', K)
  <2>1. RestingOrders' = Show(order', Live(order', taker'))
    BY BookShowsNext DEF BookIsLive
  <2>. QED BY <2>1
<1>3. \A x \in L : Shown(order[x]) = Shown(order[m]) => x = m
  BY ShownApart
<1>4. \A x \in K : order'[x] = order[x]
  OBVIOUS
<1>5. \A x : x \in K <=> x \in L /\ x # m
  OBVIOUS
<1>6. m \in L
  OBVIOUS
<1>. HIDE DEF L, K
<1>7. Show(order', K) = Show(order, K)
  BY <1>4 DEF Show
<1>8. Show(order, K) = Show(order, L) \ {Shown(order[m])}
  BY <1>3, <1>5, <1>6 DEF Show
<1>. QED
  BY <1>1, <1>2, <1>7, <1>8

\* ... changes one, ...
LEMMA OneChanges ==
  ASSUME IInv, IInv', NEW m \in Live(order, taker),
         Live(order', taker') = Live(order, taker),
         \A x \in Live(order, taker) : x # m => order'[x] = order[x]
  PROVE  RestingOrders' = (RestingOrders \ {Shown(order[m])}) \cup {Shown(order'[m])}
<1>. DEFINE L == Live(order, taker)
            K == L \ {m}
<1>1. RestingOrders = Show(order, L)
  BY BookShows DEF BookIsLive
<1>2. RestingOrders' = Show(order', L)
  <2>1. RestingOrders' = Show(order', Live(order', taker'))
    BY BookShowsNext DEF BookIsLive
  <2>. QED BY <2>1
<1>3. \A x \in L : Shown(order[x]) = Shown(order[m]) => x = m
  BY ShownApart
<1>4. \A x \in K : order'[x] = order[x]
  OBVIOUS
<1>5. \A x : x \in K <=> x \in L /\ x # m
  OBVIOUS
<1>6. m \in L
  OBVIOUS
<1>. HIDE DEF L, K
<1>7. Show(order', K) = Show(order, K)
  BY <1>4 DEF Show
<1>8. Show(order, K) = Show(order, L) \ {Shown(order[m])}
  BY <1>3, <1>5, <1>6 DEF Show
<1>9. Show(order', L) = Show(order', K) \cup {Shown(order'[m])}
  BY <1>5, <1>6 DEF Show
<1>. QED
  BY <1>1, <1>2, <1>7, <1>8, <1>9

\* ... or brings one in.
LEMMA OneComes ==
  ASSUME IInv, IInv', NEW m, m \notin Live(order, taker),
         Live(order', taker') = Live(order, taker) \cup {m},
         \A x \in Live(order, taker) : order'[x] = order[x]
  PROVE  RestingOrders' = RestingOrders \cup {Shown(order'[m])}
<1>. DEFINE L == Live(order, taker)
            K == L \cup {m}
<1>1. RestingOrders = Show(order, L)
  BY BookShows DEF BookIsLive
<1>2. RestingOrders' = Show(order', K)
  <2>1. RestingOrders' = Show(order', Live(order', taker'))
    BY BookShowsNext DEF BookIsLive
  <2>. QED BY <2>1
<1>3. \A x \in L : order'[x] = order[x]
  OBVIOUS
<1>4. \A x : x \in K <=> x \in L \/ x = m
  OBVIOUS
<1>. HIDE DEF L, K
<1>5. Show(order', L) = Show(order, L)
  BY <1>3 DEF Show
<1>6. Show(order', K) = Show(order', L) \cup {Shown(order'[m])}
  BY <1>4 DEF Show
<1>. QED
  BY <1>1, <1>2, <1>5, <1>6

-----------------------------------------------------------------------------
(* Who the incoming order of Clob may trade with.                          *)

\* The live orders it faces, ...
Faced == {m \in Live(order, taker) : order[m].side = FromSide}

LEMMA FacingIs ==
  ASSUME IInv, taker \in Slot, NEW a
  PROVE  Promise!Facing(Arriving(order[taker], a)) = Show(order, Faced)
<1>. DEFINE o == Arriving(order[taker], a)
            L == Live(order, taker)
<1>1. RestingOrders = Show(order, L)
  BY BookShows DEF BookIsLive
<1>2. o.side = order[taker].side /\ order[taker].side \in Side
  BY DEF Arriving, IInv, TypeOK, Order
<1>3. \A x \in L : Shown(order[x]).side = order[x].side /\ order[x].side \in Side
  BY DEF Shown, Live, IInv, TypeOK, Order
<1>4. \A x \in L : order[x].side # o.side <=> order[x].side = FromSide
  <2>. HIDE DEF L, o
  <2>. QED BY <1>2, <1>3 DEF FromSide, Opposite, Side
<1>5. Promise!Facing(o) = {m \in RestingOrders : m.side # o.side}
  BY DEF Promise!Facing
<1>6. \A x : x \in Faced <=> x \in L /\ order[x].side = FromSide
  BY DEF Faced
<1>. HIDE DEF L, o
<1>7. {m \in RestingOrders : m.side # o.side} = Show(order, Faced)
  BY <1>1, <1>3, <1>4, <1>6 DEF Show
<1>. QED
  BY <1>5, <1>7 DEF o

\* ... and those within its price.
LEMMA WithinIsReach ==
  ASSUME IInv, taker \in Slot, NEW a
  PROVE  Promise!WithinPrice(Arriving(order[taker], a)) = Show(order, Reach(order, taker))
<1>. DEFINE o == Arriving(order[taker], a)
            R == Reach(order, taker)
<1>1. o.side = order[taker].side /\ o.price = order[taker].price
  BY DEF Arriving
<1>2. Promise!Facing(o) = Show(order, Faced)
  BY FacingIs
<1>3. Promise!WithinPrice(o) = {m \in Promise!Facing(o) : ~Better(o.side, m.price, o.price)}
  BY DEF Promise!WithinPrice, Promise!Better, Better
<1>4. \A x : Shown(order[x]).price = order[x].price
  BY DEF Shown
<1>5. \A x : x \in R <=> x \in Faced /\ ~Better(o.side, order[x].price, o.price)
  BY <1>1 DEF Faced, Live, Reach, FromSide, Crosses
<1>. HIDE DEF o, R
<1>6. {m \in Show(order, Faced) : ~Better(o.side, m.price, o.price)} = Show(order, R)
  BY <1>4, <1>5 DEF Show
<1>. QED
  BY <1>2, <1>3, <1>6 DEF o, R

LEMMA SameSum ==
  ASSUME NEW f
  PROVE  Promise!SumFunction(f) = SumFunctionOnSet(f, DOMAIN f)
<1>1. ASSUME NEW S
      PROVE  Promise!SumFunctionOnSet(f, S) = SumFunctionOnSet(f, S)
  BY DEF Promise!SumFunctionOnSet, SumFunctionOnSet, Promise!FoldFunctionOnSet, FoldFunctionOnSet,
         Promise!MapThenFoldSet, MapThenFoldSet
<1>. QED
  BY <1>1 DEF Promise!SumFunction

\* Clob adds up what Open adds up.
LEMMA LiquidityIs ==
  ASSUME IInv, taker \in Slot, NEW a
  PROVE  Promise!Liquidity(Arriving(order[taker], a))
           = SumFunctionOnSet(Open(order), Reach(order, taker))
<1>. DEFINE o == Arriving(order[taker], a)
            R == Reach(order, taker)
            f == Open(order)
            g == [x \in R |-> Shown(order[x])]
            S == Promise!WithinPrice(o)
            h == [m \in S |-> m.open]
<1>1. S = {g[x] : x \in R}
  <2>1. S = Show(order, R)
    BY WithinIsReach
  <2>2. Show(order, R) = {g[x] : x \in R}
    <3>. HIDE DEF R
    <3>. QED BY DEF Show
  <2>. QED BY <2>1, <2>2
<1>2. IsFiniteSet(R)
  BY SlotIsFinite DEF Reach
<1>3. \A x, y \in R : g[x] = g[y] => x = y
  <2>1. R \subseteq Live(order, taker)
    BY DEF Reach, Live
  <2>2. \A x \in R : g[x] = Shown(order[x])
    OBVIOUS
  <2>. HIDE DEF R, g
  <2>. QED BY <2>1, <2>2, ShownApart
<1>4. \A x \in R : f[x] \in Int /\ h[g[x]] = f[x]
  <2>1. ASSUME NEW x \in R
        PROVE  f[x] \in Int /\ h[g[x]] = f[x]
    <3>1. x \in Slot /\ order \in [Slot -> Order]
      BY DEF Reach, IInv, TypeOK
    <3>2. f[x] = Remaining(order[x]) /\ f[x] \in Int
      BY <3>1, OpenIs
    <3>3. g[x] = Shown(order[x]) /\ g[x] \in S
      BY <1>1
    <3>. HIDE DEF f, g, S
    <3>. QED BY <3>2, <3>3 DEF Shown
  <2>. HIDE DEF f, g, h, R
  <2>. QED BY <2>1
<1>5. Promise!Liquidity(o) = Promise!SumFunction(h)
  BY DEF Promise!Liquidity
<1>7. DOMAIN h = S
  OBVIOUS
<1>. HIDE DEF o, R, f, g, S, h
<1>8. SumFunctionOnSet(h, {g[x] : x \in R}) = SumFunctionOnSet(f, R)
  BY <1>2, <1>3, <1>4, SumOfImage
<1>9. Promise!SumFunction(h) = SumFunctionOnSet(h, S)
  BY <1>7, SameSum
<1>. QED
  BY <1>1, <1>5, <1>8, <1>9 DEF o, R, f

-----------------------------------------------------------------------------
(* The actions of the book as actions of Clob.                             *)

LEMMA Idles ==
  ASSUME IInv, pc = "idle"
  PROVE  taker = Null /\ IncomingOrders = {}
  BY DEF IInv, TypeOK, IncomingOrders

LEMMA TakerIs ==
  ASSUME IInv, pc # "idle"
  PROVE  /\ taker \in Slot /\ taker # Null /\ order[taker] \in Order /\ order[taker].id # 0
         /\ order[taker].quantity \in Nat /\ order[taker].filled_qty \in Nat
         /\ order[taker].filled_qty <= order[taker].quantity
         /\ IsActive(order[taker]) <=> order[taker].filled_qty < order[taker].quantity
         /\ Remaining(order[taker]) \in Nat
         /\ IncomingOrders = {Arriving(order[taker], pc = "matching")}
<1>1. taker \in Slot /\ order[taker] \in Order /\ order[taker].id # 0
  BY DEF IInv, TypeOK, TakerIsSound
<1>2. taker # Null
  BY <1>1, OrderBookAssumption DEF Slot, Null
<1>3. /\ order[taker].filled_qty <= order[taker].quantity
      /\ IsActive(order[taker]) <=> order[taker].filled_qty < order[taker].quantity
  BY DEF IInv, TakerIsSound
<1>4. order[taker].quantity \in Nat /\ order[taker].filled_qty \in Nat
  BY <1>1, OrderBookAssumption DEF Order, Quantity
<1>5. Remaining(order[taker]) \in Nat
  BY <1>3, <1>4 DEF Remaining
<1>. QED
  BY <1>1, <1>2, <1>3, <1>4, <1>5 DEF IncomingOrders

\* What changes in an order changes in what Clob sees of it.
LEMMA ArrivingOf ==
  ASSUME NEW x, NEW y, NEW a, y.id = x.id, y.side = x.side, y.type = x.type, y.price = x.price
  PROVE  [Arriving(x, a) EXCEPT !.open = Remaining(y)] = Arriving(y, a)
<1>. DEFINE D == {"id", "side", "type", "price", "open", "admitted"}
            f == [Arriving(x, a) EXCEPT !.open = Remaining(y)]
<1>1. DOMAIN Arriving(x, a) = D /\ DOMAIN Arriving(y, a) = D
  BY DEF Arriving
<1>2. DOMAIN f = D
  BY <1>1
<1>. QED
  BY <1>1, <1>2 DEF Arriving

LEMMA AdmittedIs ==
  ASSUME NEW x, NEW a, NEW b
  PROVE  [Arriving(x, a) EXCEPT !.admitted = b] = Arriving(x, b)
<1>. DEFINE D == {"id", "side", "type", "price", "open", "admitted"}
            e == [Arriving(x, a) EXCEPT !.admitted = b]
<1>1. DOMAIN Arriving(x, a) = D /\ DOMAIN Arriving(x, b) = D
  BY DEF Arriving
<1>2. DOMAIN e = D
  BY <1>1
<1>. QED
  BY <1>1, <1>2 DEF Arriving

LEMMA ShownOf ==
  ASSUME NEW x, NEW y, y.id = x.id, y.side = x.side, y.price = x.price
  PROVE  /\ y.rank = x.rank => [Shown(x) EXCEPT !.open = Remaining(y)] = Shown(y)
         /\ [Shown(x) EXCEPT !.open = Remaining(y), !.rank = y.rank] = Shown(y)
<1>. DEFINE D == {"id", "side", "price", "open", "rank"}
            e == [Shown(x) EXCEPT !.open = Remaining(y)]
            f == [Shown(x) EXCEPT !.open = Remaining(y), !.rank = y.rank]
<1>1. DOMAIN Shown(x) = D /\ DOMAIN Shown(y) = D
  BY DEF Shown
<1>2. DOMAIN e = D /\ DOMAIN f = D
  BY <1>1
<1>3. y.rank = x.rank => e = Shown(y)
  BY <1>1, <1>2 DEF Shown
<1>4. f = Shown(y)
  <2>1. f.open = Remaining(y) /\ f.rank = y.rank
    BY <1>1
  <2>2. f.id = x.id /\ f.side = x.side /\ f.price = x.price
    BY <1>1 DEF Shown
  <2>3. f = [d \in D |-> f[d]]
    BY <1>2
  <2>. HIDE DEF f
  <2>. QED BY <1>1, <2>1, <2>2, <2>3 DEF Shown
<1>. QED
  BY <1>3, <1>4

\* add_order up to match_order.
LEMMA AddSubmits ==
  ASSUME IInv, IInv', NEW side, NEW type, NEW price, NEW quantity \in Quantities,
         AddOrder(side, type, price, quantity)
  PROVE  Promise!Submit(side, type, price, quantity)
<1>1. /\ pc = "idle" /\ pc' = "match_order" /\ clock' = clock
      /\ quantity # 0 /\ (type = "LIMIT" => price > 0)
  BY DEF AddOrder, ValidInput
<1>2. taker = Null /\ IncomingOrders = {}
  BY <1>1, Idles
<1>3. /\ OnlyAt(taker') /\ order[taker'].id = 0 /\ id_counter' = id_counter + 1
      /\ order'[taker'].id = id_counter + 1
      /\ order'[taker'].quantity = quantity /\ order'[taker'].filled_qty = 0
  BY AddIs
<1>4. order'[taker'].side = side /\ order'[taker'].type = type /\ order'[taker'].price = price
  <2>1. \E id : order' = [order EXCEPT ![taker'] =
                  [id |-> id, price |-> price, quantity |-> quantity, filled_qty |-> 0,
                   side |-> side, type |-> type, status |-> "NEW", rank |-> 0]]
    BY DEF AddOrder
  <2>2. taker' \in Slot /\ order \in [Slot -> Order]
    BY <1>3 DEF OnlyAt
  <2>. QED BY <2>1, <2>2
<1>5. quantity \in Int /\ quantity > 0
  BY <1>1, OrderBookAssumption
<1>6. RestingOrders' = RestingOrders
  <2>1. taker' # Null
    BY <1>3, OrderBookAssumption DEF OnlyAt, Slot, Null
  <2>2. Live(order', taker') = Live(order, taker)
    BY <1>2, <1>3, OrderBookAssumption DEF Live, OnlyAt, Slot, Null
  <2>3. \A x \in Live(order, taker) : order'[x] = order[x]
    BY <1>3 DEF Live, OnlyAt
  <2>. QED BY <2>2, <2>3, NothingShows
<1>7. IncomingOrders' = {[id |-> id_counter + 1, side |-> side, type |-> type, price |-> price,
                          open |-> quantity, admitted |-> FALSE]}
  <2>1. taker' # Null
    BY <1>3, OrderBookAssumption DEF OnlyAt, Slot, Null
  <2>2. Remaining(order'[taker']) = quantity
    BY <1>3, <1>5 DEF Remaining
  <2>3. (pc' = "matching") = FALSE
    BY <1>1
  <2>. QED BY <2>1, <2>2, <2>3, <1>3, <1>4 DEF IncomingOrders, Arriving
<1>. QED
  BY <1>1, <1>2, <1>3, <1>5, <1>6, <1>7 DEF Promise!Submit

\* check_fok_fillable says no.
LEMMA RejectFokRejects ==
  ASSUME IInv, IInv', Totals, FreshTaker, RejectFok
  PROVE  \E o \in IncomingOrders : Promise!Reject(o)
<1>. DEFINE o == Arriving(order[taker], FALSE)
<1>1. /\ pc = "match_order" /\ order[taker].type = "FOK" /\ ~FokFillable(order[taker])
      /\ order' = [order EXCEPT ![taker] = DefaultOrder] /\ taker' = Null
      /\ id_counter' = id_counter /\ clock' = clock
  BY DEF RejectFok, Done
<1>2. /\ taker \in Slot /\ taker # Null /\ order[taker].quantity \in Nat
      /\ IncomingOrders = {Arriving(order[taker], pc = "matching")}
  BY <1>1, TakerIs
<1>3. IncomingOrders = {o}
  <2>1. (pc = "matching") = FALSE
    BY <1>1
  <2>. QED BY <1>2, <2>1
<1>4. Promise!Liquidity(o) < o.open \/ Promise!Liquidity(o) >= QtyMod
  <2>. DEFINE S == SumFunctionOnSet(Open(order), Reach(order, taker))
  <2>1. S < QtyMod => S < order[taker].quantity
    BY <1>1, UnfillableIsShort
  <2>2. o.open = order[taker].quantity
    BY <1>1, <1>2 DEF FreshTaker, Remaining, Arriving
  <2>3. S \in Nat
    BY ReachIsQueued, SlotIsFinite, SumOfNaturals DEF Reach
  <2>4. Promise!Liquidity(o) = S
    BY <1>2, LiquidityIs
  <2>. HIDE DEF S, o
  <2>. QED BY <2>1, <2>2, <2>3, <2>4, OrderBookAssumption
<1>5. RestingOrders' = RestingOrders
  <2>1. OnlyAt(taker) /\ order'[taker].id = 0
    BY <1>1, <1>2, DropIs
  <2>2. Live(order', taker') = Live(order, taker)
    BY <1>1, <2>1, OrderBookAssumption DEF Live, OnlyAt, Slot, Null
  <2>3. \A x \in Live(order, taker) : order'[x] = order[x]
    BY <2>1 DEF Live, OnlyAt
  <2>. QED BY <2>2, <2>3, NothingShows
<1>6. IncomingOrders' = {}
  BY <1>1 DEF IncomingOrders
<1>7. o.admitted = FALSE /\ o.type = "FOK"
  BY <1>1 DEF Arriving
<1>. HIDE DEF o
<1>8. Promise!Reject(o)
  BY <1>1, <1>4, <1>5, <1>6, <1>7 DEF Promise!Reject
<1>. QED
  BY <1>3, <1>8

\* check_fok_fillable says yes, or is not asked.
LEMMA StartAdmits ==
  ASSUME IInv, IInv', Totals, FreshTaker, StartMatching
  PROVE  \E o \in IncomingOrders : Promise!Admit(o)
<1>. DEFINE o == Arriving(order[taker], FALSE)
<1>1. /\ pc = "match_order" /\ pc' = "matching" /\ taker' = taker /\ order' = order
      /\ order[taker].type = "FOK" => FokFillable(order[taker])
      /\ id_counter' = id_counter /\ clock' = clock
  BY DEF StartMatching
<1>2. /\ taker \in Slot /\ taker # Null /\ order[taker].quantity \in Nat
      /\ IncomingOrders = {Arriving(order[taker], pc = "matching")}
  BY <1>1, TakerIs
<1>3. IncomingOrders = {o}
  <2>1. (pc = "matching") = FALSE
    BY <1>1
  <2>. QED BY <1>2, <2>1
<1>4. order[taker].type = "FOK" => Promise!Liquidity(o) >= o.open
  <2>. DEFINE S == SumFunctionOnSet(Open(order), Reach(order, taker))
  <2>1. SUFFICES ASSUME order[taker].type = "FOK"
        PROVE  Promise!Liquidity(o) >= o.open
    OBVIOUS
  <2>2. order[taker].quantity <= S
    BY <1>1, <2>1, FillableIsCovered
  <2>3. o.open = order[taker].quantity
    BY <1>1, <1>2 DEF FreshTaker, Remaining, Arriving
  <2>4. S \in Nat
    BY ReachIsQueued, SlotIsFinite, SumOfNaturals DEF Reach
  <2>5. Promise!Liquidity(o) = S
    BY <1>2, LiquidityIs
  <2>. HIDE DEF S, o
  <2>. QED BY <1>2, <2>2, <2>3, <2>4, <2>5
<1>5. RestingOrders' = RestingOrders
  BY <1>1, NothingShows
<1>6. IncomingOrders' = {Arriving(order[taker], TRUE)}
  <2>1. (pc' = "matching") = TRUE
    BY <1>1
  <2>. QED BY <1>1, <1>2, <2>1 DEF IncomingOrders
<1>7. o.admitted = FALSE /\ o.type = order[taker].type
  BY DEF Arriving
<1>9. Arriving(order[taker], TRUE) = [o EXCEPT !.admitted = TRUE]
  BY AdmittedIs, Zenon
<1>. HIDE DEF o
<1>8. Promise!Admit(o)
  BY <1>1, <1>4, <1>5, <1>6, <1>7, <1>9 DEF Promise!Admit
<1>. QED
  BY <1>3, <1>8

\* What a trade leaves as it is in the orders that trade.
LEMMA TradersKeep ==
  ASSUME IInv, IInv', Trade
  PROVE  /\ order'[taker].id = order[taker].id /\ order'[taker].side = order[taker].side
         /\ order'[taker].type = order[taker].type /\ order'[taker].price = order[taker].price
         /\ IF Taken = Remaining(order[Maker])
            THEN order'[Maker].id = 0
            ELSE /\ order'[Maker].id = order[Maker].id /\ order'[Maker].side = order[Maker].side
                 /\ order'[Maker].price = order[Maker].price /\ order'[Maker].rank = order[Maker].rank
                 /\ IsActive(order'[Maker])
<1>1. pc = "matching" /\ CanMatch
  BY DEF Trade
<1>2. /\ taker \in Slot /\ Maker \in Slot /\ Taken \in Nat
      /\ order[taker] \in Order /\ order[Maker] \in Order
      /\ order[taker].filled_qty + Taken <= order[taker].quantity
      /\ order[Maker].filled_qty + Taken <= order[Maker].quantity
  BY <1>1, TradersAre DEF IInv, TypeOK
<1>3. order'[taker] = Executed(order[taker], Taken)
  BY TradeIs
<1>4. /\ order'[taker].id = order[taker].id /\ order'[taker].side = order[taker].side
      /\ order'[taker].type = order[taker].type /\ order'[taker].price = order[taker].price
  BY <1>2, <1>3, ExecutedIs
<1>5. CASE Taken = Remaining(order[Maker])
  <2>1. order'[Maker] = DefaultOrder
    BY <1>5, TradeIs
  <2>. QED BY <1>4, <1>5, <2>1 DEF DefaultOrder
<1>6. CASE Taken # Remaining(order[Maker])
  <2>. DEFINE m == order[Maker]
  <2>1. order'[Maker] = Executed(m, Taken)
    BY <1>6, TradeIs
  <2>2. m.filled_qty + Taken < m.quantity
    BY <1>2, <1>6 DEF Remaining, Order, Quantity
  <2>. HIDE DEF m
  <2>3. /\ order'[Maker].id = m.id /\ order'[Maker].side = m.side
        /\ order'[Maker].price = m.price /\ order'[Maker].rank = m.rank
        /\ IsActive(order'[Maker])
    BY <1>2, <2>1, <2>2, ExecutedIs DEF m
  <2>. QED BY <1>4, <1>6, <2>3 DEF m
<1>. QED
  BY <1>5, <1>6

\* The order a trade takes from precedes all others the taker may trade with.
LEMMA MakerIsFirst ==
  ASSUME IInv, pc = "matching", CanMatch
  PROVE  LET o == Arriving(order[taker], TRUE)
             m == Shown(order[Maker])
         IN  /\ Maker \in Live(order, taker)
             /\ m \in Promise!Makers(o)
             /\ \A n \in Promise!Makers(o) \ {m} : Promise!Precedes(m, n)
<1>. DEFINE o == Arriving(order[taker], TRUE)
            m == Shown(order[Maker])
<1>1. /\ taker \in Slot /\ Maker \in Slot /\ Maker # taker
      /\ FromSide \in Side /\ FromPx \in DOMAIN book[FromSide]
      /\ Fits(order[Maker], FromSide, FromPx)
  BY TradersAre
<1>2. Maker \in Live(order, taker) /\ Maker \in Faced
  BY <1>1 DEF Live, Faced, Fits
<1>3. Promise!Facing(o) = Show(order, Faced)
  BY <1>1, FacingIs
<1>4. Promise!WithinPrice(o) = Show(order, Reach(order, taker))
  BY <1>1, WithinIsReach
<1>5. o.type = order[taker].type
  BY DEF Arriving
<1>6. Promise!Makers(o) \subseteq Promise!Facing(o)
  BY DEF Promise!Makers, Promise!WithinPrice
<1>7. m \in Promise!Makers(o)
  <2>1. CASE order[taker].type = "LIMIT"
    <3>1. Crosses(order[taker], FromPx) /\ order[Maker].price = FromPx
      BY <1>1, <2>1 DEF CanMatch, FromPx, FromSide, Fits
    <3>2. Maker \in Reach(order, taker)
      BY <1>1, <3>1 DEF Reach, Fits, FromSide
    <3>3. m \in Promise!WithinPrice(o)
      BY <1>4, <3>2 DEF Show
    <3>. QED BY <1>5, <2>1, <3>3 DEF Promise!Makers
  <2>2. CASE order[taker].type # "LIMIT"
    <3>1. m \in Promise!Facing(o)
      BY <1>2, <1>3 DEF Show
    <3>. HIDE DEF m, o
    <3>. QED BY <1>5, <2>2, <3>1 DEF Promise!Makers
  <2>. QED BY <2>1, <2>2
<1>8. ASSUME NEW n \in Promise!Makers(o) \ {m}
      PROVE  Promise!Precedes(m, n)
  <2>1. PICK x \in Faced : n = Shown(order[x])
    BY <1>3, <1>6 DEF Show
  <2>2. x # Maker
    BY <2>1
  <2>3. x \in Booked /\ order[x].side = FromSide
    BY BookedIsLive DEF Faced
  <2>4. Precedes(Maker, x)
    <3>1. DOMAIN book[FromSide] # {}
      BY <1>1
    <3>2. x # Head(book[FromSide][BestPrice(book, FromSide)].queue)
      BY <2>2 DEF Maker, FromPx
    <3>. QED BY <1>1, <2>3, <3>1, <3>2, HeadOfBestPrecedes DEF Maker, FromPx
  <2>5. /\ m.side = order[Maker].side /\ m.price = order[Maker].price /\ m.rank = order[Maker].rank
        /\ n.price = order[x].price /\ n.rank = order[x].rank
    BY <2>1 DEF Shown
  <2>. HIDE DEF m
  <2>. QED BY <2>4, <2>5 DEF Precedes, Better, Promise!Precedes, Promise!Better
<1>. QED
  BY <1>2, <1>7, <1>8

\* One pass of the matching loop.
LEMMA TradeFillsOne ==
  ASSUME IInv, IInv', Trade
  PROVE  \E o \in IncomingOrders : Promise!Fill(o)
<1>. DEFINE o == Arriving(order[taker], TRUE)
            m == Shown(order[Maker])
            L == Live(order, taker)
<1>1. /\ pc = "matching" /\ CanMatch /\ pc' = "matching" /\ taker' = taker
      /\ id_counter' = id_counter /\ clock' = clock
  BY DEF Trade
<1>2. /\ taker \in Slot /\ taker # Null /\ Remaining(order[taker]) \in Nat
      /\ IncomingOrders = {o}
  <2>1. (pc = "matching") = TRUE
    BY <1>1
  <2>. QED BY <1>1, <2>1, TakerIs
<1>3. /\ Maker \in Slot /\ Maker # taker /\ order[taker].filled_qty < order[taker].quantity
      /\ Fits(order[Maker], FromSide, FromPx)
      /\ order[Maker] \in Order /\ order[taker] \in Order
  BY <1>1, TradersAre DEF IInv, TypeOK
<1>4. Remaining(order[taker]) > 0 /\ Remaining(order[Maker]) \in Int
  BY <1>3 DEF Remaining, Order, Quantity
<1>5. /\ Maker \in L /\ m \in Promise!Makers(o)
      /\ \A n \in Promise!Makers(o) \ {m} : Promise!Precedes(m, n)
  BY <1>1, MakerIsFirst
<1>6. /\ \A x \in Slot : x # taker /\ x # Maker => order'[x] = order[x]
      /\ Remaining(order'[taker]) = Remaining(order[taker]) - Taken
      /\ Remaining(order'[Maker]) = Remaining(order[Maker]) - Taken
  BY TradeIs
<1>7. o.open = Remaining(order[taker]) /\ m.open = Remaining(order[Maker]) /\ o.admitted = TRUE
  BY DEF Arriving, Shown
<1>8. Taken = IF o.open < m.open THEN o.open ELSE m.open
  BY <1>7 DEF Taken
<1>9. IncomingOrders' = {[o EXCEPT !.open = o.open - Taken]}
  <2>1. (pc' = "matching") = TRUE
    BY <1>1
  <2>2. IncomingOrders' = {Arriving(order'[taker], TRUE)}
    BY <1>1, <1>2, <2>1 DEF IncomingOrders
  <2>3. [o EXCEPT !.open = Remaining(order'[taker])] = Arriving(order'[taker], TRUE)
    <3>1. /\ order'[taker].id = order[taker].id /\ order'[taker].side = order[taker].side
          /\ order'[taker].type = order[taker].type /\ order'[taker].price = order[taker].price
      BY TradersKeep
    <3>2. ASSUME NEW a
          PROVE  [Arriving(order[taker], a) EXCEPT !.open = Remaining(order'[taker])]
                 = Arriving(order'[taker], a)
      BY <3>1, ArrivingOf
    <3>. QED BY <3>2, Zenon
  <2>4. Remaining(order'[taker]) = o.open - Taken
    BY <1>6, <1>7
  <2>. QED BY <2>2, <2>3, <2>4
<1>10. RestingOrders' = (RestingOrders \ {m}) \cup
         (IF Taken = m.open THEN {} ELSE {[m EXCEPT !.open = m.open - Taken]})
  <2>1. \A x \in L : x # Maker => order'[x] = order[x]
    BY <1>6 DEF Live
  <2>2. CASE Taken = Remaining(order[Maker])
    <3>1. order'[Maker].id = 0
      BY <2>2, TradersKeep
    <3>2. Live(order', taker') = L \ {Maker}
      BY <1>1, <1>3, <1>6, <3>1 DEF Live
    <3>3. RestingOrders' = RestingOrders \ {m}
      BY <1>5, <2>1, <3>2, OneGoes
    <3>. QED BY <2>2, <3>3, <1>7
  <2>3. CASE Taken # Remaining(order[Maker])
    <3>1. /\ order'[Maker].id = order[Maker].id /\ order'[Maker].side = order[Maker].side
          /\ order'[Maker].price = order[Maker].price /\ order'[Maker].rank = order[Maker].rank
          /\ IsActive(order'[Maker])
      BY <2>3, TradersKeep
    <3>2. Live(order', taker') = L
      BY <1>1, <1>3, <1>6, <3>1 DEF Live, Fits
    <3>3. RestingOrders' = (RestingOrders \ {m}) \cup {Shown(order'[Maker])}
      BY <1>5, <2>1, <3>2, OneChanges
    <3>4. [m EXCEPT !.open = Remaining(order'[Maker])] = Shown(order'[Maker])
      BY <3>1, ShownOf
    <3>5. Remaining(order'[Maker]) = m.open - Taken
      BY <1>6, <1>7
    <3>. QED BY <2>3, <3>3, <3>4, <3>5, <1>7
  <2>. QED BY <2>2, <2>3
<1>. HIDE DEF o, m
<1>11. Promise!Fill(o)
  BY <1>1, <1>4, <1>5, <1>7, <1>8, <1>9, <1>10 DEF Promise!Fill
<1>. QED
  BY <1>2, <1>11

\* A live order of the other side is queued there.
LEMMA FacedIsQueued ==
  ASSUME IInv, NEW x \in Faced
  PROVE  order[x].price \in DOMAIN book[FromSide]
<1>1. x \in Booked /\ order[x].side = FromSide
  BY BookedIsLive DEF Faced
<1>2. In(book, x, order[x].side, order[x].price)
  BY <1>1, BookedIsIn
<1>. QED
  BY <1>1, <1>2 DEF In

\* A filled order leaves the loop.
LEMMA FinishCompletes ==
  ASSUME IInv, IInv', FinishFilled
  PROVE  \E o \in IncomingOrders : Promise!Complete(o)
<1>. DEFINE o == Arriving(order[taker], TRUE)
<1>1. /\ pc = "matching" /\ ~IsActive(order[taker]) /\ taker' = Null /\ order' = order
      /\ id_counter' = id_counter /\ clock' = clock
  BY DEF FinishFilled, Done
<1>2. /\ taker \in Slot /\ IncomingOrders = {o}
      /\ order[taker].quantity = order[taker].filled_qty /\ order[taker].quantity \in Nat
  <2>1. (pc = "matching") = TRUE
    BY <1>1
  <2>2. /\ taker \in Slot /\ order[taker].quantity \in Nat /\ order[taker].filled_qty \in Nat
        /\ order[taker].filled_qty <= order[taker].quantity
        /\ ~(order[taker].filled_qty < order[taker].quantity)
        /\ IncomingOrders = {Arriving(order[taker], pc = "matching")}
    BY <1>1, TakerIs
  <2>3. order[taker].quantity = order[taker].filled_qty
    BY <2>2
  <2>4. IncomingOrders = {o}
    BY <2>1, <2>2
  <2>. QED BY <2>2, <2>3, <2>4
<1>3. o.open = 0 /\ o.admitted = TRUE
  BY <1>2 DEF Arriving, Remaining
<1>4. RestingOrders' = RestingOrders
  <2>1. Live(order', taker') = Live(order, taker)
    BY <1>1, OrderBookAssumption DEF Live, Slot, Null
  <2>. QED BY <1>1, <2>1, NothingShows
<1>5. IncomingOrders' = {}
  BY <1>1 DEF IncomingOrders
<1>. HIDE DEF o
<1>6. Promise!Complete(o)
  BY <1>1, <1>3, <1>4, <1>5 DEF Promise!Complete
<1>. QED
  BY <1>2, <1>6

\* What is left of a LIMIT order rests: the loop stopped because nobody rests
\* within its price.
LEMMA ResidualRests ==
  ASSUME IInv, IInv', RestResidual
  PROVE  \E o \in IncomingOrders : Promise!Rest(o)
<1>. DEFINE o == Arriving(order[taker], TRUE)
            t == order[taker]
<1>1. /\ pc = "matching" /\ ~CanMatch /\ IsActive(t) /\ t.type = "LIMIT" /\ taker' = Null
      /\ order' = [order EXCEPT ![taker].rank = clock + 1]
      /\ id_counter' = id_counter /\ clock' = clock + 1
  BY DEF RestResidual, Done
<1>2. /\ taker \in Slot /\ taker # Null /\ IncomingOrders = {o} /\ t \in Order /\ t.id # 0
      /\ Remaining(t) > 0
  <2>1. (pc = "matching") = TRUE
    BY <1>1
  <2>2. /\ taker \in Slot /\ taker # Null /\ t \in Order /\ t.id # 0
        /\ t.quantity \in Nat /\ t.filled_qty \in Nat
        /\ t.filled_qty < t.quantity
        /\ IncomingOrders = {Arriving(t, pc = "matching")}
    BY <1>1, TakerIs
  <2>3. Remaining(t) > 0
    BY <2>2 DEF Remaining
  <2>. QED BY <2>1, <2>2, <2>3
<1>3. /\ o.open = Remaining(t) /\ o.admitted = TRUE /\ o.type = "LIMIT"
      /\ o.id = t.id /\ o.side = t.side /\ o.price = t.price
  BY <1>1 DEF Arriving
<1>4. Promise!Makers(o) = {}
  <2>1. Promise!Makers(o) = Show(order, Reach(order, taker))
    BY <1>2, <1>3, WithinIsReach DEF Promise!Makers
  <2>2. ASSUME NEW x \in Reach(order, taker)
        PROVE  FALSE
    <3>1. x \in Faced /\ Crosses(t, order[x].price)
      BY DEF Reach, Faced, Live, FromSide
    <3>2. order[x].price \in DOMAIN book[FromSide]
      BY <3>1, FacedIsQueued
    <3>. DEFINE q == order[x].price
                c == t.price
                v == t.side
    <3>3. IF v = "BID" THEN c < q ELSE q < c
      BY <1>1, <1>2, <3>2, StoppedAtItsPrice DEF FromSide, IInv
    <3>4. c \in Int /\ q \in Int
      BY <1>2 DEF Order, Reach, IInv, TypeOK
    <3>5. ~Better(v, q, c)
      BY <3>1 DEF Crosses
    <3>. HIDE DEF q, c, v
    <3>. QED BY <3>3, <3>4, <3>5 DEF Better
  <2>. QED BY <2>1, <2>2 DEF Show
<1>5. /\ order'[taker] = [t EXCEPT !.rank = clock + 1]
      /\ \A x \in Slot : x # taker => order'[x] = order[x]
  BY <1>1, <1>2 DEF IInv, TypeOK
<1>6. /\ order'[taker].id = t.id /\ order'[taker].side = t.side /\ order'[taker].price = t.price
      /\ order'[taker].quantity = t.quantity /\ order'[taker].filled_qty = t.filled_qty
      /\ order'[taker].status = t.status /\ order'[taker].rank = clock + 1
  <2>. HIDE DEF t
  <2>. QED BY <1>2, <1>5 DEF Order
<1>7. RestingOrders' = RestingOrders \cup {Shown(order'[taker])}
  <2>1. taker \notin Live(order, taker)
    BY DEF Live
  <2>2. IsActive(order'[taker])
    BY <1>1, <1>6 DEF IsActive
  <2>. HIDE DEF t
  <2>3. Live(order', taker') = Live(order, taker) \cup {taker}
    BY <1>1, <1>2, <1>5, <1>6, <2>2, OrderBookAssumption DEF Live, Slot, Null
  <2>4. \A x \in Live(order, taker) : order'[x] = order[x]
    BY <1>5 DEF Live
  <2>. QED BY <2>1, <2>3, <2>4, OneComes
<1>8. Shown(order'[taker]) = [id |-> o.id, side |-> o.side, price |-> o.price,
                              open |-> o.open, rank |-> clock + 1]
  <2>. HIDE DEF o, t
  <2>. QED BY <1>3, <1>6 DEF Shown, Remaining
<1>9. IncomingOrders' = {}
  BY <1>1 DEF IncomingOrders
<1>. HIDE DEF o
<1>10. Promise!Rest(o)
  BY <1>1, <1>2, <1>3, <1>4, <1>7, <1>8, <1>9 DEF Promise!Rest
<1>. QED
  BY <1>2, <1>10

\* What is left of any other order is cancelled: nobody is left to trade with,
\* and it is not a FOK order.
LEMMA ResidualIsDiscarded ==
  ASSUME IInv, IInv', FokCovered, CancelResidual
  PROVE  \E o \in IncomingOrders : Promise!Discard(o)
<1>. DEFINE o == Arriving(order[taker], TRUE)
            t == order[taker]
<1>1. /\ pc = "matching" /\ ~CanMatch /\ IsActive(t) /\ t.type # "LIMIT" /\ taker' = Null
      /\ order' = [order EXCEPT ![taker] = DefaultOrder]
      /\ id_counter' = id_counter /\ clock' = clock
  BY DEF CancelResidual, Done
<1>2. /\ taker \in Slot /\ IncomingOrders = {o} /\ t \in Order /\ Remaining(t) > 0
  <2>1. (pc = "matching") = TRUE
    BY <1>1
  <2>2. /\ taker \in Slot /\ t \in Order /\ t.quantity \in Nat /\ t.filled_qty \in Nat
        /\ t.filled_qty < t.quantity
        /\ IncomingOrders = {Arriving(t, pc = "matching")}
    BY <1>1, TakerIs
  <2>3. Remaining(t) > 0
    BY <2>2 DEF Remaining
  <2>. QED BY <2>1, <2>2, <2>3
<1>3. t.type \in {"MARKET", "IOC"}
  <2>1. t.type # "FOK"
    BY <1>1, CoveredCompletes DEF FokCompletes
  <2>. QED BY <1>1, <1>2, <2>1 DEF Order, OrderType
<1>4. o.open = Remaining(t) /\ o.admitted = TRUE /\ o.type = t.type
  BY DEF Arriving
<1>5. Promise!Makers(o) = {}
  <2>1. Promise!Makers(o) = Show(order, Faced)
    <3>1. o.type # "LIMIT"
      BY <1>1, <1>4
    <3>2. Promise!Facing(o) = Show(order, Faced)
      BY <1>2, FacingIs
    <3>. HIDE DEF o
    <3>. QED BY <3>1, <3>2 DEF Promise!Makers
  <2>2. DOMAIN book[FromSide] = {}
    BY <1>1 DEF CanMatch, FromSide
  <2>3. Faced = {}
    BY <2>2, FacedIsQueued
  <2>. QED BY <2>1, <2>3 DEF Show
<1>6. RestingOrders' = RestingOrders
  <2>1. OnlyAt(taker) /\ order'[taker].id = 0
    BY <1>1, <1>2, DropIs
  <2>2. Live(order', taker') = Live(order, taker)
    BY <1>1, <2>1, OrderBookAssumption DEF Live, OnlyAt, Slot, Null
  <2>3. \A x \in Live(order, taker) : order'[x] = order[x]
    BY <2>1 DEF Live, OnlyAt
  <2>. QED BY <2>2, <2>3, NothingShows
<1>7. IncomingOrders' = {}
  BY <1>1 DEF IncomingOrders
<1>. HIDE DEF o
<1>8. Promise!Discard(o)
  BY <1>1, <1>2, <1>3, <1>4, <1>5, <1>6, <1>7 DEF Promise!Discard
<1>. QED
  BY <1>2, <1>8

\* cancel_order.
LEMMA CancelCancels ==
  ASSUME IInv, IInv', NEW id, CancelOrder(id)
  PROVE  \E m \in RestingOrders : Promise!Cancel(m)
<1>. DEFINE s == order_map[id]
            m == Shown(order[s])
            L == Live(order, taker)
<1>1. pc = "idle" /\ Known(id) /\ taker' = taker /\ id_counter' = id_counter /\ clock' = clock
  BY DEF CancelOrder
<1>2. taker = Null /\ IncomingOrders = {} /\ IncomingOrders' = {}
  <2>1. taker = Null /\ IncomingOrders = {}
    BY <1>1, Idles
  <2>. QED BY <1>1, <2>1 DEF IncomingOrders
<1>3. s \in L
  BY <1>1, <1>2, KnownIsQueued DEF Live, Fits
<1>4. OnlyAt(s) /\ order'[s].id = 0
  BY CancelIs
<1>. HIDE DEF s
<1>5. m \in RestingOrders
  <2>1. RestingOrders = Show(order, L)
    BY BookShows DEF BookIsLive
  <2>. QED BY <1>3, <2>1 DEF Show
<1>6. RestingOrders' = RestingOrders \ {m}
  <2>1. Live(order', taker') = L \ {s}
    BY <1>1, <1>4 DEF Live, OnlyAt
  <2>2. \A x \in L : x # s => order'[x] = order[x]
    BY <1>4 DEF Live, OnlyAt
  <2>. QED BY <1>3, <2>1, <2>2, OneGoes
<1>. HIDE DEF m
<1>7. Promise!Cancel(m)
  BY <1>1, <1>2, <1>6 DEF Promise!Cancel
<1>. QED
  BY <1>5, <1>7

\* What amend_order leaves as it is in the order it changes.
LEMMA AmendKeeps ==
  ASSUME IInv, NEW id, NEW quantity \in Quantities, AmendUp(id, quantity) \/ AmendDown(id, quantity)
  PROVE  LET o == order[order_map[id]]
             n == order'[order_map[id]]
         IN  /\ n.side = o.side /\ n.price = o.price /\ n.status = o.status
             /\ n.rank = IF quantity > o.quantity THEN clock + 1 ELSE o.rank
             /\ clock' = IF quantity > o.quantity THEN clock + 1 ELSE clock
             /\ quantity > o.filled_qty
<1>. DEFINE m == order_map[id]
            o == order[m]
<1>1. pc = "idle" /\ Known(id) /\ quantity > o.filled_qty
  BY DEF AmendUp, AmendDown
<1>2. m \in Slot /\ o \in Order /\ order \in [Slot -> Order]
  BY <1>1, KnownIsQueued DEF IInv, TypeOK
<1>. HIDE DEF m
<1>3. CASE AmendUp(id, quantity)
  <2>1. /\ quantity > o.quantity /\ clock' = clock + 1
        /\ order' = [order EXCEPT ![m].quantity = quantity, ![m].rank = clock + 1]
    BY <1>3 DEF AmendUp, m
  <2>2. order'[m] = [o EXCEPT !.quantity = quantity, !.rank = clock + 1]
    BY <1>2, <2>1
  <2>. HIDE DEF o
  <2>3. /\ order'[m].side = o.side /\ order'[m].price = o.price /\ order'[m].status = o.status
        /\ order'[m].rank = clock + 1
    BY <1>2, <2>2 DEF Order
  <2>. QED BY <1>1, <2>1, <2>3 DEF m, o
<1>4. CASE AmendDown(id, quantity)
  <2>1. /\ quantity <= o.quantity /\ clock' = clock
        /\ order' = [order EXCEPT ![m].quantity = quantity]
    BY <1>4 DEF AmendDown, m
  <2>2. order'[m] = [o EXCEPT !.quantity = quantity]
    BY <1>2, <2>1
  <2>. HIDE DEF o
  <2>3. /\ order'[m].side = o.side /\ order'[m].price = o.price /\ order'[m].status = o.status
        /\ order'[m].rank = o.rank
    BY <1>2, <2>2 DEF Order
  <2>4. ~(quantity > o.quantity)
    BY <1>2, <2>1, OrderBookAssumption DEF Order, Quantity
  <2>. QED BY <1>1, <2>1, <2>3, <2>4 DEF m, o
<1>. QED
  BY <1>3, <1>4

\* amend_order.
LEMMA AmendAmends ==
  ASSUME IInv, IInv', NEW id, NEW quantity \in Quantities,
         AmendUp(id, quantity) \/ AmendDown(id, quantity)
  PROVE  \E m \in RestingOrders : \E open \in 1 .. quantity : Promise!Amend(m, open)
<1>. DEFINE s == order_map[id]
            m == Shown(order[s])
            L == Live(order, taker)
            open == Remaining(order'[s])
<1>1. pc = "idle" /\ Known(id) /\ taker' = taker /\ id_counter' = id_counter
  BY DEF AmendUp, AmendDown
<1>2. taker = Null /\ IncomingOrders = {} /\ IncomingOrders' = {}
  <2>1. taker = Null /\ IncomingOrders = {}
    BY <1>1, Idles
  <2>. QED BY <1>1, <2>1 DEF IncomingOrders
<1>3. s \in L /\ s \in Slot /\ order[s] \in Order /\ order \in [Slot -> Order]
  BY <1>1, <1>2, KnownIsQueued DEF Live, Fits, IInv, TypeOK
<1>4. Stays(s) /\ order'[s].quantity = quantity
  BY AmendIs
<1>5. /\ order'[s].side = order[s].side /\ order'[s].price = order[s].price
      /\ order'[s].status = order[s].status
      /\ order'[s].rank = IF quantity > order[s].quantity THEN clock + 1 ELSE order[s].rank
      /\ clock' = IF quantity > order[s].quantity THEN clock + 1 ELSE clock
      /\ quantity > order[s].filled_qty
  BY AmendKeeps
<1>. HIDE DEF s
<1>6. m \in RestingOrders
  <2>1. RestingOrders = Show(order, L)
    BY BookShows DEF BookIsLive
  <2>. QED BY <1>3, <2>1 DEF Show
<1>7. RestingOrders' = (RestingOrders \ {m}) \cup {Shown(order'[s])}
  <2>1. Live(order', taker') = L
    BY <1>1, <1>3, <1>4, <1>5 DEF Live, OnlyAt, Stays, IsActive
  <2>2. \A x \in L : x # s => order'[x] = order[x]
    BY <1>4 DEF Live, OnlyAt, Stays
  <2>. QED BY <1>3, <2>1, <2>2, OneChanges
<1>8. /\ open = quantity - order[s].filled_qty
      /\ m.open = order[s].quantity - order[s].filled_qty /\ m.rank = order[s].rank
      /\ order[s].quantity \in Nat /\ order[s].filled_qty \in Nat /\ quantity \in Nat
  BY <1>3, <1>4, OrderBookAssumption DEF Stays, Remaining, Shown, Order, Quantity
<1>. HIDE DEF open
<1>9. open \in 1 .. quantity /\ (open > m.open <=> quantity > order[s].quantity)
  <2>. HIDE DEF m
  <2>. QED BY <1>5, <1>8
<1>10. Shown(order'[s]) = [m EXCEPT !.open = open,
                                    !.rank = IF open > m.open THEN clock + 1 ELSE m.rank]
  <2>. DEFINE r == IF open > m.open THEN clock + 1 ELSE m.rank
  <2>1. order'[s].rank = r
    BY <1>5, <1>8, <1>9
  <2>2. [m EXCEPT !.open = Remaining(order'[s]), !.rank = order'[s].rank] = Shown(order'[s])
    BY <1>4, <1>5, ShownOf DEF Stays
  <2>. HIDE DEF r, m
  <2>3. [m EXCEPT !.open = open, !.rank = r] = Shown(order'[s])
    BY <2>1, <2>2 DEF open
  <2>. QED BY <2>3 DEF r
<1>11. clock' = IF open > m.open THEN clock + 1 ELSE clock
  BY <1>5, <1>9
<1>. HIDE DEF m
<1>12. Promise!Amend(m, open)
  BY <1>1, <1>2, <1>7, <1>10, <1>11 DEF Promise!Amend
<1>. QED
  BY <1>6, <1>9, <1>12

LEMMA InitPromise == Init => Promise!Init
<1>. SUFFICES ASSUME Init PROVE Promise!Init
  OBVIOUS
<1>1. taker = Null /\ id_counter = 0 /\ clock = 0 /\ \A s \in Slot : order[s].id = 0
  BY DEF Init, DefaultOrder
<1>2. RestingOrders = {}
  <2>1. RestingOrders = Show(order, Live(order, taker))
    BY InitIInv, BookShows DEF BookIsLive
  <2>. QED BY <2>1, <1>1 DEF Show, Live
<1>3. IncomingOrders = {}
  BY <1>1 DEF IncomingOrders
<1>. QED
  BY <1>1, <1>2, <1>3 DEF Promise!Init

LEMMA StepPromise ==
  IInv /\ IInv' /\ Totals /\ FreshTaker /\ FokCovered /\ [Next]_vars
    => [Promise!Next]_(Promise!cvars)
<1>. SUFFICES ASSUME IInv, IInv', Totals, FreshTaker, FokCovered, [Next]_vars
     PROVE  [Promise!Next]_(Promise!cvars)
  OBVIOUS
<1>1. ASSUME NEW side \in Side, NEW type \in OrderType, NEW price \in Prices,
             NEW quantity \in Quantities, AddOrder(side, type, price, quantity)
      PROVE  Promise!Next
  BY <1>1, AddSubmits DEF Promise!Next, Promise!Side, Promise!OrderType, Side, OrderType
<1>2. CASE RejectFok
  BY <1>2, RejectFokRejects DEF Promise!Next
<1>3. CASE StartMatching
  BY <1>3, StartAdmits DEF Promise!Next
<1>4. CASE Trade
  BY <1>4, TradeFillsOne DEF Promise!Next
<1>5. CASE FinishFilled
  BY <1>5, FinishCompletes DEF Promise!Next
<1>6. CASE RestResidual
  BY <1>6, ResidualRests DEF Promise!Next
<1>7. CASE CancelResidual
  BY <1>7, ResidualIsDiscarded DEF Promise!Next
<1>8. ASSUME NEW id, CancelOrder(id)
      PROVE  Promise!Next
  BY <1>8, CancelCancels DEF Promise!Next
<1>9. ASSUME NEW id, NEW quantity \in Quantities, AmendUp(id, quantity) \/ AmendDown(id, quantity)
      PROVE  Promise!Next
  BY <1>9, AmendAmends DEF Promise!Next
<1>10. CASE UNCHANGED vars
  <2>1. Booked' = Booked
    BY <1>10 DEF vars, Booked, Resting, QueuedAt
  <2>2. RestingOrders' = RestingOrders /\ IncomingOrders' = IncomingOrders
    BY <1>10, <2>1 DEF vars, RestingOrders, IncomingOrders
  <2>. QED BY <1>10, <2>2 DEF vars, Promise!cvars
<1>11. ASSUME NEW type, NEW price, NEW quantity, RefuseAdd(type, price, quantity)
       PROVE  UNCHANGED vars
  BY <1>11 DEF RefuseAdd
<1>12. ASSUME NEW id, NEW quantity, RefuseChange(id, quantity)
       PROVE  UNCHANGED vars
  BY <1>12 DEF RefuseChange
<1>. QED
  BY <1>1, <1>2, <1>3, <1>4, <1>5, <1>6, <1>7, <1>8, <1>9, <1>10, <1>11, <1>12
     DEF Next, Matching, Call

\* Levels, aggregates, queues, pool and lookup table together do what one set
\* of orders served in price-time order does, with FOK all or nothing: every
\* call and every trade of the book is a step of Clob, also where aggregates wrap.
THEOREM RefinesClob == Spec => Promise!Init /\ [][Promise!Next]_(Promise!cvars)
<1>1. Spec => []FreshTaker
  BY InitFresh, StepFresh, Invariance, PTL DEF Spec
<1>. QED
  BY <1>1, InitPromise, StepPromise, Invariance, TotalsAlways, CoveredAlways, PTL DEF Spec

=============================================================================
