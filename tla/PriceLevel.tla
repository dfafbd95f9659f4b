------------------------------ MODULE PriceLevel ------------------------------
(***************************************************************************)
(* The price levels as they are in memory (order_book.hpp:19): orders      *)
(* linked by prev and next pointers, with head, tail, count and total in   *)
(* each level.  Module OrderBook speaks of the sequence of a level's       *)
(* orders; here that sequence is the history variable queue, changed as    *)
(* OrderBook's PushBack and Unlink change it.                              *)
(*                                                                         *)
(* push_back is called with an order that is in no level, remove with one  *)
(* that is in this level: OrderBook's QueuesAreSound and PoolIsPartitioned *)
(* see to that.                                                            *)
(***************************************************************************)
EXTENDS Integers, Sequences, SequencesExt

CONSTANTS
  Slot,     \* the slots orders live in
  Null,     \* the null pointer
  Level,    \* the levels
  QtyMod    \* Quantity wraps here (2^32)

ASSUME LevelAssumption ==
  /\ Null \notin Slot
  /\ QtyMod \in Nat \ {0}

VARIABLES
  prev, next,            \* the links of each order
  quantity, filled_qty,  \* the quantities of each order
  head, tail,            \* of each level
  total_qty,             \* of each level
  order_count,           \* of each level
  queue                  \* history: the orders of each level, oldest first

links == <<prev, next, head, tail, order_count, queue>>
vars  == <<links, quantity, filled_qty, total_qty>>

Quantity == 0 .. QtyMod - 1
Link     == Slot \cup {Null}

Remaining(s) == quantity[s] - filled_qty[s]
In(s, l)     == s \in ToSet(queue[l])

Init ==
  /\ prev = [s \in Slot |-> Null] /\ next = [s \in Slot |-> Null]
  /\ quantity = [s \in Slot |-> 0] /\ filled_qty = [s \in Slot |-> 0]
  /\ head = [l \in Level |-> Null] /\ tail = [l \in Level |-> Null]
  /\ total_qty = [l \in Level |-> 0]
  /\ order_count = [l \in Level |-> 0]
  /\ queue = [l \in Level |-> <<>>]

-----------------------------------------------------------------------------
(* The links.                                                              *)

\* Seeded fault: the order before does not learn of the new one.
LinkBackOneWay(l, s) ==
  /\ prev' = [prev EXCEPT ![s] = tail[l]]
  /\ next' = [next EXCEPT ![s] = Null]
  /\ head' = IF tail[l] = Null THEN [head EXCEPT ![l] = s] ELSE head
  /\ tail' = [tail EXCEPT ![l] = s]
  /\ order_count' = [order_count EXCEPT ![l] = @ + 1]
  /\ queue' = [queue EXCEPT ![l] = Append(@, s)]

\* push_back, but for the total.
LinkBack(l, s) ==
  /\ prev' = [prev EXCEPT ![s] = tail[l]]
  /\ next' = [x \in Slot |-> IF x = s THEN Null ELSE IF x = tail[l] THEN s ELSE next[x]]
  /\ head' = IF tail[l] = Null THEN [head EXCEPT ![l] = s] ELSE head
  /\ tail' = [tail EXCEPT ![l] = s]
  /\ order_count' = [order_count EXCEPT ![l] = @ + 1]
  /\ queue' = [queue EXCEPT ![l] = Append(@, s)]

Position(l, s) == CHOOSE i \in DOMAIN queue[l] : queue[l][i] = s

\* Seeded fault: execute_trade has lowered the count already.
UnlinkCountsTwice(l, s) ==
  /\ next' = [x \in Slot |-> IF x = s THEN Null ELSE IF x = prev[s] THEN next[s] ELSE next[x]]
  /\ prev' = [x \in Slot |-> IF x = s THEN Null ELSE IF x = next[s] THEN prev[s] ELSE prev[x]]
  /\ head' = IF prev[s] = Null THEN [head EXCEPT ![l] = next[s]] ELSE head
  /\ tail' = IF next[s] = Null THEN [tail EXCEPT ![l] = prev[s]] ELSE tail
  /\ order_count' = [order_count EXCEPT ![l] = @ - 2]
  /\ queue' = [queue EXCEPT ![l] = RemoveAt(@, Position(l, s))]

\* remove, but for the total.
Unlink(l, s) ==
  /\ next' = [x \in Slot |-> IF x = s THEN Null ELSE IF x = prev[s] THEN next[s] ELSE next[x]]
  /\ prev' = [x \in Slot |-> IF x = s THEN Null ELSE IF x = next[s] THEN prev[s] ELSE prev[x]]
  /\ head' = IF prev[s] = Null THEN [head EXCEPT ![l] = next[s]] ELSE head
  /\ tail' = IF next[s] = Null THEN [tail EXCEPT ![l] = prev[s]] ELSE tail
  /\ order_count' = [order_count EXCEPT ![l] = @ - 1]
  /\ queue' = [queue EXCEPT ![l] = RemoveAt(@, Position(l, s))]

-----------------------------------------------------------------------------
(* What the book does with a level.                                        *)

\* rest_order: push_back adds the whole quantity, what was filled before the
\* order rests is taken off again.
Rest(l, s, qty, filled) ==
  /\ \A k \in Level : ~In(s, k)
  /\ filled < qty
  /\ LinkBack(l, s)
  /\ quantity' = [quantity EXCEPT ![s] = qty]
  /\ filled_qty' = [filled_qty EXCEPT ![s] = filled]
  /\ total_qty' = [total_qty EXCEPT ![l] = (((@ + qty) % QtyMod) - filled) % QtyMod]

\* remove, by a cancel, or by an amendment before the order rests again.
RemoveOrder(l, s) ==
  /\ In(s, l)
  /\ Unlink(l, s)
  /\ total_qty' = [total_qty EXCEPT ![l] = (@ - Remaining(s)) % QtyMod]
  /\ UNCHANGED <<quantity, filled_qty>>

\* Seeded fault: the order takes its whole quantity out of the total again.
FillRemovesInFull(l, s, qty) ==
  /\ s = head[l] /\ s # Null
  /\ qty \in 1 .. Remaining(s)
  /\ filled_qty' = [filled_qty EXCEPT ![s] = @ + qty]
  /\ total_qty' = [total_qty EXCEPT ![l] = (@ - quantity[s]) % QtyMod]
  /\ IF qty = Remaining(s) THEN Unlink(l, s) ELSE UNCHANGED links
  /\ UNCHANGED quantity

\* A trade with the head of the level; an order that is filled is removed,
\* and then has nothing left to take out of the total.
Fill(l, s, qty) ==
  /\ s = head[l] /\ s # Null
  /\ qty \in 1 .. Remaining(s)
  /\ filled_qty' = [filled_qty EXCEPT ![s] = @ + qty]
  /\ total_qty' = [total_qty EXCEPT ![l] = (@ - qty) % QtyMod]
  /\ IF qty = Remaining(s) THEN Unlink(l, s) ELSE UNCHANGED links
  /\ UNCHANGED quantity

\* amend_order with less quantity.
Reduce(l, s, qty) ==
  /\ In(s, l)
  /\ qty > filled_qty[s] /\ qty <= quantity[s]
  /\ total_qty' = [total_qty EXCEPT ![l] = (@ - (quantity[s] - qty)) % QtyMod]
  /\ quantity' = [quantity EXCEPT ![s] = qty]
  /\ UNCHANGED <<links, filled_qty>>

Next ==
  \E l \in Level, s \in Slot :
    \/ RemoveOrder(l, s)
    \/ \E qty \in Quantity :
         \/ Fill(l, s, qty) \/ Reduce(l, s, qty)
         \/ \E filled \in Quantity : Rest(l, s, qty, filled)

Spec == Init /\ [][Next]_vars

-----------------------------------------------------------------------------
(* Properties.                                                             *)

\* Every variable has its type.
TypeOK ==
  /\ prev \in [Slot -> Link] /\ next \in [Slot -> Link]
  /\ quantity \in [Slot -> Quantity] /\ filled_qty \in [Slot -> Quantity]
  /\ head \in [Level -> Link] /\ tail \in [Level -> Link]
  /\ total_qty \in [Level -> Quantity]
  /\ order_count \in [Level -> Nat]
  /\ queue \in [Level -> Seq(Slot)]

At(q, i) == IF i \in DOMAIN q THEN q[i] ELSE Null

\* The links of a level run through its queue in both directions, from head_
\* to tail_ and back, and end there.
LinksFollowQueue ==
  \A l \in Level :
    LET q == queue[l]
    IN  /\ head[l] = At(q, 1) /\ tail[l] = At(q, Len(q))
        /\ \A i \in DOMAIN q : next[q[i]] = At(q, i + 1) /\ prev[q[i]] = At(q, i - 1)
        /\ order_count[l] = Len(q)

\* No order is in two places, and one that is in no level has no links: so
\* taking one out never touches another level.
LevelsAreApart ==
  /\ \A l, k \in Level : \A i \in DOMAIN queue[l], j \in DOMAIN queue[k] :
       queue[l][i] = queue[k][j] => l = k /\ i = j
  /\ \A s \in Slot : (\A l \in Level : ~In(s, l)) => prev[s] = Null /\ next[s] = Null

\* The links are all that remove() goes by: they follow the queue, and lead
\* nowhere else.
LinksAreSound == LinksFollowQueue /\ LevelsAreApart

\* The total of a level is what its orders have left, though it is changed by
\* other amounts in each operation, and wraps.
TotalsAddUp ==
  \A l \in Level :
    total_qty[l] = SumFunction([s \in ToSet(queue[l]) |-> Remaining(s)]) % QtyMod

=============================================================================
