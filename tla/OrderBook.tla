------------------------------ MODULE OrderBook ------------------------------
(***************************************************************************)
(* The matching engine: class OrderBook (order_book.hpp, order_book.cpp)   *)
(* with the PriceLevel queues, the order_map_ and the free list of its     *)
(* MemoryPool.  The book serves one thread, so a call of the public API    *)
(* runs to its end before the next one starts.  cancel_order and           *)
(* amend_order are one action each.  add_order is split where the code     *)
(* loops: it enters match_order, one step per pass of the inner matching   *)
(* loop follows (one trade), and a last step does what match_order does    *)
(* after the loop.                                                         *)
(*                                                                         *)
(* Not in this module: the timestamps, the statistics counters and         *)
(* last_trade_px_/last_trade_qty_, which no condition of the code reads.   *)
(***************************************************************************)
EXTENDS Integers, Sequences, FiniteSets, SequencesExt

CONSTANTS
  Capacity,    \* MAX_ORDERS: slots of the pool
  Prices,      \* the prices callers use
  MaxPrice,    \* Price is a signed integer up to MaxPrice (2^63 - 1)
  Quantities,  \* the quantities callers use
  QtyMod,      \* Quantity is an unsigned integer modulo QtyMod (2^32)
  MaxId,       \* bound: ids handed out
  MaxRank      \* bound: amend_order may not queue an order again beyond it

ASSUME OrderBookAssumption ==
  /\ Capacity \in Nat \ {0}
  /\ MaxPrice \in Nat
  /\ Prices \subseteq -MaxPrice .. MaxPrice
  /\ QtyMod \in Nat \ {0}
  /\ Quantities \subseteq 0 .. QtyMod - 1
  /\ MaxId \in Nat /\ MaxRank \in Nat

VARIABLES
  free,        \* the pool's free list, top first
  order,       \* the Order in each slot
  order_map,   \* order_map_: order id -> slot
  book,        \* bids_ and asks_: side -> (price -> PriceLevel)
  id_counter,  \* id_counter_
  pc,          \* where the running call is: "idle" between calls
  taker,       \* match_order's incoming order, a slot
  tick,        \* the last MarketDataTick published
  clock        \* history: how many times rest_order has run

vars == <<free, order, order_map, book, id_counter, pc, taker, tick, clock>>

Slot      == 0 .. Capacity - 1
Null      == -1
Quantity  == 0 .. QtyMod - 1
Side      == {"BID", "ASK"}
OrderType == {"LIMIT", "MARKET", "IOC", "FOK"}

-----------------------------------------------------------------------------
(* Orders.  CANCELLED and REJECTED are only written to an order that is    *)
(* destroyed in the same breath.  rank is a history field: the clock when  *)
(* the order last joined the back of a level, 0 if it never rested.        *)

OrderStatus == {"NEW", "PARTIAL", "FILLED"}

Order == [id : Nat, price : Int, quantity : Quantity, filled_qty : Quantity,
          side : Side, type : OrderType, status : OrderStatus, rank : Nat]

\* What a slot holds when no order lives in it.
DefaultOrder ==
  [id |-> 0, price |-> 0, quantity |-> 0, filled_qty |-> 0,
   side |-> "BID", type |-> "LIMIT", status |-> "NEW", rank |-> 0]

Remaining(o) == o.quantity - o.filled_qty
IsActive(o)  == o.status \in {"NEW", "PARTIAL"}

\* Seeded fault: FILLED is never set.
ExecutedNeverFilled(o, qty) == [o EXCEPT !.filled_qty = @ + qty, !.status = "PARTIAL"]

\* execute_trade's half for one of the two orders.
Executed(o, qty) ==
  [o EXCEPT !.filled_qty = @ + qty,
            !.status = IF o.filled_qty + qty = o.quantity
                       THEN "FILLED" ELSE "PARTIAL"]

-----------------------------------------------------------------------------
(* Price levels: the intrusive list as the sequence of its slots.          *)

PriceLevel == [queue : Seq(Slot), total_qty : Quantity, order_count : Nat]

EmptyLevel == [queue |-> <<>>, total_qty |-> 0, order_count |-> 0]

\* Seeded fault: the newest order is served first.
PushFront(l, slot, o) ==
  [queue       |-> <<slot>> \o l.queue,
   total_qty   |-> (l.total_qty + o.quantity) % QtyMod,
   order_count |-> l.order_count + 1]

PushBack(l, slot, o) ==
  [queue       |-> Append(l.queue, slot),
   total_qty   |-> (l.total_qty + o.quantity) % QtyMod,
   order_count |-> l.order_count + 1]

PositionIn(q, slot) == CHOOSE i \in DOMAIN q : q[i] = slot

\* Seeded faults: the head goes in place of the order; the quantity stays in
\* the aggregate; the caller and remove() both count down.
UnlinkHead(l, slot, o) ==
  [queue       |-> Tail(l.queue),
   total_qty   |-> (l.total_qty - Remaining(o)) % QtyMod,
   order_count |-> l.order_count - 1]

UnlinkKeepsTotal(l, slot, o) ==
  [queue       |-> RemoveAt(l.queue, PositionIn(l.queue, slot)),
   total_qty   |-> l.total_qty,
   order_count |-> l.order_count - 1]

UnlinkCountsTwice(l, slot, o) ==
  [queue       |-> RemoveAt(l.queue, PositionIn(l.queue, slot)),
   total_qty   |-> (l.total_qty - Remaining(o)) % QtyMod,
   order_count |-> l.order_count - 2]

Unlink(l, slot, o) ==
  [queue       |-> RemoveAt(l.queue, PositionIn(l.queue, slot)),
   total_qty   |-> (l.total_qty - Remaining(o)) % QtyMod,
   order_count |-> l.order_count - 1]

TakeQty(l, qty) == [l EXCEPT !.total_qty = (@ - qty) % QtyMod]

-----------------------------------------------------------------------------
(* Book sides: std::map from price to level, best price first.             *)

Opposite(s) == IF s = "BID" THEN "ASK" ELSE "BID"

\* On side s an order at p is served before one at q.
Better(s, p, q) == IF s = "BID" THEN p > q ELSE p < q

\* Seeded fault: bids_ without std::greater.
LowestPrice(b, s) == CHOOSE p \in DOMAIN b[s] : \A q \in DOMAIN b[s] : p <= q

BestPrice(b, s) ==
  CHOOSE p \in DOMAIN b[s] : \A q \in DOMAIN b[s] : ~Better(s, q, p)

SetLevel(b, s, p, l) ==
  [b EXCEPT ![s] = [q \in DOMAIN b[s] \cup {p} |-> IF q = p THEN l ELSE b[s][q]]]

EraseLevel(b, s, p) ==
  [b EXCEPT ![s] = [q \in DOMAIN b[s] \ {p} |-> b[s][q]]]

\* Store a level back, or erase it from the map when nothing queues in it.
SetOrErase(b, s, p, l) ==
  IF l.queue = <<>> THEN EraseLevel(b, s, p) ELSE SetLevel(b, s, p, l)

\* bids_[price] makes an empty level where there is none.
LevelAt(b, s, p) == IF p \in DOMAIN b[s] THEN b[s][p] ELSE EmptyLevel

\* Seeded fault: what the order has already filled as taker is counted too.
RestOrderInFull(b, slot, o) ==
  SetLevel(b, o.side, o.price, PushBack(LevelAt(b, o.side, o.price), slot, o))

RestOrder(b, slot, o) ==
  SetLevel(b, o.side, o.price,
           TakeQty(PushBack(LevelAt(b, o.side, o.price), slot, o), o.filled_qty))

RemoveFromBook(b, slot, o) ==
  IF o.price \in DOMAIN b[o.side]
  THEN SetOrErase(b, o.side, o.price, Unlink(b[o.side][o.price], slot, o))
  ELSE b

Tick == [best_bid : Int, best_bid_qty : Quantity, best_ask : Int, best_ask_qty : Quantity]

\* The tick publish_market_data builds; 0 stands for an empty side.
TopOfBook(b) ==
  LET has(s)   == DOMAIN b[s] # {}
      price(s) == IF has(s) THEN BestPrice(b, s) ELSE 0
      qty(s)   == IF has(s) THEN b[s][BestPrice(b, s)].total_qty ELSE 0
  IN  [best_bid |-> price("BID"), best_bid_qty |-> qty("BID"),
       best_ask |-> price("ASK"), best_ask_qty |-> qty("ASK")]

NoTick == [best_bid |-> 0, best_bid_qty |-> 0, best_ask |-> 0, best_ask_qty |-> 0]

\* Seeded fault: the tick is built before the change.
PublishBefore == tick' = TopOfBook(book)

Publish == tick' = TopOfBook(book')

-----------------------------------------------------------------------------
(* The pool and the lookup table.                                          *)

Erase(f, x) == [y \in DOMAIN f \ {x} |-> f[y]]

\* Seeded fault: the slot is not given back.
ForgetKeepsSlot(slot) ==
  /\ order_map' = Erase(order_map, order[slot].id)
  /\ free' = free

\* Seeded fault: the slot goes to the other end.
ForgetToTheEnd(slot) ==
  /\ order_map' = Erase(order_map, order[slot].id)
  /\ free' = Append(free, slot)

\* Drop the order in slot: order_map_.erase(id) and pool_->deallocate, which
\* puts the slot on top of the free list.
Forget(slot) ==
  /\ order_map' = Erase(order_map, order[slot].id)
  /\ free' = <<slot>> \o free

Init ==
  /\ free = [i \in 1 .. Capacity |-> i - 1]
  /\ order = [s \in Slot |-> DefaultOrder]
  /\ order_map = <<>>
  /\ book = [s \in Side |-> <<>>]
  /\ id_counter = 0
  /\ pc = "idle"
  /\ taker = Null
  /\ tick = NoTick
  /\ clock = 0

-----------------------------------------------------------------------------
(* add_order.                                                              *)

ValidInput(type, price, quantity) ==
  /\ quantity # 0
  /\ type = "LIMIT" => price > 0

\* Up to the call of match_order.
AddOrder(side, type, price, quantity) ==
  /\ pc = "idle"
  /\ id_counter < MaxId
  /\ ValidInput(type, price, quantity)
  /\ free # <<>>
  /\ LET slot == Head(free)
         id   == id_counter + 1
     IN  /\ free' = Tail(free)
         /\ id_counter' = id
         /\ order' = [order EXCEPT ![slot] =
              [id |-> id, price |-> price, quantity |-> quantity, filled_qty |-> 0,
               side |-> side, type |-> type, status |-> "NEW", rank |-> 0]]
         /\ order_map' = [i \in DOMAIN order_map \cup {id} |->
                            IF i = id THEN slot ELSE order_map[i]]
         /\ taker' = slot
  /\ pc' = "match_order"
  /\ UNCHANGED <<book, tick, clock>>

\* add_order returns 0 without a change.
RefuseAdd(type, price, quantity) ==
  /\ pc = "idle"
  /\ ~ValidInput(type, price, quantity) \/ free = <<>>
  /\ UNCHANGED vars

\* Seeded fault: equal prices do not meet.
CrossesStrictly(o, px) == Better(o.side, o.price, px)

\* The price check of check_fok_fillable; the matching loop applies it to
\* LIMIT orders only.
Crosses(o, px) == ~Better(o.side, px, o.price)

\* The levels check_fok_fillable adds up before it stops at price p, ...
LevelsUpTo(s, p) == {q \in DOMAIN book[s] : ~Better(s, p, q)}

\* Seeded faults: the price is not looked at; one unit too many is asked for.
FokFillableAtAnyPrice(o) ==
  LET s == Opposite(o.side)
  IN  SumFunction([q \in DOMAIN book[s] |-> book[s][q].total_qty]) >= o.quantity

FokFillableWithSpare(o) ==
  LET s == Opposite(o.side)
  IN  \E p \in DOMAIN book[s] :
        /\ Crosses(o, p)
        /\ SumFunction([q \in LevelsUpTo(s, p) |-> book[s][q].total_qty]) % QtyMod > o.quantity

\* ... and whether it ever reaches the quantity asked for.  The sum is a
\* Quantity and wraps like one.
FokFillable(o) ==
  LET s == Opposite(o.side)
  IN  \E p \in DOMAIN book[s] :
        /\ Crosses(o, p)
        /\ SumFunction([q \in LevelsUpTo(s, p) |-> book[s][q].total_qty]) % QtyMod >= o.quantity

Done == pc' = "idle" /\ taker' = Null

\* A FOK order that cannot fill at once: no trade and no tick.
RejectFok ==
  /\ pc = "match_order"
  /\ order[taker].type = "FOK"
  /\ ~FokFillable(order[taker])
  /\ Forget(taker)
  /\ order' = [order EXCEPT ![taker] = DefaultOrder]
  /\ Done
  /\ UNCHANGED <<book, id_counter, tick, clock>>

StartMatching ==
  /\ pc = "match_order"
  /\ order[taker].type = "FOK" => FokFillable(order[taker])
  /\ pc' = "matching"
  /\ UNCHANGED <<free, order, order_map, book, id_counter, taker, tick, clock>>

\* The conditions of both matching loops, for match_against_asks and
\* match_against_bids alike.
CanMatch ==
  LET t == order[taker]
      s == Opposite(t.side)
  IN  /\ IsActive(t)
      /\ DOMAIN book[s] # {}
      /\ t.type = "LIMIT" => Crosses(t, BestPrice(book, s))

\* One pass of the inner loop: the taker trades with the head of the best
\* level, which leaves the book when it is exhausted.
Trade ==
  /\ pc = "matching"
  /\ CanMatch
  /\ LET t     == order[taker]
         s     == Opposite(t.side)
         px    == BestPrice(book, s)
         maker == Head(book[s][px].queue)
         m     == order[maker]
         qty   == IF Remaining(t) < Remaining(m) THEN Remaining(t) ELSE Remaining(m)
         level == TakeQty(book[s][px], qty)
     IN  IF qty = Remaining(m)
         THEN /\ book' = SetOrErase(book, s, px, Unlink(level, maker, Executed(m, qty)))
              /\ order' = [order EXCEPT ![taker] = Executed(t, qty), ![maker] = DefaultOrder]
              /\ Forget(maker)
         ELSE /\ book' = SetLevel(book, s, px, level)
              /\ order' = [order EXCEPT ![taker] = Executed(t, qty), ![maker] = Executed(m, qty)]
              /\ UNCHANGED <<free, order_map>>
  /\ UNCHANGED <<id_counter, pc, taker, tick, clock>>

\* After the loop, a filled taker: it stays in order_map_ and in the pool.
FinishFilled ==
  /\ pc = "matching"
  /\ ~IsActive(order[taker])
  /\ Done
  /\ UNCHANGED <<free, order, order_map, book, id_counter, clock>>
  /\ Publish

\* After the loop, what is left of a LIMIT order rests ...
RestResidual ==
  /\ pc = "matching"
  /\ ~CanMatch
  /\ IsActive(order[taker])
  /\ order[taker].type = "LIMIT"
  /\ book' = RestOrder(book, taker, order[taker])
  /\ clock' = clock + 1
  /\ order' = [order EXCEPT ![taker].rank = clock + 1]
  /\ Done
  /\ UNCHANGED <<free, order_map, id_counter>>
  /\ Publish

\* ... and what is left of any other order is cancelled.
CancelResidual ==
  /\ pc = "matching"
  /\ ~CanMatch
  /\ IsActive(order[taker])
  /\ order[taker].type # "LIMIT"
  /\ Forget(taker)
  /\ order' = [order EXCEPT ![taker] = DefaultOrder]
  /\ Done
  /\ UNCHANGED <<book, id_counter, clock>>
  /\ Publish

-----------------------------------------------------------------------------
(* cancel_order and amend_order.                                           *)

\* The early returns both calls share.
Known(id) == id \in DOMAIN order_map /\ IsActive(order[order_map[id]])

CancelOrder(id) ==
  /\ pc = "idle"
  /\ Known(id)
  /\ LET slot == order_map[id]
     IN  /\ book' = RemoveFromBook(book, slot, order[slot])
         /\ Forget(slot)
         /\ order' = [order EXCEPT ![slot] = DefaultOrder]
  /\ UNCHANGED <<id_counter, pc, taker, clock>>
  /\ Publish

\* More quantity: back of the queue.
AmendUp(id, quantity) ==
  /\ pc = "idle"
  /\ clock < MaxRank
  /\ Known(id)
  /\ LET slot == order_map[id]
         o    == order[slot]
     IN  /\ quantity > o.filled_qty
         /\ quantity > o.quantity
         /\ book' = RestOrder(RemoveFromBook(book, slot, o), slot,
                              [o EXCEPT !.quantity = quantity])
         /\ order' = [order EXCEPT ![slot].quantity = quantity, ![slot].rank = clock + 1]
  /\ clock' = clock + 1
  /\ UNCHANGED <<free, order_map, id_counter, pc, taker>>
  /\ Publish

\* Seeded fault: less quantity, and yet to the back of the queue.
AmendDownRequeues(id, quantity) ==
  /\ pc = "idle"
  /\ clock < MaxRank
  /\ Known(id)
  /\ LET slot == order_map[id]
         o    == order[slot]
     IN  /\ quantity > o.filled_qty
         /\ quantity <= o.quantity
         /\ book' = RestOrder(RemoveFromBook(book, slot, o), slot,
                              [o EXCEPT !.quantity = quantity])
         /\ order' = [order EXCEPT ![slot].quantity = quantity, ![slot].rank = clock + 1]
  /\ clock' = clock + 1
  /\ UNCHANGED <<free, order_map, id_counter, pc, taker>>
  /\ Publish

\* Not more quantity: in place.
AmendDown(id, quantity) ==
  /\ pc = "idle"
  /\ Known(id)
  /\ LET slot == order_map[id]
         o    == order[slot]
         b    == book[o.side]
     IN  /\ quantity > o.filled_qty
         /\ quantity <= o.quantity
         /\ book' = IF o.price \in DOMAIN b
                    THEN SetLevel(book, o.side, o.price,
                                  TakeQty(b[o.price], o.quantity - quantity))
                    ELSE book
         /\ order' = [order EXCEPT ![slot].quantity = quantity]
  /\ UNCHANGED <<free, order_map, id_counter, pc, taker, clock>>
  /\ Publish

\* cancel_order or amend_order returns false without a change.
RefuseChange(id, quantity) ==
  /\ pc = "idle"
  /\ Known(id) => quantity <= order[order_map[id]].filled_qty
  /\ UNCHANGED vars

-----------------------------------------------------------------------------
Matching ==
  \/ RejectFok \/ StartMatching \/ Trade
  \/ FinishFilled \/ RestResidual \/ CancelResidual

Call ==
  \/ \E side \in Side, type \in OrderType, price \in Prices, quantity \in Quantities :
       AddOrder(side, type, price, quantity)
  \/ \E type \in OrderType, price \in Prices, quantity \in Quantities :
       RefuseAdd(type, price, quantity)
  \/ \E id \in 0 .. id_counter :
       \/ CancelOrder(id)
       \/ \E quantity \in Quantities :
            AmendUp(id, quantity) \/ AmendDown(id, quantity) \/ RefuseChange(id, quantity)

Next == Matching \/ Call

\* The thread inside match_order keeps running; nobody has to call.
Spec == Init /\ [][Next]_vars /\ WF_vars(Matching)

-----------------------------------------------------------------------------
(* Properties.                                                             *)

\* The slots queued in the level of side s at price p, and all of them.
QueuedAt(s, p) == ToSet(book[s][p].queue)
Resting(s)     == UNION {QueuedAt(s, p) : p \in DOMAIN book[s]}
Booked         == UNION {Resting(s) : s \in Side}
Allocated      == {s \in Slot : order[s].id # 0}

\* What the orders in a set of slots have left, all together.
OpenIn(S) == SumFunction([m \in S |-> Remaining(order[m])])

\* Every variable has its type.
TypeOK ==
  /\ free \in Seq(Slot)
  /\ order \in [Slot -> Order]
  /\ DOMAIN order_map \subseteq 1 .. id_counter
  /\ order_map \in [DOMAIN order_map -> Slot]
  /\ book = [s \in Side |-> book[s]]
  /\ \A s \in Side : DOMAIN book[s] \subseteq Prices /\ book[s] \in [DOMAIN book[s] -> PriceLevel]
  /\ id_counter \in Nat /\ clock \in Nat
  /\ pc \in {"idle", "match_order", "matching"}
  /\ taker \in (IF pc = "idle" THEN {Null} ELSE Slot)
  /\ tick \in Tick

\* The book is never locked or crossed, not even between two trades of one
\* call: matching stops only when the prices no longer meet, and neither
\* resting, amending nor cancelling brings them together again.
NoCross ==
  \A b \in DOMAIN book["BID"], a \in DOMAIN book["ASK"] : b < a

\* The aggregates of a level, kept up by push_back, remove, execute_trade,
\* rest_order and amend_order each in its own way, always equal what the
\* level's queue adds up to (as a Quantity), and no empty level stays in the map.
LevelAggregates ==
  \A s \in Side : \A p \in DOMAIN book[s] :
    /\ book[s][p].queue # <<>>
    /\ book[s][p].order_count = Len(book[s][p].queue)
    /\ book[s][p].total_qty = OpenIn(QueuedAt(s, p)) % QtyMod

\* What a queue links to is a live order that belongs there: in its own
\* side's level of its own price, once, LIMIT, open, and in time order.
\* remove() with an order of another level would break the links.
QueuesAreSound ==
  \A s \in Side : \A p \in DOMAIN book[s] :
    LET q == book[s][p].queue
    IN  /\ \A i \in DOMAIN q :
             LET o == order[q[i]]
             IN  /\ o.id # 0 /\ o.side = s /\ o.price = p
                 /\ o.type = "LIMIT" /\ IsActive(o)
                 /\ 0 <= o.filled_qty /\ o.filled_qty < o.quantity
        /\ \A i, j \in DOMAIN q : i < j => order[q[i]].rank < order[q[j]].rank

\* No slot is lost or owned twice: the free list and the ids of order_map_
\* split the pool between them, and between two calls the open orders of
\* order_map_ are exactly the ones in the queues.
PoolIsPartitioned ==
  /\ \A i, j \in DOMAIN free : free[i] = free[j] => i = j
  /\ ToSet(free) = Slot \ Allocated
  /\ \A s \in Allocated : order[s].id \in DOMAIN order_map /\ order_map[order[s].id] = s
  /\ \A id \in DOMAIN order_map : order[order_map[id]].id = id
  /\ pc = "idle" => Booked = {s \in Allocated : IsActive(order[s])}

\* The last tick published shows the present top of the book whenever no
\* call is running: no change of the book goes unpublished.
TickIsCurrent == pc = "idle" => tick = TopOfBook(book)

\* FOK is all or nothing: once check_fok_fillable has let it in, the loop
\* never runs out of orders before it is filled, even though the check reads
\* the levels' aggregates, these may have wrapped, and the loop reads neither
\* them nor the FOK's price.
FokCompletes ==
  (pc = "matching" /\ order[taker].type = "FOK" /\ IsActive(order[taker])) => CanMatch

\* m goes before n: better price, or same price and earlier.
Precedes(m, n) ==
  LET o == order[m]
      u == order[n]
  IN  \/ Better(o.side, o.price, u.price)
      \/ o.price = u.price /\ o.rank < u.rank

\* The maker of a trade is the order with the best price, and the earliest at
\* that price, on the whole side.
PriceTimePriority ==
  [][ pc = "matching" =>
        \A m \in Booked : order'[m] # order[m] =>
          \A n \in Booked \ {m} : order[n].side = order[m].side => Precedes(m, n) ]_vars

\* A LIMIT and a FOK order never trade at a price beyond their own.  The loop
\* checks the price of LIMIT only; FOK relies on the check before it.
LimitRespected ==
  [][ (pc = "matching" /\ order[taker].type \in {"LIMIT", "FOK"}) =>
        \A m \in Booked : order'[m] # order[m] => Crosses(order[taker], order[m].price) ]_vars

\* An order loses its place only by its own amend_order to a larger quantity:
\* of two orders that stay in a queue the first stays first.
PlaceIsKept ==
  [][ \A s \in Side : \A p \in DOMAIN book[s] \cap DOMAIN book'[s] :
        LET q  == book[s][p].queue
            q2 == book'[s][p].queue
        IN  \A i, j \in DOMAIN q :
              (i < j /\ q[i] \in ToSet(q2) /\ q[j] \in ToSet(q2)
                 /\ order'[q[i]].quantity <= order[q[i]].quantity)
              => PositionIn(q2, q[i]) < PositionIn(q2, q[j]) ]_vars

\* What the opposite side can really fill of o within its price.
Liquidity(o) ==
  OpenIn({m \in Resting(Opposite(o.side)) : Crosses(o, order[m].price)})

\* order_book.hpp:69 of a FOK order: "checks full fillability before touching
\* the book; rejects if not".  It is rejected only if it could not be filled.
FokRejectedOnlyIfShort ==
  [][ (pc = "match_order" /\ pc' = "idle") =>
        Liquidity(order[taker]) < order[taker].quantity ]_vars

\* Every add_order returns: the matching loops end.
MatchingEnds == pc # "idle" ~> pc = "idle"

\* order_book.cpp:137: "Price check: bid must cross the ask".  Of an IOC order.
IocRespectsItsPrice ==
  [][ (pc = "matching" /\ order[taker].type = "IOC") =>
        \A m \in Booked : order'[m] # order[m] => Crosses(order[taker], order[m].price) ]_vars

\* main.cpp:303 prints order_count() as "Remaining orders": what order_map_
\* holds between two calls is still open.
OrderCountIsOpenOrders ==
  pc = "idle" => \A id \in DOMAIN order_map : IsActive(order[order_map[id]])

-----------------------------------------------------------------------------
(* The promise this module keeps: the resting orders of Clob are those the  *)
(* queues link to, its incoming order is the taker.                        *)

Shown(o) ==
  [id |-> o.id, side |-> o.side, price |-> o.price, open |-> Remaining(o), rank |-> o.rank]

Arriving(o, admitted) ==
  [id |-> o.id, side |-> o.side, type |-> o.type, price |-> o.price,
   open |-> Remaining(o), admitted |-> admitted]

RestingOrders  == {Shown(order[m]) : m \in Booked}
IncomingOrders == IF taker = Null THEN {} ELSE {Arriving(order[taker], pc = "matching")}

Promise == INSTANCE Clob WITH
  resting <- RestingOrders, incoming <- IncomingOrders, lastId <- id_counter, time <- clock,
  Width <- QtyMod

\* Levels, aggregates, queues, pool and lookup table together behave as one
\* set of orders served in price-time order, with FOK all or nothing; it is
\* turned away in error only where the sums of its check may wrap.
ImplementsClob == Promise!Spec

Pool == INSTANCE SlotPool WITH Slots <- Capacity

\* The book asks of its pool what the pool promises: slots are taken from the
\* top, only while they are free, and each is given back once, on top.
UsesSlotPool == Pool!Spec

=============================================================================
