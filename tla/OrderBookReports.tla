--------------------------- MODULE OrderBookReports ---------------------------
(***************************************************************************)
(* What the book tells its callers: the trades and ticks of the two        *)
(* callbacks, the statistics, the queries, and the id that add_order       *)
(* returns.                                                                *)
(*                                                                         *)
(* add_order reads that id from the order after match_order, when the      *)
(* order may be gone and its slot have another owner: the handler of the   *)
(* tick runs in between, and it may call the book, whose state is          *)
(* consistent by then.  MaxCalls says how deep.  The handler of a trade    *)
(* runs in the middle of the loop; here it only takes note of the trade.   *)
(***************************************************************************)
EXTENDS OrderBook

CONSTANT MaxCalls  \* how many calls of add_order may run inside each other

ASSUME ReportsAssumption == MaxCalls \in Nat \ {0}

VARIABLES
  last_trade,  \* last_trade_px_ and last_trade_qty_
  shown,       \* the last trade, as the last tick showed it
  stats,       \* stats_
  calls,       \* the running calls of add_order, innermost first: [slot, id, published,
               \* added], with the ids handed out inside in added
  stored,      \* the id in the memory of each slot, also of one that is free
  returned,    \* [id, own, added]: what add_order returned last, its order's id, and
               \* the ids handed out inside the call
  tape,        \* history: the trades on_trade_ was called with
  asked        \* history: what was ordered, less what was withdrawn

reports == <<last_trade, shown, stats, calls, stored, returned, tape, asked>>
rvars   == <<vars, reports>>

NoTrade  == [px |-> 0, qty |-> 0]
NoReturn == [id |-> 0, own |-> 0, added |-> {}]

ReportsInit ==
  /\ Init
  /\ last_trade = NoTrade /\ shown = NoTrade
  /\ stats = [total_trades |-> 0, total_volume |-> 0, orders_added |-> 0, orders_cancelled |-> 0]
  /\ calls = <<>>
  /\ stored = [s \in Slot |-> 0]
  /\ returned = NoReturn
  /\ tape = <<>>
  /\ asked = 0

\* Between two calls, or in the handler of a tick.
MayCall == calls # <<>> => Head(calls).published

-----------------------------------------------------------------------------
(* add_order.                                                              *)

Add ==
  /\ MayCall /\ Len(calls) < MaxCalls
  /\ \E side \in Side, type \in OrderType, price \in Prices, quantity \in Quantities :
       /\ AddOrder(side, type, price, quantity)
       /\ asked' = asked + quantity
  /\ calls' = <<[slot |-> taker', id |-> id_counter', published |-> FALSE, added |-> {}]>>
                \o [i \in DOMAIN calls |-> [calls[i] EXCEPT !.added = @ \cup {id_counter'}]]
  /\ stored' = [stored EXCEPT ![taker'] = id_counter']
  /\ stats' = [stats EXCEPT !.orders_added = @ + 1]
  /\ UNCHANGED <<last_trade, shown, returned, tape>>

\* Seeded fault: the maker is reported to have traded all it had.
ThisTradeInFull ==
  LET s     == Opposite(order[taker].side)
      px    == BestPrice(book, s)
      maker == order[Head(book[s][px].queue)]
  IN  [maker_order_id |-> maker.id, taker_order_id |-> order[taker].id, price |-> px,
       quantity |-> Remaining(maker)]

\* The Trade that the pass of the loop reports.
ThisTrade ==
  LET s     == Opposite(order[taker].side)
      px    == BestPrice(book, s)
      maker == order[Head(book[s][px].queue)]
  IN  [maker_order_id |-> maker.id, taker_order_id |-> order[taker].id, price |-> px,
       quantity |-> order'[taker].filled_qty - order[taker].filled_qty]

ReportTrade ==
  /\ Trade
  /\ tape' = Append(tape, ThisTrade)
  /\ last_trade' = [px |-> ThisTrade.price, qty |-> ThisTrade.quantity]
  /\ stats' = [stats EXCEPT !.total_trades = @ + 1, !.total_volume = @ + ThisTrade.quantity]
  /\ UNCHANGED <<shown, calls, stored, returned, asked>>

\* Seeded fault: the members are set after the tick is built.
TellBefore == shown' = shown

\* The tick carries the last trade.
Tell == shown' = last_trade

\* The end of match_order, with its tick.
Finish ==
  /\ \/ FinishFilled /\ asked' = asked
     \/ RestResidual /\ asked' = asked
     \/ CancelResidual /\ asked' = asked - Remaining(order[taker])
  /\ Tell
  /\ calls' = [calls EXCEPT ![1].published = TRUE]
  /\ UNCHANGED <<last_trade, stats, stored, returned, tape>>

\* A FOK order is rejected without a tick.
Reject ==
  /\ RejectFok
  /\ asked' = asked - order[taker].quantity
  /\ UNCHANGED <<last_trade, shown, stats, calls, stored, returned, tape>>

\* Seeded fault: the order is looked up again.
IdLookedUp == IF Head(calls).id \in DOMAIN order_map THEN Head(calls).id ELSE 0

\* o->id
IdInSlot == stored[Head(calls).slot]

ReturnId ==
  /\ pc = "idle" /\ calls # <<>>
  /\ returned' = [id |-> IdInSlot, own |-> Head(calls).id, added |-> Head(calls).added]
  /\ calls' = Tail(calls)
  /\ UNCHANGED <<vars, last_trade, shown, stats, stored, tape, asked>>

-----------------------------------------------------------------------------
(* The other calls.                                                        *)

\* Seeded fault: the volume of a cancelled order counts as traded.
CancelCountsVolume(id) ==
  /\ MayCall
  /\ CancelOrder(id)
  /\ Tell
  /\ stats' = [stats EXCEPT !.orders_cancelled = @ + 1,
                            !.total_volume = @ + Remaining(order[order_map[id]])]
  /\ asked' = asked - Remaining(order[order_map[id]])
  /\ UNCHANGED <<last_trade, calls, stored, returned, tape>>

Cancel(id) ==
  /\ MayCall
  /\ CancelOrder(id)
  /\ Tell
  /\ stats' = [stats EXCEPT !.orders_cancelled = @ + 1]
  /\ asked' = asked - Remaining(order[order_map[id]])
  /\ UNCHANGED <<last_trade, calls, stored, returned, tape>>

Amend(id, quantity) ==
  /\ MayCall
  /\ AmendUp(id, quantity) \/ AmendDown(id, quantity)
  /\ Tell
  /\ asked' = asked + quantity - order[order_map[id]].quantity
  /\ UNCHANGED <<last_trade, stats, calls, stored, returned, tape>>

\* A call that is refused: add_order returns 0, the others false.
Refuse ==
  /\ MayCall
  /\ \/ /\ \E type \in OrderType, price \in Prices, quantity \in Quantities :
             RefuseAdd(type, price, quantity)
        /\ returned' = NoReturn
     \/ /\ \E id \in 0 .. id_counter, quantity \in Quantities : RefuseChange(id, quantity)
        /\ returned' = returned
  /\ UNCHANGED <<last_trade, shown, stats, calls, stored, tape, asked>>

ReportsNext ==
  \/ Add \/ ReportTrade \/ Finish \/ Reject \/ ReturnId \/ Refuse
  \/ StartMatching /\ UNCHANGED reports
  \/ \E id \in 0 .. id_counter :
       Cancel(id) \/ \E quantity \in Quantities : Amend(id, quantity)

ReportsSpec == ReportsInit /\ [][ReportsNext]_rvars

-----------------------------------------------------------------------------
(* The queries.                                                            *)

HasLevels(s) == DOMAIN book[s] # {}

Best(s) ==
  IF HasLevels(s) THEN BestPrice(book, s) ELSE IF s = "BID" THEN 0 ELSE MaxPrice

BestQty(s) == IF HasLevels(s) THEN book[s][BestPrice(book, s)].total_qty ELSE 0

Spread == IF HasLevels("BID") /\ HasLevels("ASK") THEN Best("ASK") - Best("BID") ELSE 0

OrderCount == Cardinality(DOMAIN order_map)

\* The price of the i-th level that an iteration over the side s meets: i - 1
\* come before it.
PriceAt(s, i) ==
  CHOOSE p \in DOMAIN book[s] : Cardinality({q \in DOMAIN book[s] : Better(s, q, p)}) = i - 1

\* A DepthEntry.
Entry(s, p) ==
  [price |-> p, qty |-> book[s][p].total_qty, order_cnt |-> book[s][p].order_count]

\* Seeded fault: the last level that fits is left out.
DepthOneShort(s, levels) ==
  LET held == Cardinality(DOMAIN book[s])
  IN  [i \in 1 .. (IF held < levels THEN held ELSE levels - 1) |-> Entry(s, PriceAt(s, i))]

\* bid_depth and ask_depth: at most so many levels, best first.
Depth(s, levels) ==
  LET held == Cardinality(DOMAIN book[s])
  IN  [i \in 1 .. (IF held < levels THEN held ELSE levels) |-> Entry(s, PriceAt(s, i))]

-----------------------------------------------------------------------------
(* Properties.                                                             *)

\* Nothing is traded that was not ordered, and nothing is lost: what callers
\* ordered and did not withdraw is open in some order or was traded, and each
\* unit of total_volume took one from two orders.
VolumeIsConserved ==
  asked = 2 * stats.total_volume + OpenIn(Allocated)

\* The trades on the tape that name the order id.
Naming(id) ==
  {i \in DOMAIN tape : id \in {tape[i].maker_order_id, tape[i].taker_order_id}}

\* An order's filled quantity is what the trades on the tape name it for, as
\* maker and as taker, whichever slot it is in and whoever had it before.
FillsAreOnTheTape ==
  \A s \in Allocated :
    order[s].filled_qty =
      SumFunction([i \in Naming(order[s].id) |-> tape[i].quantity])

\* "Submit a new order. Returns its assigned OrderId" (order_book.hpp:93),
\* also if the order was destroyed on the way.  The one exception: a handler
\* that adds orders inside the call may hand its slot on, and add_order then
\* returns the id of one of those.
AddReturnsItsId == returned.id \in {returned.own} \cup returned.added

\* The snapshot of the whole depth accounts for all that is open, each level
\* once and best first, its first entry is the top of the book, and the spread
\* is positive when there is one.
QueriesShowTheBook ==
  pc = "idle" =>
    /\ \A s \in Side :
         LET all  == Depth(s, Cardinality(Prices))
             open == {m \in Allocated : order[m].side = s /\ IsActive(order[m])}
         IN  /\ SumFunction([i \in DOMAIN all |-> all[i].order_cnt]) = Cardinality(open)
             /\ SumFunction([i \in DOMAIN all |-> all[i].qty]) % QtyMod
                  = OpenIn(open) % QtyMod
             /\ \A i, j \in DOMAIN all : i < j => Better(s, all[i].price, all[j].price)
             /\ all # <<>> => all[1].price = Best(s) /\ all[1].qty = BestQty(s)
    /\ (HasLevels("BID") /\ HasLevels("ASK")) <=> Spread > 0
    /\ OrderCount = Cardinality(Allocated)

=============================================================================
