-------------------------------- MODULE Clob --------------------------------
(***************************************************************************)
(* What class OrderBook promises its callers: a central limit order book   *)
(* with price-time priority, as one set of resting orders.  There are no   *)
(* price levels, aggregates, queues, pool slots, statuses or lookup table  *)
(* here; module OrderBook, which has them all, implements this one.        *)
(***************************************************************************)
EXTENDS Integers, FiniteSetsExt

CONSTANTS
  Prices,      \* the prices callers use
  Quantities,  \* the quantities callers use
  Width        \* one more than the largest number a Quantity holds

VARIABLES
  resting,   \* the orders of the book: [id, side, price, open, rank]
  incoming,  \* the order being matched, as a set of at most one:
             \* [id, side, type, price, open, admitted]
  lastId,    \* ids are handed out in order
  time       \* how many times an order has joined the back of a queue

cvars == <<resting, incoming, lastId, time>>

Side      == {"BID", "ASK"}
OrderType == {"LIMIT", "MARKET", "IOC", "FOK"}

Better(s, p, q) == IF s = "BID" THEN p > q ELSE p < q

\* The orders o would meet, and those of them within its price.
Facing(o)      == {m \in resting : m.side # o.side}
WithinPrice(o) == {m \in Facing(o) : ~Better(o.side, m.price, o.price)}

\* The orders o may trade with.  Only a LIMIT order looks at its price here:
\* the liquidity check keeps a FOK within it, and IOC trades like MARKET.
Makers(o) == IF o.type = "LIMIT" THEN WithinPrice(o) ELSE Facing(o)

Precedes(m, n) == Better(m.side, m.price, n.price) \/ (m.price = n.price /\ m.rank < n.rank)

Init == resting = {} /\ incoming = {} /\ lastId = 0 /\ time = 0

Submit(side, type, price, quantity) ==
  /\ incoming = {}
  /\ quantity > 0
  /\ type = "LIMIT" => price > 0
  /\ lastId' = lastId + 1
  /\ incoming' = {[id |-> lastId + 1, side |-> side, type |-> type, price |-> price,
                   open |-> quantity, admitted |-> FALSE]}
  /\ UNCHANGED <<resting, time>>

\* What o could trade within its price.
Liquidity(o) == SumFunction([m \in WithinPrice(o) |-> m.open])

\* A FOK order comes in only if it can be filled at once ...
Admit(o) ==
  /\ ~o.admitted
  /\ o.type = "FOK" => Liquidity(o) >= o.open
  /\ incoming' = {[o EXCEPT !.admitted = TRUE]}
  /\ UNCHANGED <<resting, lastId, time>>

\* ... and is turned away only if it cannot, or if there is more than the book
\* can count.
Reject(o) ==
  /\ ~o.admitted
  /\ o.type = "FOK"
  /\ Liquidity(o) < o.open \/ Liquidity(o) >= Width
  /\ incoming' = {}
  /\ UNCHANGED <<resting, lastId, time>>

\* A trade with the order that precedes all others; an order that is used up
\* is gone.
Fill(o) ==
  /\ o.admitted /\ o.open > 0
  /\ \E m \in Makers(o) :
       LET qty == IF o.open < m.open THEN o.open ELSE m.open
       IN  /\ \A n \in Makers(o) \ {m} : Precedes(m, n)
           /\ incoming' = {[o EXCEPT !.open = @ - qty]}
           /\ resting' = (resting \ {m}) \cup
                (IF qty = m.open THEN {} ELSE {[m EXCEPT !.open = @ - qty]})
  /\ UNCHANGED <<lastId, time>>

Complete(o) ==
  /\ o.admitted /\ o.open = 0
  /\ incoming' = {}
  /\ UNCHANGED <<resting, lastId, time>>

Rest(o) ==
  /\ o.admitted /\ o.open > 0
  /\ o.type = "LIMIT" /\ Makers(o) = {}
  /\ incoming' = {}
  /\ time' = time + 1
  /\ resting' = resting \cup {[id |-> o.id, side |-> o.side, price |-> o.price,
                               open |-> o.open, rank |-> time + 1]}
  /\ UNCHANGED lastId

\* Never a FOK: one that was admitted fills.
Discard(o) ==
  /\ o.admitted /\ o.open > 0
  /\ o.type \in {"MARKET", "IOC"} /\ Makers(o) = {}
  /\ incoming' = {}
  /\ UNCHANGED <<resting, lastId, time>>

Cancel(m) ==
  /\ incoming = {}
  /\ resting' = resting \ {m}
  /\ UNCHANGED <<incoming, lastId, time>>

\* More: the order goes to the back of the queue.  Less: it keeps its place.
Amend(m, open) ==
  /\ incoming = {}
  /\ time' = IF open > m.open THEN time + 1 ELSE time
  /\ resting' = (resting \ {m}) \cup
       {[m EXCEPT !.open = open, !.rank = IF open > m.open THEN time + 1 ELSE @]}
  /\ UNCHANGED <<incoming, lastId>>

Next ==
  \/ \E side \in Side, type \in OrderType, price \in Prices, quantity \in Quantities :
       Submit(side, type, price, quantity)
  \/ \E o \in incoming :
       Admit(o) \/ Reject(o) \/ Fill(o) \/ Complete(o) \/ Rest(o) \/ Discard(o)
  \* Of the new quantity a part may be filled already.
  \/ \E m \in resting :
       Cancel(m) \/ \E quantity \in Quantities : \E open \in 1 .. quantity : Amend(m, open)

\* An order that came in is dealt with.
Spec == Init /\ [][Next]_cvars /\ WF_cvars(\E o \in incoming :
          Admit(o) \/ Reject(o) \/ Fill(o) \/ Complete(o) \/ Rest(o) \/ Discard(o))

=============================================================================
