----------------------------- MODULE MCOrderBook -----------------------------
(* The order book on small instances.                                      *)
EXTENDS OrderBook
=============================================================================
