-------------------------- MODULE MCOrderBookReports --------------------------
(* The order book and its reports on small instances.                      *)
EXTENDS OrderBookReports
=============================================================================
