--------------------------- MODULE MCMarketDataFeed ---------------------------
(* The market data feed on small instances.                                *)
EXTENDS MarketDataFeed
=============================================================================
