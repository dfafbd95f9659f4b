----------------------------- MODULE MCPriceLevel -----------------------------
(* Two price levels and a few orders.                                      *)
EXTENDS PriceLevel
=============================================================================
