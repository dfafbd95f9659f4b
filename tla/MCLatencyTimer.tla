---------------------------- MODULE MCLatencyTimer ----------------------------
(* The latency timer with few different latencies.                         *)
EXTENDS LatencyTimer
=============================================================================
