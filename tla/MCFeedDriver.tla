----------------------------- MODULE MCFeedDriver -----------------------------
(* The driver of the feed with few ticks and a small ring.                 *)
EXTENDS FeedDriver
=============================================================================
