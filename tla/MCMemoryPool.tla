----------------------------- MODULE MCMemoryPool -----------------------------
(* The memory pool on small instances.                                     *)
EXTENDS MemoryPool
=============================================================================
