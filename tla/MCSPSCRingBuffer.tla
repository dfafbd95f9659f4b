--------------------------- MODULE MCSPSCRingBuffer ---------------------------
(* The ring buffer on small instances.                                     *)
EXTENDS SPSCRingBuffer
=============================================================================
