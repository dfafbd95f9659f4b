----------------------------- MODULE LaggingFifo -----------------------------
(***************************************************************************)
(* What the ring looks like to the two threads that use it: a queue of     *)
(* which the consumer sees the front part only, and whose emptied places   *)
(* the producer takes for full a little longer.  The ring implements it,   *)
(* and the feed is built on it.                                            *)
(***************************************************************************)
EXTENDS Integers, Sequences

CONSTANTS
  Values,   \* what the producer puts in
  Bound     \* how many items fit

VARIABLES
  q,      \* the items inside, oldest first
  seen,   \* how many of them the consumer sees
  unseen  \* how many empty places the producer takes for full

lvars == <<q, seen, unseen>>

Init == q = <<>> /\ seen = 0 /\ unseen = 0

\* To the producer it is full, to the consumer it is empty.
LooksFull  == Len(q) + unseen >= Bound
LooksEmpty == seen = 0

Put(v) ==
  /\ ~LooksFull
  /\ q' = Append(q, v)
  /\ UNCHANGED <<seen, unseen>>

Take ==
  /\ ~LooksEmpty
  /\ q' = Tail(q)
  /\ seen' = seen - 1
  /\ unseen' = unseen + 1

SeeItem ==
  /\ seen < Len(q)
  /\ seen' = seen + 1
  /\ UNCHANGED <<q, unseen>>

SeeRoom ==
  /\ unseen > 0
  /\ unseen' = unseen - 1
  /\ UNCHANGED <<q, seen>>

Next == Take \/ SeeItem \/ SeeRoom \/ \E v \in Values : Put(v)

\* Each side gets to know in the end what the other has done.
Spec == Init /\ [][Next]_lvars /\ WF_lvars(SeeItem) /\ WF_lvars(SeeRoom)

=============================================================================
