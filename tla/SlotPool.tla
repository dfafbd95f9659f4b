------------------------------- MODULE SlotPool -------------------------------
(***************************************************************************)
(* What a pool of slots promises: a slot is handed out only while it is    *)
(* free, the slot given back last is the next one handed out, and none is  *)
(* given back twice.                                                       *)
(***************************************************************************)
EXTENDS Integers, Sequences, SequencesExt

CONSTANT Slots   \* how many slots there are

VARIABLE free    \* the free slots, next one first

Init == free = [i \in 1 .. Slots |-> i - 1]

Take == free # <<>> /\ free' = Tail(free)

Give(s) == s \notin ToSet(free) /\ free' = <<s>> \o free

Next == Take \/ \E s \in 0 .. Slots - 1 : Give(s)

Spec == Init /\ [][Next]_free

=============================================================================
