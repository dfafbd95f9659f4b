---------------------------- MODULE SPSCRingBuffer ----------------------------
(***************************************************************************)
(* The ring buffer between one producer and one consumer thread            *)
(* (spsc_ring_buffer.hpp), with a third thread that asks for its size.     *)
(*                                                                         *)
(* Memory.  An atomic index is its modification order: the sequence of the *)
(* values it has held, the last one being its present value.  The thread   *)
(* that writes an index reads the last one.  The other thread reads the    *)
(* one its view has reached; views move forward by themselves and may lag  *)
(* behind for any time, so a load may return any value not older than the  *)
(* ones the thread has read before.  Store and load are release and        *)
(* acquire: who reads an index has the writer's slot accesses before it.   *)
(* A slot is plain memory: its accesses take time, between the step that   *)
(* decides on one and the step that makes it.                              *)
(***************************************************************************)
EXTENDS Integers, Sequences, SequencesExt

CONSTANTS
  Capacity,   \* the size of the ring, a power of two
  Values,     \* what the producer pushes
  Nothing,    \* not a value: what a slot holds before it is first written
  MaxPush     \* bound: how many pushes succeed

ASSUME RingAssumption ==
  /\ Capacity \in Nat
  /\ \E k \in 1 .. Capacity : Capacity = 2 ^ k
  /\ MaxPush \in Nat
  /\ Nothing \notin Values

VARIABLES
  head,      \* modification order of head_, written by push
  tail,      \* modification order of tail_, written by pop
  buffer,    \* buffer_
  headSeen,  \* the consumer's view: position in head
  tailSeen,  \* the producer's view: position in tail
  producer,  \* [pc, item]: the producer's running push and its argument
  consumer,  \* [pc, item]: the consumer's running pop or peek and what it read
  monitor,   \* [pc, h, size]: the third thread's size_approx
  sent,      \* history: the items push returned true for
  received,  \* history: the items pop returned
  sizes      \* history: how many items were inside during size_approx

vars == <<head, tail, buffer, headSeen, tailSeen, producer, consumer, monitor,
          sent, received, sizes>>

Index == 0 .. Capacity - 1

\* Seeded fault: the index is not masked.
FollowingUnmasked(i) == i + 1

\* (i + 1) & MASK
Following(i) == (i + 1) % Capacity

\* The slot the next push writes, and the one the next pop reads.
WriteSlot == Last(head)
ReadSlot  == Last(tail)

Inside == Len(sent) - Len(received)

\* History of size_approx: note every size there was between its two loads.
NoteSize == sizes' = IF monitor.pc = "load_tail" THEN sizes \cup {Inside'} ELSE sizes

Init ==
  /\ head = <<0>> /\ tail = <<0>>
  /\ buffer = [i \in Index |-> Nothing]
  /\ headSeen = 1 /\ tailSeen = 1
  /\ producer = [pc |-> "idle", item |-> Nothing]
  /\ consumer = [pc |-> "idle", item |-> Nothing]
  /\ monitor = [pc |-> "idle", h |-> 0, size |-> 0]
  /\ sent = <<>> /\ received = <<>> /\ sizes = {}

-----------------------------------------------------------------------------
(* push, by the producer thread.                                           *)

\* Seeded faults: the spare slot is used too; tail_ is read once and for all.
FullWithoutSpare == Len(head) - tailSeen >= Capacity
FullToTheFirst   == Following(WriteSlot) = tail[1]

FullToProducer == Following(WriteSlot) = tail[tailSeen]

PushRefused ==
  /\ producer.pc = "idle"
  /\ FullToProducer
  /\ UNCHANGED vars

PushCheck(item) ==
  /\ producer.pc = "idle"
  /\ Len(sent) < MaxPush
  /\ ~FullToProducer
  /\ producer' = [pc |-> "write", item |-> item]
  /\ UNCHANGED <<head, tail, buffer, headSeen, tailSeen, consumer, monitor, sent, received, sizes>>

\* Seeded fault: next_h in place of h.
PushWriteAhead ==
  /\ producer.pc = "write"
  /\ buffer' = [buffer EXCEPT ![Following(WriteSlot)] = producer.item]
  /\ producer' = [producer EXCEPT !.pc = "store"]
  /\ UNCHANGED <<head, tail, headSeen, tailSeen, consumer, monitor, sent, received, sizes>>

PushWrite ==
  /\ producer.pc = "write"
  /\ buffer' = [buffer EXCEPT ![WriteSlot] = producer.item]
  /\ producer' = [producer EXCEPT !.pc = "store"]
  /\ UNCHANGED <<head, tail, headSeen, tailSeen, consumer, monitor, sent, received, sizes>>

PushStore ==
  /\ producer.pc = "store"
  /\ head' = Append(head, Following(WriteSlot))
  /\ sent' = Append(sent, producer.item)
  /\ producer' = [pc |-> "idle", item |-> Nothing]
  /\ UNCHANGED <<tail, buffer, headSeen, tailSeen, consumer, monitor, received>>
  /\ NoteSize

-----------------------------------------------------------------------------
(* pop and peek, by the consumer thread.                                   *)

\* Seeded fault: a store is counted on before it is acquired.
EmptyByCount == Inside = 0

EmptyToConsumer == ReadSlot = head[headSeen]

\* pop without an item, peek without a pointer.
PopRefused ==
  /\ consumer.pc = "idle"
  /\ EmptyToConsumer
  /\ UNCHANGED vars

PopCheck ==
  /\ consumer.pc = "idle"
  /\ ~EmptyToConsumer
  /\ consumer' = [consumer EXCEPT !.pc = "read"]
  /\ UNCHANGED <<head, tail, buffer, headSeen, tailSeen, producer, monitor, sent, received, sizes>>

PopRead ==
  /\ consumer.pc = "read"
  /\ consumer' = [pc |-> "store", item |-> buffer[ReadSlot]]
  /\ UNCHANGED <<head, tail, buffer, headSeen, tailSeen, producer, monitor, sent, received, sizes>>

PopStore ==
  /\ consumer.pc = "store"
  /\ tail' = Append(tail, Following(ReadSlot))
  /\ received' = Append(received, consumer.item)
  /\ consumer' = [pc |-> "idle", item |-> Nothing]
  /\ UNCHANGED <<head, buffer, headSeen, tailSeen, producer, monitor, sent>>
  /\ NoteSize

\* peek returns a pointer into the ring ...
Peek ==
  /\ consumer.pc = "idle"
  /\ ~EmptyToConsumer
  /\ consumer' = [consumer EXCEPT !.pc = "peek"]
  /\ UNCHANGED <<head, tail, buffer, headSeen, tailSeen, producer, monitor, sent, received, sizes>>

\* ... which the consumer reads through until it is done with it.
PeekDone ==
  /\ consumer.pc = "peek"
  /\ consumer' = [consumer EXCEPT !.pc = "idle"]
  /\ UNCHANGED <<head, tail, buffer, headSeen, tailSeen, producer, monitor, sent, received, sizes>>

-----------------------------------------------------------------------------
(* size_approx, by a third thread.                                         *)

SizeLoadHead ==
  /\ monitor.pc = "idle"
  /\ monitor' = [pc |-> "load_tail", h |-> Last(head), size |-> 0]
  /\ sizes' = {Inside}
  /\ UNCHANGED <<head, tail, buffer, headSeen, tailSeen, producer, consumer, sent, received>>

SizeLoadTail ==
  /\ monitor.pc = "load_tail"
  /\ monitor' = [pc |-> "done", h |-> 0,
                 size |-> (monitor.h - Last(tail) + Capacity) % Capacity]
  /\ UNCHANGED <<head, tail, buffer, headSeen, tailSeen, producer, consumer, sent, received, sizes>>

SizeReturned ==
  /\ monitor.pc = "done"
  /\ monitor' = [pc |-> "idle", h |-> 0, size |-> 0]
  /\ sizes' = {}
  /\ UNCHANGED <<head, tail, buffer, headSeen, tailSeen, producer, consumer, sent, received>>

-----------------------------------------------------------------------------
(* A store reaches the other thread.                                       *)

SeeHead ==
  /\ headSeen < Len(head)
  /\ headSeen' = headSeen + 1
  /\ UNCHANGED <<head, tail, buffer, tailSeen, producer, consumer, monitor, sent, received, sizes>>

SeeTail ==
  /\ tailSeen < Len(tail)
  /\ tailSeen' = tailSeen + 1
  /\ UNCHANGED <<head, tail, buffer, headSeen, producer, consumer, monitor, sent, received, sizes>>

Push == PushWrite \/ PushStore \/ \E item \in Values : PushCheck(item)
Pop  == PopCheck \/ PopRead \/ PopStore
Size == SizeLoadHead \/ SizeLoadTail \/ SizeReturned

Next == Push \/ PushRefused \/ Pop \/ PopRefused \/ Peek \/ PeekDone \/ Size
          \/ SeeHead \/ SeeTail

\* Both threads keep running and call again when they are refused, as the
\* loops of main.cpp do; a store becomes visible in finite time.  SF for pop:
\* a consumer may peek any number of times, but in the end it pops.
Spec ==
  /\ Init /\ [][Next]_vars
  /\ WF_vars(Push) /\ SF_vars(Pop) /\ WF_vars(PeekDone)
  /\ WF_vars(SeeHead) /\ WF_vars(SeeTail)

-----------------------------------------------------------------------------
(* Properties.                                                             *)

\* Every variable has its type.
TypeOK ==
  /\ head \in Seq(Index) /\ head # <<>>
  /\ tail \in Seq(Index) /\ tail # <<>>
  /\ buffer \in [Index -> Values \cup {Nothing}]
  /\ headSeen \in 1 .. Len(head) /\ tailSeen \in 1 .. Len(tail)
  /\ producer \in [pc : {"idle", "write", "store"}, item : Values \cup {Nothing}]
  /\ consumer \in [pc : {"idle", "read", "store", "peek"}, item : Values \cup {Nothing}]
  /\ monitor \in [pc : {"idle", "load_tail", "done"}, h : Index, size : Index]
  /\ sent \in Seq(Values) /\ received \in Seq(Values)

\* The threads are never in one slot at the same time, and do not rely on luck
\* for that: before the producer writes a slot again it has read a tail_ stored
\* after the slot was emptied, and before the consumer reads a slot it has read
\* a head_ stored after it was filled.
NoDataRace ==
  /\ (producer.pc = "write" /\ consumer.pc \in {"read", "peek"}) => WriteSlot # ReadSlot
  /\ producer.pc = "write" => Len(head) - tailSeen < Capacity
  /\ consumer.pc \in {"read", "peek"} => Len(tail) < headSeen

\* What pop returns is what push was given: nothing lost, repeated or out of
\* order; and what peek points to is what the next pop returns.
FirstInFirstOut ==
  /\ IsPrefix(received, sent)
  /\ consumer.pc = "store" => consumer.item = sent[Len(received) + 1]
  /\ consumer.pc = "peek"  => buffer[ReadSlot] = sent[Len(received) + 1]

\* What the third thread computes is at most one off a size that the ring had
\* during the call.  spsc_ring_buffer.hpp:123, "Approximate size (may be stale
\* by 1 across threads)".
SizeIsOffByOneAtMost ==
  monitor.pc = "done" =>
    \E n \in sizes : monitor.size - n \in -1 .. 1

\* A producer that keeps trying is let in, until it has pushed all it has, and
\* a consumer that keeps trying gets it all.
EverythingGetsThrough == <>(Len(received) = MaxPush)

View == INSTANCE LaggingFifo WITH
  Bound  <- Capacity - 1,
  q      <- SubSeq(sent, Len(received) + 1, Len(sent)),
  seen   <- headSeen - Len(tail),
  unseen <- Len(tail) - tailSeen

\* To its two threads, with what they have not yet seen, it is a queue of
\* Capacity - 1 items, one slot being left empty: the one the feed is built on.
ImplementsView == View!Spec

=============================================================================
