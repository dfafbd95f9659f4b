------------------------- MODULE SPSCRingBufferProofs -------------------------
(***************************************************************************)
(* What holds of the ring for every capacity, every set of values and any  *)
(* number of pushes.                                                       *)
(***************************************************************************)
EXTENDS SPSCRingBuffer, Arithmetic, SequenceTheorems

-----------------------------------------------------------------------------
(* Where an item is.                                                       *)

\* The slot of the i-th item.
SlotOf(i) == (i - 1) % Capacity

\* A ring has a slot.
LEMMA CapacityIsPositive == Capacity \in Nat \ {0}
<1>1. Capacity \in Nat
  BY RingAssumption
<1>2. PICK k \in 1 .. Capacity : TRUE
  BY RingAssumption, Zenon
<1>. QED
  BY <1>1, <1>2

\* Slots follow each other as the items do.
LEMMA SlotsFollow ==
  ASSUME NEW i \in Int
  PROVE  SlotOf(i) \in Index /\ Following(SlotOf(i)) = SlotOf(i + 1)
<1>1. (i - 1) % Capacity \in 0 .. Capacity - 1
  BY CapacityIsPositive, Parts
<1>2. (((i - 1) % Capacity) + 1) % Capacity = ((i - 1) + 1) % Capacity
  <2>. DEFINE a == i - 1
  <2>1. a \in Int
    OBVIOUS
  <2>2. ((a % Capacity) + 1) % Capacity = (a + 1) % Capacity
    <3>. HIDE DEF a
    <3>. QED BY <2>1, CapacityIsPositive, ModFollows
  <2>. QED BY <2>2
<1>3. (i - 1) + 1 = (i + 1) - 1
  OBVIOUS
<1>. QED
  BY <1>1, <1>2, <1>3 DEF SlotOf, Following, Index

\* Less than the capacity apart, different items have different slots.
LEMMA SlotsDiffer ==
  ASSUME NEW i \in Int, NEW j \in Int, j <= i, i - j < Capacity
  PROVE  SlotOf(i) = SlotOf(j) <=> i = j
<1>1. (i - 1) - (j - 1) < Capacity /\ j - 1 <= i - 1 /\ i - 1 \in Int /\ j - 1 \in Int
  BY CapacityIsPositive
<1>2. ASSUME (i - 1) % Capacity = (j - 1) % Capacity PROVE i - 1 = j - 1
  BY <1>1, <1>2, CapacityIsPositive, ModIsUnique
<1>. QED
  BY <1>2 DEF SlotOf

\* ... and Capacity items on it is the same one.
LEMMA SlotsComeAround ==
  ASSUME NEW i \in Int
  PROVE  SlotOf(i + Capacity) = SlotOf(i)
<1>. DEFINE a == i - 1
<1>1. a \in Int /\ (i + Capacity) - 1 = a + Capacity
  BY CapacityIsPositive
<1>2. (a + Capacity) % Capacity = a % Capacity
  <2>. HIDE DEF a
  <2>. QED BY <1>1, CapacityIsPositive, ModAround
<1>. QED
  BY <1>1, <1>2 DEF SlotOf

-----------------------------------------------------------------------------
(* The inductive invariant.                                                *)

\* Each index has gone from slot to slot, a step for each item.
IndicesCount ==
  /\ \A i \in 1 .. Len(head) : head[i] = SlotOf(i)
  /\ \A i \in 1 .. Len(tail) : tail[i] = SlotOf(i)
  /\ Len(head) = Len(sent) + 1 /\ Len(tail) = Len(received) + 1

\* No thread takes the other to be further than it is, and none goes past
\* where it has seen the other.
ViewsAreSafe ==
  /\ Len(tail) <= headSeen
  /\ consumer.pc # "idle" => Len(tail) < headSeen
  /\ Len(head) - tailSeen < Capacity
  /\ producer.pc # "idle" => Len(head) - tailSeen < Capacity - 1

\* An item stays as it was pushed, from argument to slot to result.
ItemsAreKept ==
  /\ producer.pc # "idle" => producer.item \in Values
  /\ producer.pc = "store" => buffer[SlotOf(Len(head))] = producer.item
  /\ \A i \in Len(tail) .. Len(sent) : buffer[SlotOf(i)] = sent[i]
  /\ consumer.pc = "store" => consumer.item = sent[Len(tail)]
  /\ \A i \in 1 .. Len(received) : received[i] = sent[i]

IInv == TypeOK /\ IndicesCount /\ ViewsAreSafe /\ ItemsAreKept

\* Where the threads are in the ring, and how far apart.
LEMMA Positions ==
  ASSUME IInv
  PROVE  /\ Len(head) \in Nat \ {0} /\ Len(tail) \in Nat \ {0}
         /\ Len(sent) \in Nat /\ Len(received) \in Nat
         /\ headSeen \in 1 .. Len(head) /\ tailSeen \in 1 .. Len(tail)
         /\ Len(tail) <= Len(head) /\ Len(head) - Len(tail) < Capacity
         /\ WriteSlot = SlotOf(Len(head)) /\ ReadSlot = SlotOf(Len(tail))
         /\ head[headSeen] = SlotOf(headSeen) /\ tail[tailSeen] = SlotOf(tailSeen)
<1>1. /\ Len(head) \in Nat \ {0} /\ Len(tail) \in Nat \ {0}
      /\ Len(sent) \in Nat /\ Len(received) \in Nat
      /\ headSeen \in 1 .. Len(head) /\ tailSeen \in 1 .. Len(tail)
  BY DEF IInv, TypeOK
<1>2. Len(tail) <= Len(head) /\ Len(head) - Len(tail) < Capacity
  BY <1>1, CapacityIsPositive DEF IInv, ViewsAreSafe
<1>. QED
  BY <1>1, <1>2 DEF IInv, IndicesCount, WriteSlot, ReadSlot, Last

\* The producer finds the ring full exactly if Capacity - 1 items are inside
\* or have been popped without its knowledge.
LEMMA FullIs ==
  ASSUME IInv
  PROVE  FullToProducer <=> Len(head) - tailSeen = Capacity - 1
<1>1. Following(WriteSlot) = SlotOf(Len(head) + 1)
  BY Positions, SlotsFollow
<1>2. CASE Len(head) - tailSeen = Capacity - 1
  <2>1. Len(head) + 1 = tailSeen + Capacity /\ tailSeen \in Int
    BY <1>2, Positions, CapacityIsPositive
  <2>. QED BY <1>1, <1>2, <2>1, SlotsComeAround, Positions DEF FullToProducer
<1>3. CASE Len(head) - tailSeen # Capacity - 1
  <2>. DEFINE i == Len(head) + 1
  <2>1. i \in Int /\ tailSeen \in Int /\ tailSeen <= i /\ i - tailSeen < Capacity /\ i # tailSeen
    BY <1>3, Positions, CapacityIsPositive DEF IInv, ViewsAreSafe
  <2>2. SlotOf(i) # SlotOf(tailSeen)
    <3>. HIDE DEF i
    <3>. QED BY <2>1, SlotsDiffer
  <2>. QED BY <1>1, <1>3, <2>2, Positions DEF FullToProducer
<1>. QED
  BY <1>2, <1>3

\* The consumer finds it empty exactly if it has popped all it has seen.
LEMMA EmptyIs ==
  ASSUME IInv
  PROVE  EmptyToConsumer <=> headSeen = Len(tail)
<1>1. /\ headSeen \in Int /\ Len(tail) \in Int
      /\ Len(tail) <= headSeen /\ headSeen - Len(tail) < Capacity
  BY Positions, CapacityIsPositive DEF IInv, ViewsAreSafe
<1>2. SlotOf(headSeen) = SlotOf(Len(tail)) <=> headSeen = Len(tail)
  BY <1>1, SlotsDiffer
<1>. QED
  BY <1>2, Positions DEF EmptyToConsumer

-----------------------------------------------------------------------------
(* One lemma per action.                                                   *)

LEMMA PushCheckIInv ==
  ASSUME IInv, NEW item \in Values, PushCheck(item)
  PROVE  IInv'
<1>. USE DEF PushCheck
<1>1. TypeOK'
  BY DEF IInv, TypeOK
<1>2. IndicesCount'
  BY DEF IInv, IndicesCount
<1>3. ViewsAreSafe'
  BY FullIs, Positions, CapacityIsPositive DEF IInv, ViewsAreSafe
<1>4. ItemsAreKept'
  BY DEF IInv, ItemsAreKept
<1>. QED  BY <1>1, <1>2, <1>3, <1>4 DEF IInv

LEMMA PushWriteIInv ==
  ASSUME IInv, PushWrite
  PROVE  IInv'
<1>. USE DEF PushWrite
<1>0. producer.item \in Values /\ producer.pc = "write" /\ WriteSlot = SlotOf(Len(head))
      /\ SlotOf(Len(head)) \in Index
  BY Positions, SlotsFollow DEF IInv, ItemsAreKept
<1>1. TypeOK'
  BY <1>0 DEF IInv, TypeOK
<1>2. IndicesCount'
  BY DEF IInv, IndicesCount
<1>3. ViewsAreSafe'
  BY <1>0 DEF IInv, ViewsAreSafe, TypeOK
<1>4. ItemsAreKept'
  <2>1. buffer' = [buffer EXCEPT ![SlotOf(Len(head))] = producer.item]
        /\ producer'.item = producer.item /\ producer'.pc = "store"
        /\ buffer \in [Index -> Values \cup {Nothing}]
    BY <1>0 DEF IInv, TypeOK
  <2>2. ASSUME NEW i \in Len(tail) .. Len(sent) PROVE buffer'[SlotOf(i)] = sent[i]
    <3>1. i \in Int /\ Len(head) \in Int /\ i < Len(head) /\ Len(head) - i < Capacity
      BY Positions, CapacityIsPositive DEF IInv, IndicesCount
    <3>2. SlotOf(i) # SlotOf(Len(head)) /\ SlotOf(i) \in Index
      <4>. DEFINE h == Len(head)
      <4>1. h \in Int /\ i <= h /\ h - i < Capacity /\ h # i
        BY <3>1
      <4>. HIDE DEF h, PushWrite
      <4>2. SlotOf(h) = SlotOf(i) <=> h = i
        BY <3>1, <4>1, SlotsDiffer
      <4>3. SlotOf(i) \in Index
        BY <3>1, SlotsFollow
      <4>. QED BY <4>1, <4>2, <4>3 DEF h
    <3>3. buffer[SlotOf(i)] = sent[i]
      BY DEF IInv, ItemsAreKept
    <3>. QED BY <2>1, <3>2, <3>3
  <2>. QED  BY <1>0, <2>1, <2>2 DEF IInv, ItemsAreKept
<1>. QED  BY <1>1, <1>2, <1>3, <1>4 DEF IInv

LEMMA PushStoreIInv ==
  ASSUME IInv, PushStore
  PROVE  IInv'
<1>. DEFINE h == SlotOf(Len(head) + 1)
<1>0. /\ producer.item \in Values /\ producer.pc = "store"
      /\ head' = Append(head, h) /\ h \in Index
      /\ sent' = Append(sent, producer.item)
      /\ producer' = [pc |-> "idle", item |-> Nothing]
      /\ UNCHANGED <<tail, buffer, headSeen, tailSeen, consumer, monitor, received>>
  <2>1. Following(WriteSlot) = h /\ h \in Index
    BY Positions, SlotsFollow
  <2>. QED BY <2>1 DEF PushStore, IInv, ItemsAreKept
<1>. HIDE DEF h
<1>1. /\ head \in Seq(Index) /\ sent \in Seq(Values)
      /\ head' \in Seq(Index) /\ Len(head') = Len(head) + 1
      /\ sent' \in Seq(Values) /\ Len(sent') = Len(sent) + 1
      /\ \A i \in 1 .. Len(head) : head'[i] = head[i]
      /\ head'[Len(head) + 1] = h
      /\ \A i \in 1 .. Len(sent) : sent'[i] = sent[i]
      /\ sent'[Len(sent) + 1] = producer.item
  BY <1>0 DEF IInv, TypeOK
<1>2. TypeOK'
  <2>1. headSeen' \in 1 .. Len(head') /\ head' # <<>>
    BY <1>0, <1>1, Positions
  <2>. QED BY <1>0, <1>1, <2>1 DEF IInv, TypeOK
<1>3. IndicesCount'
  <2>1. \A i \in 1 .. Len(head') : head'[i] = SlotOf(i)
    BY <1>1, Positions DEF h, IInv, IndicesCount
  <2>. QED BY <2>1, <1>0, <1>1, Positions DEF IInv, IndicesCount
<1>4. ViewsAreSafe'
  BY <1>0, <1>1, Positions, CapacityIsPositive DEF IInv, ViewsAreSafe
<1>5. ItemsAreKept'
  <2>1. Len(tail') = Len(tail) /\ Len(head) = Len(sent) + 1
    BY <1>0 DEF IInv, IndicesCount
  <2>2. ASSUME NEW i \in Len(tail') .. Len(sent') PROVE buffer'[SlotOf(i)] = sent'[i]
    <3>1. CASE i \in Len(tail) .. Len(sent)
      <4>1. sent'[i] = sent[i]
        BY <3>1, <1>1, Positions
      <4>. QED BY <3>1, <4>1, <1>0 DEF IInv, ItemsAreKept
    <3>2. CASE i = Len(head)
      BY <3>2, <2>1, <1>0, <1>1 DEF IInv, ItemsAreKept
    <3>. QED BY <3>1, <3>2, <2>1, <1>1, Positions
  <2>3. consumer'.pc = "store" => consumer'.item = sent'[Len(tail')]
    <3>1. consumer.pc = "store" => Len(tail) \in 1 .. Len(sent)
      BY <2>1, Positions DEF IInv, ViewsAreSafe
    <3>. QED BY <3>1, <2>1, <1>0, <1>1 DEF IInv, ItemsAreKept
  <2>4. \A i \in 1 .. Len(received') : received'[i] = sent'[i]
    <3>1. Len(received) <= Len(sent)
      BY Positions DEF IInv, IndicesCount
    <3>2. \A i \in 1 .. Len(received) : i \in 1 .. Len(sent)
      BY <3>1, Positions
    <3>. QED BY <3>2, <1>0, <1>1 DEF IInv, ItemsAreKept
  <2>. QED BY <2>2, <2>3, <2>4, <1>0 DEF ItemsAreKept
<1>. QED  BY <1>2, <1>3, <1>4, <1>5 DEF IInv

\* pop and peek begin alike.
LEMMA ConsumerEntersIInv ==
  ASSUME IInv, PopCheck \/ Peek
  PROVE  IInv'
<1>0. /\ consumer'.pc \in {"read", "peek"} /\ consumer'.item = consumer.item
      /\ consumer' \in [pc : {"idle", "read", "store", "peek"}, item : Values \cup {Nothing}]
      /\ ~EmptyToConsumer
      /\ UNCHANGED <<head, tail, buffer, headSeen, tailSeen, producer, monitor, sent, received>>
  BY DEF PopCheck, Peek, IInv, TypeOK
<1>1. TypeOK'
  BY <1>0 DEF IInv, TypeOK
<1>2. IndicesCount'
  BY <1>0 DEF IInv, IndicesCount
<1>3. ViewsAreSafe'
  BY <1>0, EmptyIs, Positions DEF IInv, ViewsAreSafe
<1>4. ItemsAreKept'
  BY <1>0 DEF IInv, ItemsAreKept
<1>. QED  BY <1>1, <1>2, <1>3, <1>4 DEF IInv

LEMMA PopReadIInv ==
  ASSUME IInv, PopRead
  PROVE  IInv'
<1>0. /\ consumer.pc = "read" /\ consumer' = [pc |-> "store", item |-> buffer[SlotOf(Len(tail))]]
      /\ UNCHANGED <<head, tail, buffer, headSeen, tailSeen, producer, monitor, sent, received>>
  BY Positions DEF PopRead
<1>1. SlotOf(Len(tail)) \in Index
  BY Positions, SlotsFollow
<1>2. TypeOK'
  BY <1>0, <1>1 DEF IInv, TypeOK
<1>3. IndicesCount'
  BY <1>0 DEF IInv, IndicesCount
<1>4. ViewsAreSafe'
  BY <1>0 DEF IInv, ViewsAreSafe
<1>5. ItemsAreKept'
  <2>1. Len(tail) \in Len(tail) .. Len(sent)
    BY <1>0, Positions DEF IInv, ViewsAreSafe, IndicesCount
  <2>2. buffer[SlotOf(Len(tail))] = sent[Len(tail)]
    BY <2>1 DEF IInv, ItemsAreKept
  <2>. QED BY <2>2, <1>0 DEF IInv, ItemsAreKept
<1>. QED  BY <1>2, <1>3, <1>4, <1>5 DEF IInv

LEMMA PopStoreIInv ==
  ASSUME IInv, PopStore
  PROVE  IInv'
<1>. DEFINE t == SlotOf(Len(tail) + 1)
<1>0. /\ consumer.pc = "store" /\ consumer.item = sent[Len(tail)]
      /\ tail' = Append(tail, t) /\ t \in Index
      /\ received' = Append(received, consumer.item)
      /\ consumer' = [pc |-> "idle", item |-> Nothing]
      /\ UNCHANGED <<head, buffer, headSeen, tailSeen, producer, monitor, sent>>
  <2>1. Following(ReadSlot) = t /\ t \in Index
    BY Positions, SlotsFollow
  <2>. QED BY <2>1 DEF PopStore, IInv, ItemsAreKept
<1>. HIDE DEF t
<1>1. /\ Len(tail) \in 1 .. Len(sent) /\ Len(head) = Len(sent) + 1
      /\ Len(tail) = Len(received) + 1 /\ Len(tail) < headSeen
  BY <1>0, Positions DEF IInv, ViewsAreSafe, IndicesCount
<1>2. consumer.item \in Values
  BY <1>0, <1>1 DEF IInv, TypeOK
<1>3. /\ tail' \in Seq(Index) /\ Len(tail') = Len(tail) + 1
      /\ received' \in Seq(Values) /\ Len(received') = Len(received) + 1
      /\ \A i \in 1 .. Len(tail) : tail'[i] = tail[i]
      /\ tail'[Len(tail) + 1] = t
      /\ \A i \in 1 .. Len(received) : received'[i] = received[i]
      /\ received'[Len(received) + 1] = consumer.item
  BY <1>0, <1>2 DEF IInv, TypeOK
<1>4. TypeOK'
  <2>1. tailSeen' \in 1 .. Len(tail') /\ tail' # <<>>
    BY <1>0, <1>3, Positions
  <2>. QED BY <1>0, <1>3, <2>1 DEF IInv, TypeOK
<1>5. IndicesCount'
  <2>1. \A i \in 1 .. Len(tail') : tail'[i] = SlotOf(i)
    BY <1>3, Positions DEF t, IInv, IndicesCount
  <2>. QED BY <2>1, <1>0, <1>1, <1>3, Positions DEF IInv, IndicesCount
<1>6. ViewsAreSafe'
  BY <1>0, <1>1, <1>3, Positions DEF IInv, ViewsAreSafe
<1>7. ItemsAreKept'
  <2>1. \A i \in Len(tail') .. Len(sent') : i \in Len(tail) .. Len(sent)
    BY <1>0, <1>3, Positions
  <2>2. \A i \in 1 .. Len(received') : received'[i] = sent'[i]
    BY <1>0, <1>1, <1>3, Positions DEF IInv, ItemsAreKept
  <2>. QED BY <2>1, <2>2, <1>0 DEF IInv, ItemsAreKept
<1>. QED  BY <1>4, <1>5, <1>6, <1>7 DEF IInv

LEMMA PeekDoneIInv ==
  ASSUME IInv, PeekDone
  PROVE  IInv'
BY DEF PeekDone, IInv, TypeOK, IndicesCount, ViewsAreSafe, ItemsAreKept

\* The third thread changes nothing that the two rely on.
LEMMA SizeIInv ==
  ASSUME IInv, Size
  PROVE  IInv'
<1>0. UNCHANGED <<head, tail, buffer, headSeen, tailSeen, producer, consumer, sent, received>>
  BY DEF Size, SizeLoadHead, SizeLoadTail, SizeReturned
<1>1. monitor' \in [pc : {"idle", "load_tail", "done"}, h : Index, size : Index]
  <2>1. 0 \in Index
    BY CapacityIsPositive DEF Index
  <2>2. WriteSlot \in Index
    BY Positions, SlotsFollow
  <2>3. (monitor.h - Last(tail) + Capacity) % Capacity \in Index
    <3>. DEFINE a == monitor.h - Last(tail) + Capacity
    <3>1. monitor.h \in Index /\ ReadSlot \in Index
      <4>1. monitor.h \in Index
        BY DEF IInv, TypeOK
      <4>2. ReadSlot \in Index
        BY Positions, SlotsFollow
      <4>. QED BY <4>1, <4>2
    <3>2. a \in Int
      BY <3>1, CapacityIsPositive DEF ReadSlot, Index
    <3>3. a % Capacity \in 0 .. Capacity - 1
      <4>. HIDE DEF a
      <4>. QED BY <3>2, CapacityIsPositive, Parts
    <3>. QED BY <3>3 DEF Index
  <2>4. CASE SizeLoadHead
    BY <2>4, <2>1, <2>2 DEF SizeLoadHead, WriteSlot
  <2>5. CASE SizeLoadTail
    BY <2>5, <2>1, <2>3 DEF SizeLoadTail
  <2>6. CASE SizeReturned
    BY <2>6, <2>1 DEF SizeReturned
  <2>. QED BY <2>4, <2>5, <2>6 DEF Size
<1>. QED
  BY <1>0, <1>1 DEF IInv, TypeOK, IndicesCount, ViewsAreSafe, ItemsAreKept

LEMMA SeeIInv ==
  ASSUME IInv, SeeHead \/ SeeTail
  PROVE  IInv'
<1>0. /\ UNCHANGED <<head, tail, buffer, producer, consumer, monitor, sent, received>>
      /\ headSeen' \in 1 .. Len(head) /\ headSeen' >= headSeen
      /\ tailSeen' \in 1 .. Len(tail) /\ tailSeen' >= tailSeen
  BY Positions DEF SeeHead, SeeTail
<1>1. TypeOK'
  BY <1>0 DEF IInv, TypeOK
<1>2. ViewsAreSafe'
  BY <1>0, Positions, CapacityIsPositive DEF IInv, ViewsAreSafe
<1>. QED
  BY <1>0, <1>1, <1>2 DEF IInv, IndicesCount, ItemsAreKept

-----------------------------------------------------------------------------
(* Theorems.                                                               *)

LEMMA InitIInv == Init => IInv
<1>. SUFFICES ASSUME Init PROVE IInv
  OBVIOUS
<1>1. 0 \in Index /\ SlotOf(1) = 0
  <2>1. (Capacity * 0 + 0) % Capacity = 0
    BY CapacityIsPositive, PartsOnly
  <2>2. Capacity * 0 + 0 = 1 - 1
    BY CapacityIsPositive
  <2>. QED BY <2>1, <2>2, CapacityIsPositive DEF SlotOf, Index
<1>2. /\ head = <<0>> /\ tail = <<0>> /\ Len(<<0>>) = 1
      /\ sent = <<>> /\ received = <<>> /\ headSeen = 1 /\ tailSeen = 1
      /\ producer.pc = "idle" /\ consumer.pc = "idle"
  BY DEF Init
<1>3. TypeOK
  BY <1>1, <1>2 DEF Init, TypeOK
<1>4. IndicesCount
  BY <1>1, <1>2 DEF IndicesCount
<1>5. ViewsAreSafe
  BY <1>2, CapacityIsPositive DEF ViewsAreSafe
<1>6. ItemsAreKept
  BY <1>2 DEF ItemsAreKept
<1>. QED  BY <1>3, <1>4, <1>5, <1>6 DEF IInv

\* Indices, views and items together are inductive: each thread stays within
\* what it has seen of the other, and an item is the same on its whole way.
THEOREM Invariance == Spec => []IInv
<1>1. IInv /\ [Next]_vars => IInv'
  <2>. SUFFICES ASSUME IInv, [Next]_vars PROVE IInv'
    OBVIOUS
  <2>1. CASE UNCHANGED vars
    BY <2>1 DEF vars, IInv, TypeOK, IndicesCount, ViewsAreSafe, ItemsAreKept
  <2>2. CASE Push
    BY <2>2, PushCheckIInv, PushWriteIInv, PushStoreIInv DEF Push
  <2>3. CASE Pop
    BY <2>3, ConsumerEntersIInv, PopReadIInv, PopStoreIInv DEF Pop
  <2>4. CASE Peek \/ PeekDone
    BY <2>4, ConsumerEntersIInv, PeekDoneIInv
  <2>5. CASE PushRefused \/ PopRefused
    BY <2>5, <2>1 DEF PushRefused, PopRefused
  <2>6. CASE Size \/ SeeHead \/ SeeTail
    BY <2>6, SizeIInv, SeeIInv
  <2>. QED  BY <2>1, <2>2, <2>3, <2>4, <2>5, <2>6 DEF Next
<1>. QED
  BY <1>1, InitIInv, PTL DEF Spec

\* Every variable keeps its type; the indices stay below the capacity.
THEOREM TypeCorrect == Spec => []TypeOK
BY Invariance, PTL DEF IInv

\* push and pop never access one slot at the same time, however old the values
\* are that they read of each other's index: an acquire load orders each access
\* of a slot after the one before it.
THEOREM RaceFree == Spec => []NoDataRace
<1>1. IInv => NoDataRace
  <2>. SUFFICES ASSUME IInv PROVE NoDataRace
    OBVIOUS
  <2>1. ASSUME producer.pc = "write", consumer.pc \in {"read", "peek"}
        PROVE  WriteSlot # ReadSlot
    <3>. DEFINE h == Len(head)
                t == Len(tail)
    <3>1. h \in Int /\ t \in Int /\ t < h /\ h - t < Capacity
      BY <2>1, Positions DEF IInv, ViewsAreSafe
    <3>2. WriteSlot = SlotOf(h) /\ ReadSlot = SlotOf(t)
      BY Positions
    <3>3. t <= h /\ t # h
      <4>. HIDE DEF h, t
      <4>. QED  BY <3>1
    <3>4. SlotOf(h) = SlotOf(t) <=> h = t
      <4>. HIDE DEF h, t
      <4>. QED  BY <3>1, <3>3, SlotsDiffer
    <3>. QED  BY <3>2, <3>3, <3>4
  <2>2. producer.pc = "write" => Len(head) - tailSeen < Capacity
    BY DEF IInv, ViewsAreSafe
  <2>3. consumer.pc \in {"read", "peek"} => Len(tail) < headSeen
    BY DEF IInv, ViewsAreSafe
  <2>. QED  BY <2>1, <2>2, <2>3 DEF NoDataRace
<1>. QED
  BY <1>1, Invariance, PTL

\* What pop returns is what push was given, in that order and with nothing left
\* out, and peek points to what the next pop returns.
THEOREM Fifo == Spec => []FirstInFirstOut
<1>1. IInv => FirstInFirstOut
  <2>. SUFFICES ASSUME IInv PROVE FirstInFirstOut
    OBVIOUS
  <2>1. /\ sent \in Seq(Values) /\ received \in Seq(Values)
        /\ Len(head) = Len(sent) + 1 /\ Len(tail) = Len(received) + 1
        /\ Len(received) <= Len(sent)
    BY Positions DEF IInv, TypeOK, IndicesCount
  <2>2. IsPrefix(received, sent)
    <3>1. \A i \in 1 .. Len(received) : received[i] = sent[i]
      BY DEF IInv, ItemsAreKept
    <3>2. SubSeq(received, 1, Len(received)) = SubSeq(sent, 1, Len(received))
      BY <2>1, <3>1
    <3>. QED  BY <2>1, <3>2 DEF IsPrefix
  <2>3. consumer.pc = "peek" => buffer[ReadSlot] = sent[Len(received) + 1]
    <3>1. consumer.pc = "peek" => Len(tail) \in Len(tail) .. Len(sent)
      BY <2>1, Positions DEF IInv, ViewsAreSafe
    <3>. QED  BY <3>1, <2>1, Positions DEF IInv, ItemsAreKept
  <2>. QED  BY <2>1, <2>2, <2>3 DEF FirstInFirstOut, IInv, ItemsAreKept
<1>. QED
  BY <1>1, Invariance, PTL

-----------------------------------------------------------------------------
(* What the two threads see of the ring is a queue.                        *)

\* What is inside, as a part of what was sent.
LEMMA InsideIs ==
  ASSUME NEW S, NEW s \in Seq(S), NEW r \in 0 .. Len(s)
  PROVE  /\ SubSeq(s, r + 1, Len(s)) \in Seq(S)
         /\ Len(SubSeq(s, r + 1, Len(s))) = Len(s) - r
         /\ \A i \in 1 .. Len(s) - r : SubSeq(s, r + 1, Len(s))[i] = s[r + i]
OBVIOUS

LEMMA InsideGrows ==
  ASSUME NEW S, NEW s \in Seq(S), NEW r \in 0 .. Len(s), NEW x \in S
  PROVE  SubSeq(Append(s, x), r + 1, Len(Append(s, x))) = Append(SubSeq(s, r + 1, Len(s)), x)
<1>. DEFINE z == Append(s, x)
            a == SubSeq(z, r + 1, Len(z))
            b == SubSeq(s, r + 1, Len(s))
            c == Append(b, x)
<1>1. /\ z \in Seq(S) /\ Len(z) = Len(s) + 1 /\ r \in 0 .. Len(z) /\ Len(s) \in Nat
      /\ \A i \in 1 .. Len(s) : z[i] = s[i]
      /\ z[Len(s) + 1] = x
  OBVIOUS
<1>2. /\ a \in Seq(S) /\ Len(a) = Len(z) - r
      /\ \A i \in 1 .. Len(z) - r : a[i] = z[r + i]
  <2>. HIDE DEF z
  <2>. QED  BY <1>1, InsideIs
<1>3. /\ b \in Seq(S) /\ Len(b) = Len(s) - r
      /\ \A i \in 1 .. Len(s) - r : b[i] = s[r + i]
  BY InsideIs
<1>. HIDE DEF z, a, b
<1>4. /\ c \in Seq(S) /\ Len(c) = Len(b) + 1
      /\ \A i \in 1 .. Len(b) : c[i] = b[i]
      /\ c[Len(b) + 1] = x
  BY <1>3
<1>. HIDE DEF c
<1>5. Len(a) = Len(c)
  BY <1>1, <1>2, <1>3, <1>4
<1>6. ASSUME NEW i \in 1 .. Len(a) PROVE a[i] = c[i]
  <2>1. i \in 1 .. Len(z) - r /\ a[i] = z[r + i]
    BY <1>2
  <2>2. CASE i = Len(s) + 1 - r
    BY <2>1, <2>2, <1>1, <1>3, <1>4
  <2>3. CASE i # Len(s) + 1 - r
    <3>1. i \in 1 .. Len(s) - r /\ r + i \in 1 .. Len(s)
      BY <2>1, <2>3, <1>1
    <3>. QED  BY <2>1, <3>1, <1>1, <1>3, <1>4
  <2>. QED  BY <2>2, <2>3
<1>7. a = c
  BY <1>2, <1>4, <1>5, <1>6, SeqEqual
<1>. QED
  BY <1>7 DEF a, b, c, z

\* The ring starts as an empty queue and then does only what the queue may do:
\* push puts an item in if the producer has seen room, pop takes the oldest one
\* the consumer has seen, stores become visible one by one.  ImplementsView
\* without its fairness.
THEOREM RefinesQueue == Spec => View!Init /\ [][View!Next]_(View!lvars)
<1>. DEFINE q == SubSeq(sent, Len(received) + 1, Len(sent))
            seen == headSeen - Len(tail)
            unseen == Len(tail) - tailSeen
<1>1. Init => View!Init
  BY DEF Init, View!Init
<1>2. ASSUME IInv, [Next]_vars PROVE [View!Next]_(View!lvars)
  <2>1. /\ sent \in Seq(Values) /\ received \in Seq(Values)
        /\ Len(head) = Len(sent) + 1 /\ Len(tail) = Len(received) + 1
        /\ Len(received) \in 0 .. Len(sent)
        /\ Len(q) = Len(head) - Len(tail) /\ q \in Seq(Values)
        /\ Capacity \in Nat \ {0}
    <3>1. /\ sent \in Seq(Values) /\ received \in Seq(Values)
          /\ Len(head) = Len(sent) + 1 /\ Len(tail) = Len(received) + 1
          /\ Len(received) \in 0 .. Len(sent)
      BY <1>2, Positions DEF IInv, TypeOK, IndicesCount
    <3>. QED  BY <3>1, InsideIs, CapacityIsPositive
  <2>2. CASE UNCHANGED <<head, tail, headSeen, tailSeen, sent, received>>
    BY <2>2 DEF View!lvars
  <2>3. CASE PushStore
    <3>1. /\ sent' = Append(sent, producer.item) /\ producer.item \in Values
          /\ UNCHANGED <<tail, received, headSeen, tailSeen>>
      BY <1>2, <2>3 DEF PushStore, IInv, ItemsAreKept
    <3>2. Len(q) + unseen < Capacity - 1
      BY <1>2, <2>1, <2>3, Positions DEF PushStore, IInv, ViewsAreSafe
    <3>3. q' = Append(q, producer.item)
      <4>. DEFINE r == Len(received)
                  z == Append(sent, producer.item)
      <4>1. SubSeq(z, r + 1, Len(z)) = Append(SubSeq(sent, r + 1, Len(sent)), producer.item)
        BY <2>1, <3>1, InsideGrows
      <4>. QED  BY <3>1, <4>1
    <3>4. View!Put(producer.item)
      <4>1. UNCHANGED <<seen, unseen>>
        BY <3>1
      <4>2. ~View!LooksFull
        BY <3>2, <2>1, <1>2, Positions DEF View!LooksFull
      <4>. QED  BY <3>3, <4>1, <4>2 DEF View!Put
    <3>. QED  BY <3>1, <3>4 DEF View!Next
  <2>4. CASE PopStore
    <3>1. /\ received' = Append(received, consumer.item)
          /\ Len(tail') = Len(tail) + 1
          /\ UNCHANGED <<head, sent, headSeen, tailSeen>>
      BY <1>2, <2>4 DEF PopStore, IInv, TypeOK
    <3>2. Len(received') = Len(received) + 1
      BY <3>1, <2>1
    <3>3. /\ Len(tail) < headSeen /\ headSeen \in 1 .. Len(head)
          /\ Len(tail) \in Nat /\ tailSeen \in 1 .. Len(tail)
      BY <1>2, <2>4, Positions DEF PopStore, IInv, ViewsAreSafe
    <3>4. q' = Tail(q)
      <4>. DEFINE r == Len(received)
      <4>1. r + 1 \in 0 .. Len(sent) /\ r \in 0 .. Len(sent)
        BY <2>1, <3>3
      <4>2. SubSeq(sent, (r + 1) + 1, Len(sent)) = Tail(SubSeq(sent, r + 1, Len(sent)))
        <5>. HIDE DEF r
        <5>. QED  BY <2>1, <4>1
      <4>. QED  BY <3>1, <3>2, <4>2
    <3>5. seen # 0 /\ seen' = seen - 1 /\ unseen' = unseen + 1
      BY <3>1, <3>3
    <3>6. View!Take
      BY <3>4, <3>5 DEF View!Take, View!LooksEmpty
    <3>. QED  BY <3>6 DEF View!Next
  <2>5. CASE SeeHead
    <3>1. seen < Len(q) /\ seen' = seen + 1 /\ UNCHANGED <<q, unseen>>
      BY <1>2, <2>1, <2>5, Positions DEF SeeHead
    <3>. QED  BY <3>1 DEF View!Next, View!SeeItem
  <2>6. CASE SeeTail
    <3>1. unseen > 0 /\ unseen' = unseen - 1 /\ UNCHANGED <<q, seen>>
      BY <1>2, <2>1, <2>6, Positions DEF SeeTail
    <3>. QED  BY <3>1 DEF View!Next, View!SeeRoom
  <2>7. CASE Next /\ ~PushStore /\ ~PopStore /\ ~SeeHead /\ ~SeeTail
    <3>1. UNCHANGED <<head, tail, headSeen, tailSeen, sent, received>>
      BY <2>7 DEF Next, Push, PushCheck, PushWrite, PushRefused, Pop, PopCheck, PopRead,
                  PopRefused, Peek, PeekDone, Size, SizeLoadHead, SizeLoadTail, SizeReturned, vars
    <3>. QED  BY <3>1, <2>2
  <2>8. CASE UNCHANGED vars
    BY <2>8, <2>2 DEF vars
  <2>. QED  BY <1>2, <2>3, <2>4, <2>5, <2>6, <2>7, <2>8
<1>. QED
  BY <1>1, <1>2, Invariance, PTL DEF Spec

=============================================================================
