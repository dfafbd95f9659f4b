------------------------- MODULE MarketDataFeedProofs -------------------------
(***************************************************************************)
(* What holds of the market data feed for any set of controlling threads,  *)
(* any size of the ring and any width of the counters; and what the driver *)
(* finds that uses it, for any number of ticks.                            *)
(***************************************************************************)
EXTENDS FeedDriver, Arithmetic, SequenceTheorems

-----------------------------------------------------------------------------
(* The inductive invariant.                                                *)

\* Ticks that the consumer has taken and not yet counted, and the publisher
\* put in and not yet counted.
InHand  == IF consumer.pc \in {"handle", "count"} THEN 1 ELSE 0
Pending == IF publisher = "count" THEN 1 ELSE 0

\* The ticks are numbered on from the consumer's counter, and the publisher's
\* counter stands at the number of the next one.
TicksFollow ==
  /\ consumer.pc \in {"handle", "count"} => consumer.tick = consumed
  /\ \A i \in 1 .. Len(ring) : ring[i] = (consumed + InHand + i - 1) % CounterMod
  /\ published = (consumed + InHand + Len(ring) - Pending) % CounterMod

\* There is one consumer thread at most, and consumer_thread_ is it.
ThreadIsKnown == joinable <=> consumer.pc # "none"

\* The destructor runs when no other call does.
DestructorIsAlone ==
  /\ \A c \in Controllers : controller[c] \in {"join_last", "destroy"} =>
       publisher = "idle" /\ \A d \in Controllers \ {c} : controller[d] = "idle"
  /\ ~alive => publisher = "idle" /\ \A c \in Controllers : controller[c] = "idle"

\* Where each call of start and stop, if they do not overlap, finds flag and
\* thread.
CallsAreInOrder ==
  /\ ~Overlap
  /\ (\A c \in Controllers : controller[c] = "idle") => running = joinable
  /\ \A c \in Controllers :
       /\ controller[c] = "assign" => running /\ ~joinable
       /\ controller[c] \in {"join", "join_last"} => ~running /\ joinable
       /\ controller[c] \in {"stopped", "destroy"} => ~running /\ ~joinable

\* While there is something to flush, the consumer does not leave.
FlushIsComing ==
  /\ running => consumer.pc \notin {"load_empty", "finished"}
  /\ consumer.pc = "load_empty" => flush <= seen
  /\ consumer.pc \in {"finished", "none"} => flush = 0

Orderly == CallsAreInOrder /\ FlushIsComing /\ ~aborted

IInv == /\ TypeOK /\ TicksFollow /\ ThreadIsKnown /\ DestructorIsAlone
        /\ raced \/ Orderly

-----------------------------------------------------------------------------
(* Each part of the invariant is kept by every step.                       *)

\* The steps, one by one.
LEMMA Steps ==
  ASSUME Next
  PROVE  /\ \/ Enqueue \/ CountPublished \/ Drop
            \/ ConsumerLoop \/ SeeTick \/ SeeRoom \/ Construct
            \/ \E c \in Controllers :
                 \/ RegisterHandler(c) \/ StartExchange(c) \/ StopRefused(c)
                 \/ AssignThread(c) \/ Join(c) \/ StopReturned(c) \/ DestroyMembers(c)
                 \/ \E known \in 0 .. Len(ring) : Stop(c, known) \/ Destroy(c, known)
            \/ UNCHANGED feedVars
         /\ NoteRace
BY Zenon DEF Next, FeedNext, Publish, Control, Controlled, StartRefused, Ended

LEMMA Numbers ==
  /\ CounterMod \in Nat \ {0} /\ Room \in Nat \ {0}
  /\ 0 \in Number /\ \A n \in Int : n % CounterMod \in Number
  /\ \A n \in Number : n \in Nat /\ Up(n) = (n + 1) % CounterMod /\ Up(n) \in Number
<1>1. CounterMod \in Nat \ {0} /\ Room \in Nat \ {0}
  BY FeedAssumption
<1>2. 0 \in Number /\ Number \subseteq Nat
  BY <1>1 DEF Number
<1>3. ASSUME NEW n \in Int PROVE n % CounterMod \in Number
  BY <1>1, Parts DEF Number
<1>. QED
  BY <1>1, <1>2, <1>3 DEF Up

\* What the ring allows keeps it a queue of ticks with room for all of them.
QueueOK ==
  /\ ring \in Seq(Number) /\ Len(ring) <= Room
  /\ seen \in 0 .. Len(ring) /\ unseen \in 0 .. Room - Len(ring)
  /\ flush \in 0 .. Len(ring)

RestOK ==
  /\ running \in BOOLEAN /\ joinable \in BOOLEAN /\ handler \in BOOLEAN
  /\ consumer \in [pc : {"none", "load_running", "load_empty", "pop", "handle", "count",
                         "finished"}, tick : Number]
  /\ publisher \in {"idle", "count"}
  /\ controller \in [Controllers -> {"idle", "assign", "join", "join_last", "stopped", "destroy"}]
  /\ published \in Number /\ consumed \in Number /\ dropped \in Number
  /\ alive \in BOOLEAN /\ aborted \in BOOLEAN /\ raced \in BOOLEAN

LEMMA TypeParts == TypeOK <=> QueueOK /\ RestOK
BY DEF TypeOK, QueueOK, RestOK

\* Taking the first tick.
LEMMA PopTickTakes ==
  ASSUME TypeOK, PopTick
  PROVE  /\ Len(ring) \in Nat \ {0} /\ Len(ring') = Len(ring) - 1 /\ ring' \in Seq(Number)
         /\ \A i \in 1 .. Len(ring) - 1 : ring'[i] = ring[i + 1]
         /\ consumer'.pc = "handle" /\ consumer'.tick = ring[1] /\ ring[1] \in Number
         /\ seen > 0 /\ seen' = seen - 1 /\ unseen' = unseen + 1
<1>1. /\ ring \in Seq(Number) /\ seen \in 0 .. Len(ring) /\ seen # 0
      /\ ring' = Tail(ring) /\ seen' = seen - 1 /\ unseen' = unseen + 1
      /\ consumer' = [pc |-> "handle", tick |-> Head(ring)]
  BY DEF TypeOK, PopTick, Ring!Take, Ring!LooksEmpty
<1>2. Len(ring) \in Nat \ {0} /\ ring # <<>>
  BY <1>1
<1>3. Head(ring) = ring[1] /\ ring[1] \in Number
  BY <1>1, <1>2
<1>4. /\ ring' \in Seq(Number) /\ Len(ring') = Len(ring) - 1
      /\ \A i \in 1 .. Len(ring) - 1 : ring'[i] = ring[i + 1]
  BY <1>1, <1>2
<1>. QED  BY <1>1, <1>2, <1>3, <1>4

LEMMA QueueIsKept ==
  ASSUME TypeOK, Next
  PROVE  QueueOK'
<1>0. QueueOK /\ Room \in Nat /\ Len(ring) \in Nat
  BY TypeParts, Numbers DEF QueueOK
<1>1. CASE Enqueue
  <2>1. ring' = Append(ring, published) /\ published \in Number
        /\ Len(ring) + unseen < Room /\ UNCHANGED <<seen, unseen, flush>>
    BY <1>0, <1>1, Numbers DEF Enqueue, Ring!Put, Ring!LooksFull, TypeOK
  <2>2. ring' \in Seq(Number) /\ Len(ring') = Len(ring) + 1
    BY <1>0, <2>1 DEF QueueOK
  <2>. QED  BY <1>0, <2>1, <2>2 DEF QueueOK
<1>2. CASE PopTick
  <2>1. flush' = IF flush > 0 THEN flush - 1 ELSE 0
    BY <1>2 DEF PopTick
  <2>. QED  BY <1>0, <1>2, <2>1, PopTickTakes DEF QueueOK
<1>3. CASE LoadRunning
  BY <1>0, <1>3 DEF LoadRunning, QueueOK
<1>4. CASE SeeTick
  BY <1>0, <1>4 DEF SeeTick, Ring!SeeItem, QueueOK
<1>5. CASE SeeRoom
  BY <1>0, <1>5 DEF SeeRoom, Ring!SeeRoom, QueueOK
<1>6. CASE Construct
  <2>1. ring' = <<>> /\ Len(ring') = 0 /\ seen' = 0 /\ unseen' = 0 /\ flush' = 0
    BY <1>6 DEF Construct
  <2>. QED  BY <2>1, <1>0 DEF QueueOK
<1>7. ASSUME NEW c \in Controllers, NEW known \in 0 .. Len(ring),
             Stop(c, known) \/ Destroy(c, known)
      PROVE  QueueOK'
  BY <1>0, <1>7 DEF Stop, Destroy, StopExchange, QueueOK
<1>8. CASE UNCHANGED <<ring, seen, unseen, flush>>
  BY <1>0, <1>8 DEF QueueOK
<1>9. CASE CountPublished \/ Drop \/ LoadEmpty \/ PopNothing \/ Handle \/ CountConsumed
           \/ UNCHANGED feedVars
  BY <1>8, <1>9 DEF CountPublished, Drop, LoadEmpty, PopNothing, Handle, CountConsumed, feedVars
<1>10. ASSUME NEW c \in Controllers,
              \/ RegisterHandler(c) \/ StartExchange(c) \/ StopRefused(c)
              \/ AssignThread(c) \/ Join(c) \/ StopReturned(c) \/ DestroyMembers(c)
       PROVE  QueueOK'
  BY <1>8, <1>10 DEF RegisterHandler, StartExchange, StopRefused, AssignThread, Join,
                     StopReturned, DestroyMembers
<1>. QED
  BY <1>1, <1>2, <1>3, <1>4, <1>5, <1>6, <1>7, <1>9, <1>10, Steps DEF ConsumerLoop

LEMMA RestIsKept ==
  ASSUME TypeOK, Next
  PROVE  RestOK'
<1>0. RestOK
  BY TypeParts
<1>2. raced' \in BOOLEAN
  BY <1>0, Steps DEF NoteRace, RestOK
<1>3. CASE Enqueue \/ CountPublished \/ Drop \/ SeeTick \/ SeeRoom
  BY <1>0, <1>2, <1>3, Numbers DEF Enqueue, CountPublished, Drop, SeeTick, SeeRoom, RestOK,
                                   counters, life
<1>4. CASE LoadRunning \/ LoadEmpty \/ PopNothing \/ Handle \/ CountConsumed
  BY <1>0, <1>2, <1>4, Numbers DEF LoadRunning, LoadEmpty, PopNothing, Handle, CountConsumed,
                                   NewThread, RestOK, counters, life
<1>5. CASE PopTick
  <2>1. consumer' = [pc |-> "handle", tick |-> ring[1]] /\ ring[1] \in Number
    BY <1>5, PopTickTakes DEF PopTick
  <2>. QED  BY <1>0, <1>2, <1>5, <2>1 DEF PopTick, RestOK, counters, life
<1>6. CASE Construct
  BY <1>0, <1>2, <1>6, Numbers DEF Construct, NoThread, RestOK, counters, life
<1>7. ASSUME NEW c \in Controllers,
             RegisterHandler(c) \/ StartExchange(c) \/ StopRefused(c) \/ StopReturned(c)
      PROVE  RestOK'
  BY <1>0, <1>2, <1>7 DEF RegisterHandler, StartExchange, StopRefused, StopReturned, RestOK,
                          counters, life
<1>8. ASSUME NEW c \in Controllers, AssignThread(c) \/ Join(c) \/ DestroyMembers(c)
      PROVE  RestOK'
  <2>0. /\ NewThread \in [pc : {"load_running"}, tick : Number]
        /\ NoThread \in [pc : {"none"}, tick : Number]
    BY Numbers DEF NewThread, NoThread
  <2>1. CASE AssignThread(c)
    BY <1>0, <1>2, <2>0, <2>1 DEF AssignThread, RestOK, counters
  <2>2. CASE Join(c)
    BY <1>0, <1>2, <2>0, <2>2 DEF Join, RestOK, counters, life
  <2>3. CASE DestroyMembers(c)
    BY <1>0, <1>2, <2>3 DEF DestroyMembers, RestOK, counters
  <2>. QED  BY <1>8, <2>1, <2>2, <2>3
<1>9. ASSUME NEW c \in Controllers, NEW known \in 0 .. Len(ring),
             Stop(c, known) \/ Destroy(c, known)
      PROVE  RestOK'
  BY <1>0, <1>2, <1>9 DEF Stop, Destroy, StopExchange, RestOK, counters, life
<1>10. CASE UNCHANGED feedVars
  BY <1>0, <1>2, <1>10 DEF feedVars, counters, life, RestOK
<1>. QED
  BY <1>3, <1>4, <1>5, <1>6, <1>7, <1>8, <1>9, <1>10, Steps DEF ConsumerLoop

\* A step that changes neither counters nor ring, nor what is in hand.
LEMMA TicksStay ==
  ASSUME TicksFollow, UNCHANGED <<ring, consumed, published, publisher>>,
         \/ UNCHANGED consumer
         \/ /\ consumer.pc \in {"handle", "count"} <=> consumer'.pc \in {"handle", "count"}
            /\ consumer.pc \in {"handle", "count"} => consumer'.tick = consumer.tick
  PROVE  TicksFollow'
BY DEF TicksFollow, InHand, Pending

LEMMA TicksFollowOn ==
  ASSUME TypeOK, TicksFollow, ThreadIsKnown, DestructorIsAlone, Next
  PROVE  TicksFollow'
<1>0. /\ Len(ring) \in Nat /\ consumed \in Nat /\ published \in Number /\ InHand \in {0, 1}
      /\ CounterMod \in Nat \ {0} /\ ring \in Seq(Number)
  <2>1. ring \in Seq(Number) /\ consumed \in Number /\ published \in Number
    BY DEF TypeOK
  <2>2. InHand \in {0, 1}
    BY DEF InHand
  <2>3. Len(ring) \in Nat
    BY <2>1
  <2>. QED  BY <2>1, <2>2, <2>3, Numbers
<1>1. CASE Enqueue
  <2>1. /\ ring' = Append(ring, published) /\ publisher = "idle" /\ publisher' = "count"
        /\ UNCHANGED <<consumer, consumed, published>>
    BY <1>1 DEF Enqueue, MayPublish, Ring!Put, counters
  <2>2. Pending = 0 /\ Pending' = 1 /\ InHand' = InHand
    BY <2>1 DEF Pending, InHand
  <2>3. /\ Len(ring') = Len(ring) + 1 /\ ring'[Len(ring) + 1] = published
        /\ \A i \in 1 .. Len(ring) : ring'[i] = ring[i]
    BY <1>0, <2>1
  <2>4. published = (consumed + InHand + Len(ring)) % CounterMod
    <3>1. consumed + InHand + Len(ring) - Pending = consumed + InHand + Len(ring)
      BY <1>0, <2>2
    <3>. QED  BY <3>1 DEF TicksFollow
  <2>5. ASSUME NEW i \in 1 .. Len(ring')
        PROVE  ring'[i] = (consumed + InHand + i - 1) % CounterMod
    <3>1. CASE i = Len(ring) + 1
      <4>1. consumed + InHand + i - 1 = consumed + InHand + Len(ring)
        BY <3>1, <1>0
      <4>. QED  BY <3>1, <4>1, <2>3, <2>4
    <3>2. CASE i # Len(ring) + 1
      <4>1. i \in 1 .. Len(ring)
        BY <3>2, <2>3, <1>0
      <4>. QED  BY <4>1, <2>3 DEF TicksFollow
    <3>. QED  BY <3>1, <3>2
  <2>6. consumed + InHand + Len(ring') - Pending' = consumed + InHand + Len(ring)
    BY <1>0, <2>2, <2>3
  <2>. QED  BY <2>1, <2>2, <2>4, <2>5, <2>6 DEF TicksFollow
<1>2. CASE CountPublished
  <2>1. /\ publisher = "count" /\ publisher' = "idle" /\ published' = (published + 1) % CounterMod
        /\ UNCHANGED <<ring, consumer, consumed>>
    BY <1>2, <1>0, Numbers DEF CountPublished, counters
  <2>2. Pending = 1 /\ Pending' = 0 /\ InHand' = InHand
    BY <2>1 DEF Pending, InHand
  <2>. DEFINE a == consumed + InHand + Len(ring) - Pending
  <2>3. published = a % CounterMod /\ a \in Int /\ a + 1 = consumed + InHand + Len(ring) - Pending'
    BY <1>0, <2>2 DEF TicksFollow
  <2>4. published' = (a + 1) % CounterMod
    <3>. HIDE DEF a
    <3>. QED  BY <1>0, <2>1, <2>3, ModFollows
  <2>. QED  BY <2>1, <2>2, <2>3, <2>4 DEF TicksFollow
<1>3. CASE PopTick
  <2>1. /\ Len(ring') = Len(ring) - 1 /\ Len(ring) \in Nat \ {0}
        /\ \A i \in 1 .. Len(ring) - 1 : ring'[i] = ring[i + 1]
        /\ consumer'.pc = "handle" /\ consumer'.tick = ring[1]
        /\ consumer.pc = "pop"
        /\ UNCHANGED <<publisher, published, consumed>>
    BY <1>3, PopTickTakes DEF PopTick, counters
  <2>2. InHand = 0 /\ InHand' = 1 /\ Pending' = Pending /\ Pending \in {0, 1}
    BY <2>1 DEF InHand, Pending
  <2>3. consumer'.tick = consumed
    <3>1. 1 \in 1 .. Len(ring) /\ consumed + InHand + 1 - 1 = consumed
      BY <1>0, <2>1, <2>2
    <3>2. ring[1] = consumed % CounterMod
      BY <3>1 DEF TicksFollow
    <3>3. consumed \in 0 .. CounterMod - 1
      BY DEF TypeOK, Number
    <3>. QED  BY <2>1, <3>2, <3>3, <1>0, ModOfSmall
  <2>4. ASSUME NEW i \in 1 .. Len(ring')
        PROVE  ring'[i] = (consumed + InHand' + i - 1) % CounterMod
    <3>1. i + 1 \in 1 .. Len(ring) /\ consumed + InHand + (i + 1) - 1 = consumed + InHand' + i - 1
      BY <1>0, <2>1, <2>2
    <3>2. ring[i + 1] = (consumed + InHand + (i + 1) - 1) % CounterMod
      BY <3>1 DEF TicksFollow
    <3>. QED  BY <2>1, <3>1, <3>2
  <2>5. consumed + InHand' + Len(ring') - Pending' = consumed + InHand + Len(ring) - Pending
    BY <1>0, <2>1, <2>2
  <2>. QED  BY <2>1, <2>3, <2>4, <2>5 DEF TicksFollow
<1>4. CASE CountConsumed
  <2>1. /\ consumer.pc = "count" /\ consumer'.pc = "load_running"
        /\ consumed' = (consumed + 1) % CounterMod
        /\ UNCHANGED <<ring, published, publisher>>
    BY <1>4, Numbers DEF CountConsumed, NewThread, TypeOK
  <2>2. InHand = 1 /\ InHand' = 0 /\ Pending' = Pending /\ Pending \in {0, 1}
    BY <2>1 DEF InHand, Pending
  <2>3. ASSUME NEW b \in Int
        PROVE  (consumed' + b) % CounterMod = (consumed + 1 + b) % CounterMod
    <3>1. consumed + 1 \in Int
      BY <1>0
    <3>. QED  BY <1>0, <2>1, <3>1, ModOfSum
  <2>4. ASSUME NEW i \in 1 .. Len(ring)
        PROVE  ring[i] = (consumed' + InHand' + i - 1) % CounterMod
    <3>. DEFINE b == i - 1
    <3>1. /\ b \in Int /\ consumed + InHand + i - 1 = consumed + 1 + b
          /\ consumed' + InHand' + i - 1 = consumed' + b
      BY <1>0, <2>1, <2>2, Numbers
    <3>2. (consumed' + b) % CounterMod = (consumed + 1 + b) % CounterMod
      <4>. HIDE DEF b
      <4>. QED  BY <2>3, <3>1
    <3>. QED  BY <3>1, <3>2 DEF TicksFollow
  <2>5. published = (consumed' + InHand' + Len(ring) - Pending) % CounterMod
    <3>. DEFINE b == Len(ring) - Pending
    <3>1. /\ b \in Int /\ consumed + InHand + Len(ring) - Pending = consumed + 1 + b
          /\ consumed' + InHand' + Len(ring) - Pending = consumed' + b
      BY <1>0, <2>1, <2>2, Numbers
    <3>2. (consumed' + b) % CounterMod = (consumed + 1 + b) % CounterMod
      <4>. HIDE DEF b
      <4>. QED  BY <2>3, <3>1
    <3>. QED  BY <3>1, <3>2 DEF TicksFollow
  <2>. QED  BY <2>1, <2>2, <2>4, <2>5 DEF TicksFollow
<1>5. CASE Construct
  <2>1. /\ ring' = <<>> /\ Len(ring') = 0 /\ published' = 0 /\ consumed' = 0
        /\ consumer'.pc = "none" /\ publisher' = "idle"
    BY <1>5 DEF Construct, NoThread, DestructorIsAlone
  <2>2. InHand' = 0 /\ Pending' = 0
    BY <2>1 DEF InHand, Pending
  <2>3. 0 % CounterMod = 0
    BY <1>0, ModOfSmall
  <2>. QED  BY <2>1, <2>2, <2>3 DEF TicksFollow
<1>6. CASE LoadRunning \/ LoadEmpty \/ PopNothing \/ Handle
  BY <1>6, TicksStay DEF LoadRunning, LoadEmpty, PopNothing, Handle, counters, TypeOK
<1>7. CASE Drop \/ SeeTick \/ SeeRoom \/ UNCHANGED feedVars
  BY <1>7, TicksStay DEF Drop, SeeTick, Ring!SeeItem, SeeRoom, Ring!SeeRoom, feedVars, counters
<1>8. ASSUME NEW c \in Controllers, AssignThread(c) \/ Join(c)
      PROVE  TicksFollow'
  <2>1. UNCHANGED <<ring, consumed, published, publisher>>
    BY <1>8 DEF AssignThread, Join, counters
  <2>2. \/ UNCHANGED consumer
        \/ consumer.pc \in {"none", "finished"} /\ consumer'.pc \in {"none", "load_running"}
    BY <1>8 DEF AssignThread, Join, ThreadIsKnown, NewThread, NoThread
  <2>. QED  BY <2>1, <2>2, TicksStay
<1>9. ASSUME NEW c \in Controllers,
             RegisterHandler(c) \/ StartExchange(c) \/ StopRefused(c) \/ StopReturned(c)
               \/ DestroyMembers(c)
      PROVE  TicksFollow'
  BY <1>9, TicksStay DEF RegisterHandler, StartExchange, StopRefused, StopReturned,
                         DestroyMembers, counters
<1>10. ASSUME NEW c \in Controllers, NEW known \in 0 .. Len(ring),
              Stop(c, known) \/ Destroy(c, known)
       PROVE  TicksFollow'
  BY <1>10, TicksStay DEF Stop, Destroy, StopExchange, counters
<1>. QED
  BY <1>1, <1>2, <1>3, <1>4, <1>5, <1>6, <1>7, <1>8, <1>9, <1>10, Steps DEF ConsumerLoop

LEMMA ThreadStaysKnown ==
  ASSUME TypeOK, ThreadIsKnown, Next
  PROVE  ThreadIsKnown'
<1>1. CASE UNCHANGED <<joinable, consumer>>
  BY <1>1 DEF ThreadIsKnown
<1>2. CASE ConsumerLoop
  <2>1. consumer.pc # "none" /\ consumer'.pc # "none" /\ joinable' = joinable
    BY <1>2 DEF ConsumerLoop, LoadRunning, LoadEmpty, PopNothing, PopTick, Handle, CountConsumed,
                NewThread, TypeOK
  <2>. QED  BY <2>1 DEF ThreadIsKnown
<1>3. ASSUME NEW c \in Controllers, AssignThread(c) \/ Join(c)
      PROVE  ThreadIsKnown'
  BY <1>3 DEF AssignThread, Join, ThreadIsKnown, NoThread, NewThread
<1>4. CASE Construct
  BY <1>4 DEF Construct, ThreadIsKnown, NoThread
<1>5. CASE Enqueue \/ CountPublished \/ Drop \/ SeeTick \/ SeeRoom \/ UNCHANGED feedVars
  BY <1>1, <1>5 DEF Enqueue, CountPublished, Drop, SeeTick, SeeRoom, feedVars
<1>6. ASSUME NEW c \in Controllers,
             RegisterHandler(c) \/ StartExchange(c) \/ StopRefused(c) \/ StopReturned(c)
               \/ DestroyMembers(c)
      PROVE  ThreadIsKnown'
  BY <1>1, <1>6 DEF RegisterHandler, StartExchange, StopRefused, StopReturned, DestroyMembers
<1>7. ASSUME NEW c \in Controllers, NEW known \in 0 .. Len(ring),
             Stop(c, known) \/ Destroy(c, known)
      PROVE  ThreadIsKnown'
  BY <1>1, <1>7 DEF Stop, Destroy, StopExchange
<1>. QED
  BY <1>2, <1>3, <1>4, <1>5, <1>6, <1>7, Steps

\* While a destructor runs nobody else may call, so nobody else moves.
LEMMA DestructorStaysAlone ==
  ASSUME TypeOK, DestructorIsAlone, Next
  PROVE  DestructorIsAlone'
<1>0. controller \in [Controllers -> {"idle", "assign", "join", "join_last", "stopped", "destroy"}]
  BY DEF TypeOK
<1>1. CASE UNCHANGED <<publisher, controller, alive>>
  BY <1>1 DEF DestructorIsAlone
<1>2. CASE Enqueue
  <2>1. /\ alive /\ alive' = alive /\ controller' = controller
        /\ \A c \in Controllers : controller[c] \notin {"join_last", "destroy"}
    BY <1>2 DEF Enqueue, MayPublish, Callable, Usable, life
  <2>. QED  BY <2>1 DEF DestructorIsAlone
<1>3. CASE CountPublished
  BY <1>3 DEF CountPublished, life, DestructorIsAlone
<1>4. CASE Construct
  BY <1>4 DEF Construct, DestructorIsAlone
<1>5. CASE Drop \/ SeeTick \/ SeeRoom \/ UNCHANGED feedVars
  BY <1>1, <1>5 DEF Drop, SeeTick, SeeRoom, feedVars, life
<1>6. CASE ConsumerLoop
  BY <1>1, <1>6 DEF ConsumerLoop, LoadRunning, LoadEmpty, PopNothing, PopTick, Handle,
                    CountConsumed, life
<1>7. ASSUME NEW c \in Controllers, NEW known \in 0 .. Len(ring),
             RegisterHandler(c) \/ StartExchange(c) \/ StopRefused(c) \/ Stop(c, known)
      PROVE  DestructorIsAlone'
  <2>1. /\ alive /\ alive' = alive
        /\ \A d \in Controllers : controller[d] \notin {"join_last", "destroy"}
    BY <1>7 DEF RegisterHandler, StartExchange, StopRefused, Stop, StopExchange, Callable,
                Usable, life
  <2>2. \/ controller' = controller
        \/ \E pc \in {"assign", "stopped", "join"} : controller' = [controller EXCEPT ![c] = pc]
    BY <1>7 DEF RegisterHandler, StartExchange, StopRefused, Stop, StopExchange
  <2>3. \A d \in Controllers : controller'[d] \notin {"join_last", "destroy"}
    BY <1>0, <2>1, <2>2
  <2>. QED  BY <2>1, <2>3 DEF DestructorIsAlone
<1>8. ASSUME NEW c \in Controllers, AssignThread(c) \/ StopReturned(c)
      PROVE  DestructorIsAlone'
  <2>1. /\ alive /\ alive' = alive /\ publisher' = publisher
        /\ controller[c] # "idle" /\ controller[c] \notin {"join_last", "destroy"}
        /\ controller' = [controller EXCEPT ![c] = "idle"]
    BY <1>8 DEF AssignThread, StopReturned, Usable, life
  <2>. QED  BY <1>0, <2>1 DEF DestructorIsAlone
<1>9. ASSUME NEW c \in Controllers, Join(c)
      PROVE  DestructorIsAlone'
  <2>1. /\ alive /\ alive' = alive /\ publisher' = publisher
        /\ \/ controller[c] = "join" /\ controller' = [controller EXCEPT ![c] = "stopped"]
           \/ controller[c] = "join_last" /\ controller' = [controller EXCEPT ![c] = "destroy"]
    BY <1>0, <1>9 DEF Join, Usable, life
  <2>. QED  BY <1>0, <2>1 DEF DestructorIsAlone
<1>10. ASSUME NEW c \in Controllers, DestroyMembers(c)
       PROVE  DestructorIsAlone'
  <2>1. /\ controller[c] = "destroy" /\ publisher' = publisher
        /\ controller' = [controller EXCEPT ![c] = "idle"]
    BY <1>10 DEF DestroyMembers
  <2>2. publisher = "idle" /\ \A d \in Controllers \ {c} : controller[d] = "idle"
    BY <2>1 DEF DestructorIsAlone
  <2>. QED  BY <1>0, <2>1, <2>2 DEF DestructorIsAlone
<1>11. ASSUME NEW c \in Controllers, NEW known \in 0 .. Len(ring), Destroy(c, known)
       PROVE  DestructorIsAlone'
  <2>1. /\ alive /\ alive' = alive /\ publisher = "idle" /\ publisher' = publisher
        /\ \A d \in Controllers : controller[d] = "idle"
        /\ \E pc \in {"join_last", "destroy"} : controller' = [controller EXCEPT ![c] = pc]
    BY <1>11 DEF Destroy, StopExchange, Usable, life
  <2>. QED  BY <1>0, <2>1 DEF DestructorIsAlone
<1>. QED
  BY <1>2, <1>3, <1>4, <1>5, <1>6, <1>7, <1>8, <1>9, <1>10, <1>11, Steps

-----------------------------------------------------------------------------
(* Calls that do not overlap.                                              *)

\* The publisher and the consumer do not touch what the calls go by.
LEMMA OthersKeepCalls ==
  ASSUME Orderly, ~Overlap', UNCHANGED <<controller, running, joinable, aborted>>
  PROVE  CallsAreInOrder' /\ ~aborted'
BY DEF Orderly, CallsAreInOrder

\* A step of a call leaves what the consumer goes by.
LEMMA CallsKeepFlush ==
  ASSUME Orderly, UNCHANGED <<seen, consumer, flush>>, running' => running
  PROVE  FlushIsComing'
BY DEF Orderly, FlushIsComing

\* A thread that ends a call is the only one that was in one.
LEMMA ReturnIsInOrder ==
  ASSUME TypeOK, CallsAreInOrder, ~Overlap', NEW c \in Controllers,
         controller[c] # "idle", controller' = [controller EXCEPT ![c] = "idle"],
         running' = joinable'
  PROVE  CallsAreInOrder'
<1>1. controller \in [Controllers -> {"idle", "assign", "join", "join_last", "stopped", "destroy"}]
  BY DEF TypeOK
<1>2. \A d \in Controllers : d # c => controller[d] = "idle"
  BY DEF CallsAreInOrder, Overlap
<1>3. \A d \in Controllers : controller'[d] = "idle"
  BY <1>1, <1>2
<1>. QED
  BY <1>3 DEF CallsAreInOrder

\* One that enters or goes on in a call is the only one in one.
LEMMA CallIsInOrder ==
  ASSUME TypeOK, ~Overlap', NEW c \in Controllers, NEW pc,
         controller' = [controller EXCEPT ![c] = pc],
         \/ pc = "assign" /\ running' /\ ~joinable'
         \/ pc \in {"join", "join_last"} /\ ~running' /\ joinable'
         \/ pc \in {"stopped", "destroy"} /\ ~running' /\ ~joinable'
  PROVE  CallsAreInOrder'
<1>1. controller \in [Controllers -> {"idle", "assign", "join", "join_last", "stopped", "destroy"}]
  BY DEF TypeOK
<1>2. controller'[c] = pc /\ pc # "idle"
  BY <1>1
<1>3. \A d \in Controllers : d # c => controller'[d] = "idle"
  BY <1>2 DEF Overlap
<1>4. ASSUME NEW d \in Controllers
      PROVE  /\ controller'[d] = "assign" => running' /\ ~joinable'
             /\ controller'[d] \in {"join", "join_last"} => ~running' /\ joinable'
             /\ controller'[d] \in {"stopped", "destroy"} => ~running' /\ ~joinable'
  BY <1>2, <1>3
<1>. QED
  BY <1>2, <1>4 DEF CallsAreInOrder

\* Who finds nobody in a call, and no two calls after its step, was alone
\* before it.
LEMMA NobodyElse ==
  ASSUME TypeOK, ~Overlap', NEW c \in Controllers, NEW pc, pc # "idle",
         controller[c] = "idle", controller' = [controller EXCEPT ![c] = pc]
  PROVE  \A d \in Controllers : controller[d] = "idle"
<1>1. controller \in [Controllers -> {"idle", "assign", "join", "join_last", "stopped", "destroy"}]
  BY DEF TypeOK
<1>2. controller'[c] = pc /\ \A d \in Controllers : d # c => controller'[d] = controller[d]
  BY <1>1
<1>. QED
  BY <1>2 DEF Overlap

LEMMA ConsumerIsOrderly ==
  ASSUME TypeOK, Orderly, ~Overlap', ConsumerLoop
  PROVE  Orderly'
<1>1. UNCHANGED <<controller, running, joinable, aborted>>
  BY DEF ConsumerLoop, LoadRunning, LoadEmpty, PopNothing, PopTick, Handle, CountConsumed, life
<1>2. CallsAreInOrder' /\ ~aborted'
  BY <1>1, OthersKeepCalls
<1>3. seen \in Nat /\ flush \in Nat /\ consumer.pc # "none" /\ running \in BOOLEAN
  BY DEF ConsumerLoop, LoadRunning, LoadEmpty, PopNothing, PopTick, Handle, CountConsumed, TypeOK
<1>4. FlushIsComing'
  <2>1. CASE LoadRunning
    <3>1. /\ consumer'.pc = IF running THEN "pop" ELSE "load_empty"
          /\ flush' = flush /\ running' = running
          /\ seen' = IF ~running /\ flush > seen THEN flush ELSE seen
      BY <2>1 DEF LoadRunning, TypeOK
    <3>. QED  BY <1>3, <3>1 DEF FlushIsComing
  <2>2. CASE LoadEmpty
    <3>1. /\ consumer.pc = "load_empty" /\ UNCHANGED <<running, flush, seen>>
          /\ consumer'.pc = IF seen = 0 THEN "finished" ELSE "pop"
      BY <2>2 DEF LoadEmpty, Ring!LooksEmpty, TypeOK
    <3>2. ~running /\ flush <= seen
      BY <3>1 DEF Orderly, FlushIsComing
    <3>. QED  BY <1>3, <3>1, <3>2 DEF FlushIsComing
  <2>3. CASE PopNothing \/ PopTick \/ Handle \/ CountConsumed
    <3>1. consumer'.pc \in {"load_running", "handle", "count"}
      BY <2>3 DEF PopNothing, PopTick, Handle, CountConsumed, NewThread, TypeOK
    <3>. QED  BY <3>1 DEF FlushIsComing
  <2>. QED  BY <2>1, <2>2, <2>3 DEF ConsumerLoop
<1>. QED
  BY <1>2, <1>4 DEF Orderly

LEMMA OthersAreOrderly ==
  ASSUME TypeOK, Orderly, ~Overlap',
         Enqueue \/ CountPublished \/ Drop \/ SeeTick \/ SeeRoom \/ UNCHANGED feedVars
  PROVE  Orderly'
<1>1. UNCHANGED <<controller, running, joinable, aborted, consumer, flush>>
  BY DEF Enqueue, CountPublished, Drop, SeeTick, SeeRoom, feedVars, life
<1>2. seen' >= seen /\ seen' \in Nat /\ seen \in Nat /\ flush \in Nat
  <2>1. seen \in Nat /\ flush \in Nat
    BY DEF TypeOK
  <2>2. seen' = seen \/ seen' = seen + 1
    BY DEF Enqueue, Ring!Put, CountPublished, Drop, SeeTick, Ring!SeeItem, SeeRoom,
           Ring!SeeRoom, feedVars
  <2>. QED  BY <2>1, <2>2
<1>3. FlushIsComing'
  BY <1>1, <1>2 DEF Orderly, FlushIsComing
<1>. QED
  BY <1>1, <1>3, OthersKeepCalls DEF Orderly

LEMMA StartIsOrderly ==
  ASSUME TypeOK, ThreadIsKnown, Orderly, ~Overlap', NEW c \in Controllers,
         RegisterHandler(c) \/ StartExchange(c) \/ AssignThread(c)
  PROVE  Orderly'
<1>1. CASE RegisterHandler(c)
  <2>1. UNCHANGED <<controller, running, joinable, aborted, consumer, flush, seen>>
    BY <1>1 DEF RegisterHandler
  <2>. QED  BY <2>1, OthersKeepCalls, CallsKeepFlush DEF Orderly
<1>2. CASE StartExchange(c)
  <2>1. /\ controller[c] = "idle" /\ controller' = [controller EXCEPT ![c] = "assign"]
        /\ ~running /\ running' /\ UNCHANGED <<joinable, consumer, flush, seen, aborted>>
    BY <1>2 DEF StartExchange, life
  <2>2. \A d \in Controllers : controller[d] = "idle"
    BY <2>1, NobodyElse
  <2>3. ~joinable
    BY <2>1, <2>2 DEF Orderly, CallsAreInOrder
  <2>4. CallsAreInOrder'
    BY <2>1, <2>3, CallIsInOrder
  <2>5. FlushIsComing'
    BY <2>1, <2>3 DEF Orderly, FlushIsComing, ThreadIsKnown
  <2>. QED  BY <2>1, <2>4, <2>5 DEF Orderly
<1>3. CASE AssignThread(c)
  <2>1. running /\ ~joinable
    BY <1>3 DEF AssignThread, Orderly, CallsAreInOrder
  <2>2. /\ controller[c] # "idle" /\ controller' = [controller EXCEPT ![c] = "idle"]
        /\ running' /\ joinable' /\ ~aborted' /\ consumer'.pc = "load_running"
    BY <1>3, <2>1 DEF AssignThread, NewThread
  <2>3. running' = joinable'
    BY <1>3, <2>1 DEF AssignThread, TypeOK
  <2>4. CallsAreInOrder'
    BY <2>2, <2>3, ReturnIsInOrder DEF Orderly
  <2>. QED  BY <2>2, <2>4 DEF Orderly, FlushIsComing
<1>. QED
  BY <1>1, <1>2, <1>3

LEMMA StopIsOrderly ==
  ASSUME TypeOK, ThreadIsKnown, Orderly, ~Overlap', NEW c \in Controllers,
         NEW known \in 0 .. Len(ring),
         StopRefused(c) \/ Stop(c, known) \/ Destroy(c, known)
  PROVE  Orderly'
<1>1. PICK pc \in {"stopped", "destroy", "join", "join_last"} :
        /\ controller[c] = "idle" /\ controller' = [controller EXCEPT ![c] = pc]
        /\ UNCHANGED <<joinable, consumer, seen, aborted>>
        /\ \/ pc \in {"join", "join_last"} /\ running /\ ~running'
           \/ pc \in {"stopped", "destroy"} /\ ~running /\ UNCHANGED <<running, flush>>
  BY DEF StopRefused, Stop, Destroy, StopExchange, life
<1>2. \A d \in Controllers : controller[d] = "idle"
  BY <1>1, NobodyElse
<1>3. running = joinable
  BY <1>2 DEF Orderly, CallsAreInOrder
<1>4. CallsAreInOrder'
  <2>1. \/ pc \in {"join", "join_last"} /\ ~running' /\ joinable'
        \/ pc \in {"stopped", "destroy"} /\ ~running' /\ ~joinable'
    BY <1>1, <1>3
  <2>. QED  BY <1>1, <2>1, CallIsInOrder
<1>5. FlushIsComing'
  <2>1. CASE running
    <3>1. consumer.pc \notin {"load_empty", "finished", "none"}
      BY <2>1, <1>3 DEF Orderly, FlushIsComing, ThreadIsKnown
    <3>. QED  BY <3>1, <1>1 DEF FlushIsComing
  <2>2. CASE ~running
    BY <2>2, <1>1, CallsKeepFlush
  <2>. QED  BY <2>1, <2>2
<1>. QED
  BY <1>1, <1>4, <1>5 DEF Orderly

LEMMA ReturnIsOrderly ==
  ASSUME TypeOK, Orderly, ~Overlap', NEW c \in Controllers,
         Join(c) \/ StopReturned(c) \/ DestroyMembers(c)
  PROVE  Orderly'
<1>1. CASE Join(c)
  <2>1. ~running /\ joinable /\ consumer.pc = "finished" /\ flush = 0
    BY <1>1 DEF Join, Orderly, CallsAreInOrder, FlushIsComing
  <2>2. PICK pc \in {"stopped", "destroy"} : controller' = [controller EXCEPT ![c] = pc]
    BY <1>1 DEF Join, TypeOK
  <2>3. ~running' /\ ~joinable' /\ ~aborted' /\ consumer'.pc = "none" /\ flush' = 0
    BY <1>1, <2>1 DEF Join, NoThread, life, Orderly
  <2>4. CallsAreInOrder'
    BY <2>2, <2>3, CallIsInOrder
  <2>. QED  BY <2>3, <2>4 DEF Orderly, FlushIsComing
<1>2. CASE StopReturned(c) \/ DestroyMembers(c)
  <2>1. /\ controller[c] # "idle" /\ controller' = [controller EXCEPT ![c] = "idle"]
        /\ ~running /\ ~joinable /\ UNCHANGED <<running, joinable, seen, consumer, flush>>
        /\ ~aborted'
    BY <1>2 DEF StopReturned, DestroyMembers, life, Orderly, CallsAreInOrder
  <2>2. running' = joinable'
    BY <2>1 DEF TypeOK
  <2>3. CallsAreInOrder'
    BY <2>1, <2>2, ReturnIsInOrder DEF Orderly
  <2>4. FlushIsComing'
    BY <2>1, CallsKeepFlush
  <2>. QED  BY <2>1, <2>3, <2>4 DEF Orderly
<1>. QED
  BY <1>1, <1>2

\* A new feed starts in order, whatever became of the one before.
LEMMA ConstructIsOrderly ==
  ASSUME DestructorIsAlone, Construct
  PROVE  Orderly' /\ ~Overlap'
<1>1. /\ \A c \in Controllers : controller'[c] = "idle"
      /\ running' = FALSE /\ joinable' = FALSE /\ ~aborted' /\ flush' = 0 /\ consumer'.pc = "none"
  BY DEF Construct, DestructorIsAlone, NoThread
<1>2. ~Overlap'
  BY <1>1 DEF Overlap
<1>. QED
  BY <1>1, <1>2 DEF Orderly, CallsAreInOrder, FlushIsComing

LEMMA OnlyConstructRevives ==
  ASSUME Next, ~Construct
  PROVE  (alive' => alive) /\ raced' = (raced \/ Overlap')
<1>1. alive' => alive
  <2>1. CASE Enqueue \/ CountPublished \/ Drop \/ SeeTick \/ SeeRoom \/ UNCHANGED feedVars
    BY <2>1 DEF Enqueue, CountPublished, Drop, SeeTick, SeeRoom, feedVars, life
  <2>2. CASE ConsumerLoop
    BY <2>2 DEF ConsumerLoop, LoadRunning, LoadEmpty, PopNothing, PopTick, Handle, CountConsumed,
                life
  <2>3. ASSUME NEW c \in Controllers,
               \/ RegisterHandler(c) \/ StartExchange(c) \/ StopRefused(c)
               \/ AssignThread(c) \/ Join(c) \/ StopReturned(c) \/ DestroyMembers(c)
               \/ \E known \in 0 .. Len(ring) : Stop(c, known) \/ Destroy(c, known)
        PROVE  alive' => alive
    BY <2>3 DEF RegisterHandler, StartExchange, StopRefused, AssignThread, Join, StopReturned,
                DestroyMembers, Stop, Destroy, StopExchange, life
  <2>. QED  BY <2>1, <2>2, <2>3, Steps
<1>. QED
  BY <1>1, Steps DEF NoteRace

LEMMA OrderIsKept ==
  ASSUME TypeOK, ThreadIsKnown, DestructorIsAlone, raced \/ Orderly, Next
  PROVE  raced' \/ Orderly'
<1>1. CASE Construct
  BY <1>1, ConstructIsOrderly
<1>2. CASE ~Construct /\ ~raced'
  <2>1. Orderly /\ ~Overlap'
    BY <1>2, OnlyConstructRevives
  <2>. QED
    BY <1>2, <2>1, Steps, ConsumerIsOrderly, OthersAreOrderly, StartIsOrderly, StopIsOrderly,
       ReturnIsOrderly
<1>. QED
  BY <1>1, <1>2

-----------------------------------------------------------------------------
(* Theorems.                                                               *)

LEMMA InitIInv == Init => IInv
<1>. SUFFICES ASSUME Init PROVE IInv
  OBVIOUS
<1>1. /\ ring = <<>> /\ Len(ring) = 0 /\ seen = 0 /\ unseen = 0 /\ flush = 0
      /\ consumer.pc = "none" /\ publisher = "idle"
      /\ \A c \in Controllers : controller[c] = "idle"
      /\ running = FALSE /\ joinable = FALSE /\ published = 0 /\ consumed = 0
      /\ alive = TRUE /\ aborted = FALSE
  BY DEF Init, NoThread
<1>2. QueueOK
  BY <1>1, Numbers DEF QueueOK
<1>3. RestOK
  BY Numbers DEF Init, NoThread, RestOK
<1>4. TicksFollow
  <2>1. InHand = 0 /\ Pending = 0 /\ 0 % CounterMod = 0
    BY <1>1, Numbers, ModOfSmall DEF InHand, Pending
  <2>. QED  BY <1>1, <2>1 DEF TicksFollow
<1>5. ThreadIsKnown /\ DestructorIsAlone
  BY <1>1 DEF ThreadIsKnown, DestructorIsAlone
<1>6. Orderly
  BY <1>1 DEF Orderly, CallsAreInOrder, FlushIsComing, Overlap
<1>. QED
  BY <1>2, <1>3, <1>4, <1>5, <1>6, TypeParts DEF IInv

LEMMA NextIInv == IInv /\ [Next]_vars => IInv'
<1>. SUFFICES ASSUME IInv, [Next]_vars PROVE IInv'
  OBVIOUS
<1>1. CASE Next
  <2>1. TypeOK'
    BY <1>1, QueueIsKept, RestIsKept DEF IInv, TypeOK, QueueOK, RestOK
  <2>. QED
    BY <1>1, <2>1, TicksFollowOn, ThreadStaysKnown, DestructorStaysAlone, OrderIsKept DEF IInv
<1>2. CASE UNCHANGED vars
  BY <1>2 DEF vars, feedVars, counters, life, IInv, TypeOK, TicksFollow, InHand, Pending,
              ThreadIsKnown, DestructorIsAlone, Orderly, CallsAreInOrder, Overlap, FlushIsComing
<1>. QED
  BY <1>1, <1>2

\* Types, the numbering of the ticks, the thread in consumer_thread_, the rule
\* for destructors and, where calls do not overlap, the order of start and stop
\* are inductive together.
THEOREM Invariance == Spec => []IInv
BY InitIInv, NextIInv, PTL DEF Spec

\* Every variable keeps its type; the ring never holds more than it has room for.
THEOREM TypeCorrect == Spec => []TypeOK
BY Invariance, PTL DEF IInv

\* ticks_published and ticks_consumed differ by what is under way, over any
\* number of starts, stops and wraps of the counters.
THEOREM NoLoss == Spec => []NothingGetsLost
<1>1. IInv => NothingGetsLost
  <2>. SUFFICES ASSUME IInv PROVE NothingGetsLost
    OBVIOUS
  <2>. DEFINE a == consumed + InHand + Len(ring) - Pending
              b == Len(ring) + InHand - Pending
  <2>1. ring \in Seq(Number) /\ consumed \in Number /\ InHand \in {0, 1} /\ Pending \in {0, 1}
    BY DEF IInv, TypeOK, InHand, Pending
  <2>2. Len(ring) \in Nat /\ consumed \in Nat /\ CounterMod \in Nat \ {0}
    <3>1. Len(ring) \in Nat
      BY <2>1
    <3>. QED  BY <2>1, <3>1, Numbers
  <2>3. a \in Int /\ -consumed \in Int /\ a + (-consumed) = b
    BY <2>1, <2>2
  <2>4. published = a % CounterMod
    BY DEF IInv, TicksFollow
  <2>5. ((a % CounterMod) + (-consumed)) % CounterMod = (a + (-consumed)) % CounterMod
    <3>. HIDE DEF a
    <3>. QED  BY <2>2, <2>3, ModOfSum
  <2>6. published - consumed = (a % CounterMod) + (-consumed)
    <3>. HIDE DEF a
    <3>1. a % CounterMod \in Int
      BY <2>2, <2>3, Parts
    <3>. QED  BY <2>2, <2>4, <3>1
  <2>7. (published - consumed) % CounterMod = b % CounterMod
    <3>. HIDE DEF a, b
    <3>. QED  BY <2>3, <2>5, <2>6
  <2>. QED  BY <2>7 DEF NothingGetsLost, InHand, Pending
<1>. QED
  BY <1>1, Invariance, PTL

\* Every tick gets to the handler once and in the order of publication,
\* whichever thread runs the loop.
THEOREM InOrder == Spec => []HandledInOrder
<1>1. IInv => HandledInOrder
  BY DEF IInv, TicksFollow, HandledInOrder
<1>. QED
  BY <1>1, Invariance, PTL

\* Calls that do not overlap never end the process.
THEOREM NoAbort == Spec => []NeverAborts
<1>1. IInv => NeverAborts
  BY DEF IInv, Orderly, NeverAborts
<1>. QED
  BY <1>1, Invariance, PTL

\* When stop returns and no other call was in its way, the consumer thread is
\* gone and what stop's caller knew of has been handled.
THEOREM StopHasFlushed == Spec => StopFlushes
<1>. DEFINE Flushed ==
       \A c \in Controllers :
         (controller[c] # "stopped" /\ controller'[c] = "stopped" /\ ~raced')
           => consumer'.pc = "none" /\ flush' = 0
<1>1. ASSUME IInv, [Next]_vars
      PROVE  Flushed
  <2>. SUFFICES ASSUME NEW c \in Controllers, controller[c] # "stopped",
                       controller'[c] = "stopped", ~raced'
                PROVE  consumer'.pc = "none" /\ flush' = 0
    OBVIOUS
  <2>1. Next /\ controller' # controller
    BY <1>1 DEF vars, feedVars
  <2>2. ~Construct /\ TypeOK
    BY <1>1, <2>1 DEF Construct, IInv
  <2>3. Orderly /\ ~Overlap'
    BY <1>1, <2>1, <2>2, OnlyConstructRevives DEF IInv
  <2>4. Orderly'
    BY <1>1, <2>1, OrderIsKept DEF IInv
  <2>5. ~joinable' /\ ThreadIsKnown'
    BY <1>1, <2>1, <2>4, ThreadStaysKnown DEF Orderly, CallsAreInOrder, IInv
  <2>6. consumer'.pc = "none"
    BY <2>5 DEF ThreadIsKnown
  <2>. QED  BY <2>4, <2>6 DEF Orderly, FlushIsComing
<1>. QED
  BY <1>1, Invariance, PTL DEF Spec, StopFlushes

-----------------------------------------------------------------------------
(* The driver.                                                             *)

\* Once the main thread waits no more, all has been handled.
Late == {"stop", "stopping", "report", "leave", "done"}

\* Nobody else calls the feed.
Alone == ~raced /\ \A c \in Controllers \ {Main} : controller[c] = "idle"

\* The counters have not wrapped: what was sent has been handled, is in hand or
\* is in the ring, and the handler's count is one ahead of consumed_ at times.
Accounts ==
  /\ at \in {"register", "start", "starting", "publish"} \cup Late
  /\ sent \in 0 .. TickCount /\ published = sent
  /\ publisher = "count" => at = "publish" /\ sent < TickCount
  /\ received \in Nat /\ consumed \in Nat
  /\ received = consumed + (IF consumer.pc = "count" THEN 1 ELSE 0)
  /\ sent + Pending = received + (IF consumer.pc = "handle" THEN 1 ELSE 0) + Len(ring)
  /\ ~handler => at = "register"
  /\ at = "register" => consumer.pc = "none"
  /\ at \in Late => sent = TickCount /\ received = TickCount
  /\ at = "report" => consumer.pc = "none"

DriverIInv == IInv /\ Alone /\ Accounts

LEMMA InitDriver == DriverInit => DriverIInv
<1>. SUFFICES ASSUME DriverInit PROVE DriverIInv
  OBVIOUS
<1>1. IInv
  BY InitIInv DEF DriverInit
<1>2. /\ ring = <<>> /\ Len(ring) = 0 /\ publisher = "idle" /\ consumer.pc = "none"
      /\ published = 0 /\ consumed = 0 /\ at = "register" /\ sent = 0 /\ received = 0 /\ ~raced
      /\ \A c \in Controllers : controller[c] = "idle"
  BY DEF DriverInit, Init, NoThread
<1>. QED
  BY <1>1, <1>2, DriverAssumption DEF DriverIInv, Alone, Accounts, Pending, Late

\* The steps, one by one.
LEMMA DriverSteps ==
  ASSUME DriverNext
  PROVE  /\ NoteRace
         /\ \/ /\ \/ RegisterHandler(Main) \/ StartExchange(Main) \/ AssignThread(Main)
                  \/ Stop(Main, Len(ring)) \/ Join(Main) \/ StopReturned(Main)
                  \/ Destroy(Main, Len(ring)) \/ DestroyMembers(Main)
               /\ UNCHANGED <<sent, received>>
            \/ at = "publish" /\ sent < TickCount /\ at' = at /\ received' = received
               /\ \/ (Drop \/ Enqueue) /\ sent' = sent
                  \/ CountPublished /\ sent' = sent + 1
            \/ DriverWait
            \/ DriverHandler
            \/ (SeeTick \/ SeeRoom) /\ UNCHANGED <<at, sent, received>>
BY DEF DriverNext, Driver, DriverStart, DriverPublish, DriverStop, DriverLeave, DriverStores, Inside

LEMMA DriverStaysAlone ==
  ASSUME TypeOK, Alone, DriverNext
  PROVE  Alone' /\ [Next]_vars
<1>0. /\ controller \in [Controllers -> {"idle", "assign", "join", "join_last", "stopped", "destroy"}]
      /\ raced \in BOOLEAN /\ Main \in Controllers
  BY DriverAssumption DEF TypeOK
<1>1. /\ \/ controller' = controller
         \/ \E pc : controller' = [controller EXCEPT ![Main] = pc]
      /\ alive' => alive
  <2>1. CASE RegisterHandler(Main) \/ Stop(Main, Len(ring)) \/ StopReturned(Main)
             \/ StartExchange(Main) \/ AssignThread(Main)
    BY <2>1 DEF RegisterHandler, Stop, StopExchange, StopReturned, StartExchange, AssignThread, life
  <2>2. CASE Destroy(Main, Len(ring)) \/ DestroyMembers(Main)
    BY <2>2 DEF Destroy, StopExchange, DestroyMembers, life
  <2>3. CASE Join(Main)
    BY <2>3 DEF Join, life
  <2>4. CASE Drop \/ Enqueue \/ CountPublished \/ SeeTick \/ SeeRoom \/ DriverWait
    BY <2>4 DEF Drop, Enqueue, CountPublished, SeeTick, SeeRoom, DriverWait, feedVars, life
  <2>5. CASE DriverHandler
    BY <2>5 DEF DriverHandler, ConsumerLoop, LoadRunning, LoadEmpty, PopNothing, PopTick, Handle,
                CountConsumed, life
  <2>. QED BY <2>1, <2>2, <2>3, <2>4, <2>5, DriverSteps
<1>2. \A c \in Controllers \ {Main} : controller'[c] = "idle"
  BY <1>0, <1>1 DEF Alone
<1>3. ~Overlap'
  BY <1>2 DEF Overlap
<1>4. raced = FALSE /\ raced' = FALSE
  <2>1. raced' = IF alive' /\ ~alive THEN FALSE ELSE raced \/ Overlap'
    BY DriverSteps DEF NoteRace
  <2>. QED BY <1>0, <1>1, <1>3, <2>1, Zenon DEF Alone
<1>5. ASSUME DriverWait PROVE [Next]_vars
  BY <1>4, <1>5 DEF DriverWait, vars
<1>6. ASSUME ~DriverWait PROVE [Next]_vars
  <2>1. NoteRace
    BY DriverSteps
  <2>2. FeedNext
    <3>1. Len(ring) \in 0 .. Len(ring)
      BY DEF TypeOK
    <3>2. CASE \/ RegisterHandler(Main) \/ StartExchange(Main) \/ AssignThread(Main)
               \/ Stop(Main, Len(ring)) \/ Join(Main) \/ StopReturned(Main)
               \/ Destroy(Main, Len(ring)) \/ DestroyMembers(Main)
      <4>1. Control(Main)
        BY <3>1, <3>2, Zenon DEF Control, Controlled
      <4>. QED BY <1>0, <4>1 DEF FeedNext
    <3>3. CASE Drop \/ Enqueue \/ CountPublished \/ SeeTick \/ SeeRoom \/ ConsumerLoop
      BY <3>3 DEF FeedNext, Publish
    <3>. QED BY <1>6, <3>2, <3>3, DriverSteps DEF DriverHandler
  <2>. QED BY <2>1, <2>2 DEF Next
<1>. QED
  BY <1>2, <1>4, <1>5, <1>6 DEF Alone

LEMMA StepAccounts ==
  ASSUME DriverIInv, DriverNext
  PROVE  Accounts'
<1>0. /\ IInv /\ Alone /\ Accounts /\ CounterMod \in Nat /\ TickCount \in Nat /\ TickCount < CounterMod
      /\ Len(ring) \in Nat /\ seen \in 0 .. Len(ring) /\ Orderly /\ Main \in Controllers
  BY FeedAssumption, DriverAssumption DEF DriverIInv, IInv, Alone, TypeOK
<1>1. /\ joinable <=> consumer.pc # "none"
      /\ controller[Main] = "assign" => ~joinable
      /\ controller[Main] = "stopped" => ~joinable
      /\ controller[Main] \in {"idle", "assign", "join", "join_last", "stopped", "destroy"}
      /\ consumer.pc \in {"none", "load_running", "load_empty", "pop", "handle", "count", "finished"}
      /\ publisher \in {"idle", "count"}
  BY <1>0 DEF IInv, ThreadIsKnown, Orderly, CallsAreInOrder, TypeOK
\* The start.
<1>2. CASE DriverStart
  <2>1. CASE at = "register" /\ RegisterHandler(Main) /\ Inside("start")
    BY <1>0, <2>1 DEF RegisterHandler, Inside, Accounts, Pending, Late, counters
  <2>2. CASE at = "start" /\ StartExchange(Main) /\ Inside("starting")
    BY <1>0, <2>2 DEF StartExchange, Inside, Accounts, Pending, Late, counters, life
  <2>3. CASE at = "starting" /\ AssignThread(Main) /\ Inside("publish")
    <3>1. consumer.pc = "none" /\ consumer'.pc = "load_running"
      BY <1>1, <2>3 DEF AssignThread, NewThread
    <3>. QED BY <1>0, <2>3, <3>1 DEF AssignThread, Inside, Accounts, Pending, Late, counters
  <2>. QED BY <1>2, <2>1, <2>2, <2>3 DEF DriverStart
\* Publishing.
<1>3. CASE at = "publish" /\ sent < TickCount /\ Drop /\ Inside("publish")
  BY <1>0, <1>3 DEF Drop, Inside, Accounts, Pending, Late, life
<1>4. CASE at = "publish" /\ sent < TickCount /\ Enqueue /\ Inside("publish")
  <2>1. publisher = "idle" /\ publisher' = "count" /\ ring' = Append(ring, published)
        /\ UNCHANGED <<consumer, published, consumed, handler>>
    BY <1>4 DEF Enqueue, MayPublish, Ring!Put, counters, life
  <2>2. Len(ring') = Len(ring) + 1
    BY <1>0, <2>1 DEF IInv, TypeOK
  <2>. QED BY <1>0, <1>4, <2>1, <2>2 DEF Inside, Accounts, Pending, Late
<1>5. CASE at = "publish" /\ sent < TickCount /\ CountPublished /\ at' = "publish"
           /\ sent' = sent + 1 /\ received' = received
  <2>1. publisher = "count" /\ publisher' = "idle"
        /\ UNCHANGED <<ring, consumer, consumed, handler>> /\ published' = (published + 1) % CounterMod
    BY <1>5 DEF CountPublished, life, Up
  <2>2. published' = published + 1
    <3>1. published + 1 \in 0 .. CounterMod - 1
      BY <1>0, <1>5 DEF Accounts
    <3>. QED BY <1>0, <2>1, <3>1, FeedAssumption, ModOfSmall
  <2>. QED BY <1>0, <1>5, <2>1, <2>2 DEF Accounts, Pending, Late
<1>6. CASE DriverWait
  <2>1. Pending = 0
    BY <1>0, <1>1, <1>6 DEF DriverWait, Accounts, Pending
  <2>2. received = TickCount
    BY <1>0, <1>6, <2>1 DEF DriverWait, Accounts
  <2>. QED BY <1>0, <1>6, <2>1, <2>2 DEF DriverWait, Accounts, Pending, Late, feedVars, counters, life
\* The stop, and the end of the feed.
<1>7. CASE at = "stop" /\ Stop(Main, Len(ring)) /\ Inside("stopping")
  BY <1>0, <1>7 DEF Stop, StopExchange, Inside, Accounts, Pending, Late, counters, life
<1>8. CASE at = "stopping" /\ Join(Main)
           /\ Inside(IF controller'[Main] = "idle" THEN "report" ELSE "stopping")
  <2>1. controller'[Main] # "idle"
    BY <1>0, <1>8 DEF Join, IInv, TypeOK
  <2>2. consumer'.pc # "handle" /\ consumer.pc # "handle" /\ consumer'.pc # "count" /\ consumer.pc # "count"
    BY <1>1, <1>8 DEF Join, NoThread
  <2>. QED BY <1>0, <1>8, <2>1, <2>2 DEF Join, Inside, Accounts, Pending, Late, counters, life
<1>9. CASE at = "stopping" /\ StopReturned(Main)
           /\ Inside(IF controller'[Main] = "idle" THEN "report" ELSE "stopping")
  <2>1. consumer.pc = "none" /\ consumer' = consumer
    BY <1>1, <1>9 DEF StopReturned
  <2>. QED BY <1>0, <1>9, <2>1 DEF StopReturned, Inside, Accounts, Pending, Late, counters, life
<1>10. CASE DriverLeave
  BY <1>0, <1>10 DEF DriverLeave, Destroy, StopExchange, DestroyMembers, Inside, Accounts, Pending,
                     Late, counters, life
\* The consumer thread.
<1>11. CASE DriverHandler
  <2>0. UNCHANGED <<at, sent, publisher, published, handler>>
        /\ received' = IF consumer.pc = "handle" /\ handler THEN received + 1 ELSE received
    BY <1>11 DEF DriverHandler, ConsumerLoop, LoadRunning, LoadEmpty, PopNothing, PopTick, Handle,
                 CountConsumed, counters, life
  <2>1. CASE LoadRunning \/ LoadEmpty \/ PopNothing
    <3>1. consumer.pc \notin {"none", "handle", "count"} /\ consumer'.pc \notin {"none", "handle", "count"}
          /\ UNCHANGED <<ring, consumed>>
      BY <1>0, <2>1 DEF LoadRunning, LoadEmpty, PopNothing, counters, IInv, TypeOK
    <3>. QED BY <1>0, <2>0, <3>1 DEF Accounts, Pending
  <2>2. CASE PopTick
    <3>1. consumer.pc = "pop" /\ consumed' = consumed
      BY <2>2 DEF PopTick, counters
    <3>2. Len(ring') = Len(ring) - 1 /\ consumer'.pc = "handle" /\ Len(ring) > 0
      BY <1>0, <2>2, PopTickTakes DEF IInv
    <3>. QED BY <1>0, <2>0, <3>1, <3>2 DEF Accounts, Pending
  <2>3. CASE Handle
    <3>1. consumer.pc = "handle" /\ consumer'.pc = "count" /\ UNCHANGED <<ring, consumed>>
      BY <1>0, <2>3 DEF Handle, counters, IInv, TypeOK
    <3>2. handler /\ received' = received + 1
      BY <1>0, <2>0, <3>1 DEF Accounts
    <3>3. at \notin Late
      BY <1>0, <3>1 DEF Accounts, Pending
    <3>. QED BY <1>0, <2>0, <3>1, <3>2, <3>3 DEF Accounts, Pending
  <2>4. CASE CountConsumed
    <3>1. consumer.pc = "count" /\ consumer'.pc = "load_running" /\ ring' = ring
          /\ consumed' = (consumed + 1) % CounterMod
      BY <2>4 DEF CountConsumed, NewThread, Up
    <3>2. consumed + 1 = received /\ received <= TickCount
      BY <1>0, <1>1, <3>1 DEF Accounts, Pending
    <3>3. consumed' = consumed + 1
      <4>1. consumed + 1 \in 0 .. CounterMod - 1
        BY <1>0, <3>2 DEF Accounts
      <4>. QED BY <1>0, <3>1, <4>1, FeedAssumption, ModOfSmall
    <3>. QED BY <1>0, <2>0, <3>1, <3>2, <3>3 DEF Accounts, Pending
  <2>. QED BY <1>11, <2>1, <2>2, <2>3, <2>4 DEF DriverHandler, ConsumerLoop
<1>12. CASE DriverStores
  <2>1. UNCHANGED <<ring, consumer, publisher, published, consumed, handler, at, sent, received>>
    BY <1>12 DEF DriverStores, SeeTick, SeeRoom, Ring!SeeItem, Ring!SeeRoom, counters, life
  <2>. QED BY <1>0, <2>1 DEF Accounts, Pending
<1>. QED
  BY <1>2, <1>3, <1>4, <1>5, <1>6, <1>7, <1>8, <1>9, <1>10, <1>11, <1>12
     DEF DriverNext, Driver, DriverPublish, DriverStop

LEMMA NextDriver ==
  ASSUME DriverIInv, [DriverNext]_<<dvars, raced>>
  PROVE  DriverIInv' /\ [Next]_vars
<1>1. CASE DriverNext
  <2>1. Alone' /\ [Next]_vars
    BY <1>1, DriverStaysAlone DEF DriverIInv, IInv
  <2>2. IInv'
    BY <2>1, NextIInv DEF DriverIInv
  <2>. QED BY <1>1, <2>1, <2>2, StepAccounts DEF DriverIInv
<1>2. CASE UNCHANGED <<dvars, raced>>
  <2>1. UNCHANGED vars
    BY <1>2 DEF dvars, vars
  <2>2. IInv'
    BY <2>1, NextIInv DEF DriverIInv
  <2>3. Alone' /\ Accounts'
    BY <1>2 DEF DriverIInv, Alone, Accounts, Pending, dvars, feedVars, counters, life
  <2>. QED BY <2>1, <2>2, <2>3 DEF DriverIInv
<1>. QED BY <1>1, <1>2

\* The test in main.cpp calls the feed as its specification lets it be called:
\* every run of the driver is a run of the feed, and what is proved of the feed
\* holds of it; in particular its calls of start and stop never overlap.
THEOREM DriverUsesFeed == DriverSpec => Init /\ [][Next]_vars
<1>1. DriverInit => Init /\ DriverIInv
  BY InitDriver DEF DriverInit
<1>2. DriverIInv /\ [DriverNext]_<<dvars, raced>> => DriverIInv' /\ [Next]_vars
  BY NextDriver
<1>. QED BY <1>1, <1>2, PTL DEF DriverSpec

\* Both assertions after stop hold, and the three counters agree, for any
\* number of ticks that the counters can count, any ring and any schedule of
\* the two threads (main.cpp, test_market_data_feed).
THEOREM CountersAgree == DriverSpec => []CountersAgreeAtTheEnd
<1>1. DriverInit => DriverIInv
  BY InitDriver
<1>2. DriverIInv /\ [DriverNext]_<<dvars, raced>> => DriverIInv'
  BY NextDriver
<1>3. DriverIInv => CountersAgreeAtTheEnd
  BY DEF DriverIInv, Accounts, Late, CountersAgreeAtTheEnd
<1>. QED BY <1>1, <1>2, <1>3, PTL DEF DriverSpec

=============================================================================
