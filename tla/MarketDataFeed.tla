---------------------------- MODULE MarketDataFeed ----------------------------
(***************************************************************************)
(* The market data feed (market_data_feed.hpp, market_data_feed.cpp): a    *)
(* publishing thread, the consumer thread that drains the ring and calls   *)
(* the handler, and the threads that start and stop the feed.              *)
(*                                                                         *)
(* The ring is the queue of module LaggingFifo, which the ring buffer      *)
(* implements: the consumer sees the first `seen` ticks only, and places   *)
(* come free for the publisher some time after they were emptied.          *)
(* A load of running_ that returns an old value is the same load made      *)
(* earlier, since the consumer does nothing in between.                    *)
(***************************************************************************)
EXTENDS Integers, Sequences, SequencesExt

CONSTANTS
  Controllers,  \* the threads that call start, stop and the destructor
  Room,         \* RING_SIZE - 1: how many ticks fit
  CounterMod    \* the counters, and the numbers of ticks, wrap here (2^64)

ASSUME FeedAssumption ==
  /\ Controllers # {}
  /\ Room \in Nat \ {0}
  /\ CounterMod \in Nat /\ CounterMod > Room + 2

VARIABLES
  ring,        \* ring_: the numbers of the ticks inside, oldest first
  seen,        \* how many of them the consumer's view of head_ has reached
  unseen,      \* how many empty places the publisher still takes for full
  running,     \* running_
  joinable,    \* consumer_thread_.joinable()
  handler,     \* handler_ is set
  consumer,    \* [pc, tick]: where consumer_loop is and the tick in hand
  publisher,   \* where publish is
  controller,  \* where each controller's call is
  published,   \* published_
  consumed,    \* consumed_
  dropped,     \* dropped_
  alive,       \* the feed is constructed and not yet destroyed
  aborted,     \* std::terminate was called
  flush,       \* history: how many of the ticks in the ring the thread that
               \* called stop knew of
  raced        \* history: calls of start and stop on this feed have overlapped

counters == <<published, consumed, dropped>>
life     == <<handler, alive, aborted>>
feedVars == <<ring, seen, unseen, running, joinable, consumer, publisher, controller,
              counters, life, flush>>
vars     == <<feedVars, raced>>

Number    == 0 .. CounterMod - 1
Up(n)     == (n + 1) % CounterMod
NoThread  == [pc |-> "none", tick |-> 0]
NewThread == [pc |-> "load_running", tick |-> 0]

Init ==
  /\ ring = <<>> /\ seen = 0 /\ unseen = 0
  /\ running = FALSE /\ joinable = FALSE /\ handler = FALSE
  /\ consumer = NoThread
  /\ publisher = "idle"
  /\ controller = [c \in Controllers |-> "idle"]
  /\ published = 0 /\ consumed = 0 /\ dropped = 0
  /\ alive = TRUE /\ aborted = FALSE
  /\ flush = 0 /\ raced = FALSE

\* There is a feed, in a process that runs.
Usable == alive /\ ~aborted

\* It is for the destructor's caller to see that nobody calls any more.
Callable   == Usable /\ \A c \in Controllers : controller[c] \notin {"join_last", "destroy"}
MayPublish == Callable /\ publisher = "idle"

Ring == INSTANCE LaggingFifo WITH Values <- Number, Bound <- Room, q <- ring

-----------------------------------------------------------------------------
(* publish.                                                                *)

\* push, and then the counter.  A tick is known by its number.
Enqueue ==
  /\ MayPublish
  /\ Ring!Put(published)
  /\ publisher' = "count"
  /\ UNCHANGED <<running, joinable, consumer, controller, counters, life, flush>>

CountPublished ==
  /\ Usable /\ publisher = "count"
  /\ published' = Up(published)
  /\ publisher' = "idle"
  /\ UNCHANGED <<ring, seen, unseen, running, joinable, consumer, controller,
                 consumed, dropped, life, flush>>

\* Seeded fault: published_ is raised whatever push returned.
DropCountsAsPublished ==
  /\ MayPublish
  /\ Ring!LooksFull
  /\ published' = Up(published)
  /\ UNCHANGED <<ring, seen, unseen, running, joinable, consumer, publisher, controller,
                 consumed, dropped, life, flush>>

Drop ==
  /\ MayPublish
  /\ Ring!LooksFull
  /\ dropped' = Up(dropped)
  /\ UNCHANGED <<ring, seen, unseen, running, joinable, consumer, publisher, controller,
                 published, consumed, life, flush>>

-----------------------------------------------------------------------------
(* consumer_loop.                                                          *)

\* Seeded fault: a relaxed load, which brings nothing along.
LoadRunningRelaxed ==
  /\ Usable /\ consumer.pc = "load_running"
  /\ consumer' = [consumer EXCEPT !.pc = IF running THEN "pop" ELSE "load_empty"]
  /\ UNCHANGED <<ring, seen, unseen, running, joinable, publisher, controller,
                 counters, life, flush>>

\* The acquire load of running_.  With the false that stop stored comes all
\* that stop's caller knew of.
LoadRunning ==
  /\ Usable /\ consumer.pc = "load_running"
  /\ consumer' = [consumer EXCEPT !.pc = IF running THEN "pop" ELSE "load_empty"]
  /\ seen' = IF ~running /\ flush > seen THEN flush ELSE seen
  /\ UNCHANGED <<ring, unseen, running, joinable, publisher, controller, counters, life, flush>>

LoadEmpty ==
  /\ Usable /\ consumer.pc = "load_empty"
  /\ consumer' = [consumer EXCEPT !.pc = IF Ring!LooksEmpty THEN "finished" ELSE "pop"]
  /\ UNCHANGED <<ring, seen, unseen, running, joinable, publisher, controller,
                 counters, life, flush>>

\* Seeded fault: an empty ring ends the loop.
PopNothingLeaves ==
  /\ Usable /\ consumer.pc = "pop"
  /\ Ring!LooksEmpty
  /\ consumer' = [consumer EXCEPT !.pc = "finished"]
  /\ UNCHANGED <<ring, seen, unseen, running, joinable, publisher, controller,
                 counters, life, flush>>

PopNothing ==
  /\ Usable /\ consumer.pc = "pop"
  /\ Ring!LooksEmpty
  /\ consumer' = [consumer EXCEPT !.pc = "load_running"]
  /\ UNCHANGED <<ring, seen, unseen, running, joinable, publisher, controller,
                 counters, life, flush>>

\* Seeded faults: peek in place of pop; the view does not move with the tail.
PopTickPeeks ==
  /\ Usable /\ consumer.pc = "pop"
  /\ ~Ring!LooksEmpty
  /\ consumer' = [pc |-> "handle", tick |-> Head(ring)]
  /\ UNCHANGED <<ring, seen, unseen, running, joinable, publisher, controller,
                 counters, life, flush>>

PopTickKeepsView ==
  /\ Usable /\ consumer.pc = "pop"
  /\ ~Ring!LooksEmpty
  /\ consumer' = [pc |-> "handle", tick |-> Head(ring)]
  /\ ring' = Tail(ring)
  /\ unseen' = unseen + 1
  /\ flush' = IF flush > 0 THEN flush - 1 ELSE 0
  /\ UNCHANGED <<seen, running, joinable, publisher, controller, counters, life>>

PopTick ==
  /\ Usable /\ consumer.pc = "pop"
  /\ Ring!Take
  /\ consumer' = [pc |-> "handle", tick |-> Head(ring)]
  /\ flush' = IF flush > 0 THEN flush - 1 ELSE 0
  /\ UNCHANGED <<running, joinable, publisher, controller, counters, life>>

\* handler_, if there is one, runs and returns.
Handle ==
  /\ Usable /\ consumer.pc = "handle"
  /\ consumer' = [consumer EXCEPT !.pc = "count"]
  /\ UNCHANGED <<ring, seen, unseen, running, joinable, publisher, controller,
                 counters, life, flush>>

CountConsumed ==
  /\ Usable /\ consumer.pc = "count"
  /\ consumer' = NewThread
  /\ consumed' = Up(consumed)
  /\ UNCHANGED <<ring, seen, unseen, running, joinable, publisher, controller,
                 published, dropped, life, flush>>

-----------------------------------------------------------------------------
(* register_handler and start.                                             *)

\* "Must be called before start()."
RegisterHandler(c) ==
  /\ Callable /\ controller[c] = "idle"
  /\ ~running /\ consumer.pc = "none"
  /\ handler' = TRUE
  /\ UNCHANGED <<ring, seen, unseen, running, joinable, consumer, publisher, controller,
                 counters, alive, aborted, flush>>

StartRefused(c) ==
  /\ Callable /\ controller[c] = "idle"
  /\ running
  /\ UNCHANGED feedVars

StartExchange(c) ==
  /\ Callable /\ controller[c] = "idle"
  /\ ~running
  /\ running' = TRUE
  /\ controller' = [controller EXCEPT ![c] = "assign"]
  /\ UNCHANGED <<ring, seen, unseen, joinable, consumer, publisher, counters, life, flush>>

\* consumer_thread_ = std::thread(...): assigning over a thread that nobody
\* joined ends the process.
AssignThread(c) ==
  /\ Usable /\ controller[c] = "assign"
  /\ aborted' = joinable
  /\ joinable' = TRUE
  /\ consumer' = IF joinable THEN consumer ELSE NewThread
  /\ controller' = [controller EXCEPT ![c] = "idle"]
  /\ UNCHANGED <<ring, seen, unseen, running, publisher, counters, handler, alive, flush>>

-----------------------------------------------------------------------------
(* stop and the destructor, which calls it and then destroys the members.  *)

\* Seeded fault: the exchange is a load.
StopExchangeKeepsRunning(c, known, pc) ==
  /\ running
  /\ flush' = known
  /\ controller' = [controller EXCEPT ![c] = pc]
  /\ UNCHANGED <<ring, seen, unseen, running, joinable, consumer, publisher, counters, life>>

\* The exchange in stop.  Its caller has published the ticks itself, or knows
\* from the publisher of the first `known` ticks in the ring.
StopExchange(c, known, pc) ==
  /\ running
  /\ running' = FALSE
  /\ flush' = known
  /\ controller' = [controller EXCEPT ![c] = pc]
  /\ UNCHANGED <<ring, seen, unseen, joinable, consumer, publisher, counters, life>>

Stop(c, known) ==
  /\ Callable /\ controller[c] = "idle"
  /\ StopExchange(c, known, "join")

\* "already stopped"
StopRefused(c) ==
  /\ Callable /\ controller[c] = "idle"
  /\ ~running
  /\ controller' = [controller EXCEPT ![c] = "stopped"]
  /\ UNCHANGED <<ring, seen, unseen, running, joinable, consumer, publisher,
                 counters, life, flush>>

\* Seeded fault: joins only if the thread has ended already.
JoinNobody(c) ==
  /\ Usable /\ controller[c] \in {"join", "join_last"}
  /\ controller' = [controller EXCEPT ![c] = IF @ = "join" THEN "stopped" ELSE "destroy"]
  /\ UNCHANGED <<ring, seen, unseen, running, joinable, consumer, publisher,
                 counters, life, flush>>

\* Returns when consumer_loop has; if there is no thread to join, at once.
Join(c) ==
  /\ Usable /\ controller[c] \in {"join", "join_last"}
  /\ joinable => consumer.pc = "finished"
  /\ joinable' = FALSE
  /\ consumer' = IF joinable THEN NoThread ELSE consumer
  /\ controller' = [controller EXCEPT ![c] = IF @ = "join" THEN "stopped" ELSE "destroy"]
  /\ UNCHANGED <<ring, seen, unseen, running, publisher, counters, life, flush>>

\* stop's caller goes on.
StopReturned(c) ==
  /\ Usable /\ controller[c] = "stopped"
  /\ controller' = [controller EXCEPT ![c] = "idle"]
  /\ UNCHANGED <<ring, seen, unseen, running, joinable, consumer, publisher,
                 counters, life, flush>>

Destroy(c, known) ==
  /\ Usable /\ publisher = "idle"
  /\ \A d \in Controllers : controller[d] = "idle"
  /\ \/ StopExchange(c, known, "join_last")
     \/ /\ ~running
        /\ controller' = [controller EXCEPT ![c] = "destroy"]
        /\ UNCHANGED <<ring, seen, unseen, running, joinable, consumer, publisher,
                       counters, life, flush>>

\* ~thread ends the process if nobody joined.
DestroyMembers(c) ==
  /\ Usable /\ controller[c] = "destroy"
  /\ aborted' = joinable
  /\ alive' = FALSE
  /\ controller' = [controller EXCEPT ![c] = "idle"]
  /\ UNCHANGED <<ring, seen, unseen, running, joinable, handler, consumer, publisher,
                 counters, flush>>

\* Another feed.
Construct ==
  /\ ~alive /\ ~aborted
  /\ ring' = <<>> /\ seen' = 0 /\ unseen' = 0
  /\ running' = FALSE /\ joinable' = FALSE /\ handler' = FALSE
  /\ consumer' = NoThread
  /\ published' = 0 /\ consumed' = 0 /\ dropped' = 0
  /\ alive' = TRUE
  /\ flush' = 0
  /\ UNCHANGED <<publisher, controller, aborted>>

-----------------------------------------------------------------------------
(* A store to head_ or to tail_ reaches the other side.                    *)

SeeTick ==
  /\ Usable /\ Ring!SeeItem
  /\ UNCHANGED <<running, joinable, consumer, publisher, controller,
                 counters, life, flush>>

SeeRoom ==
  /\ Usable /\ Ring!SeeRoom
  /\ UNCHANGED <<running, joinable, consumer, publisher, controller,
                 counters, life, flush>>

ConsumerLoop ==
  \/ LoadRunning \/ LoadEmpty \/ PopNothing \/ PopTick \/ Handle \/ CountConsumed

Publish == Enqueue \/ CountPublished \/ Drop

\* A call of start, stop or the destructor goes on.
Controlled(c) == AssignThread(c) \/ Join(c) \/ StopReturned(c) \/ DestroyMembers(c)

Control(c) ==
  \/ RegisterHandler(c) \/ StartRefused(c) \/ StartExchange(c) \/ StopRefused(c) \/ Controlled(c)
  \/ \E known \in 0 .. Len(ring) : Stop(c, known) \/ Destroy(c, known)

\* The process has ended.
Ended == aborted /\ UNCHANGED feedVars

\* Two threads in start, stop or the destructor of one feed.
Overlap == \E c, d \in Controllers : c # d /\ controller[c] # "idle" /\ controller[d] # "idle"

NoteRace == raced' = IF alive' /\ ~alive THEN FALSE ELSE raced \/ Overlap'

FeedNext ==
  \/ Publish \/ ConsumerLoop \/ SeeTick \/ SeeRoom \/ Construct \/ Ended
  \/ \E c \in Controllers : Control(c)

Next == FeedNext /\ NoteRace

\* Threads that are in a call or in the loop keep running, and stores arrive.
\* Nobody has to publish, start or stop.
Fairness ==
  /\ WF_feedVars(ConsumerLoop) /\ WF_feedVars(CountPublished)
  /\ WF_feedVars(SeeTick) /\ WF_feedVars(SeeRoom)
  /\ \A c \in Controllers : WF_feedVars(Controlled(c))

Spec == Init /\ [][Next]_vars /\ Fairness

-----------------------------------------------------------------------------
(* Properties.                                                             *)

\* Every variable has its type.
TypeOK ==
  /\ ring \in Seq(Number) /\ Len(ring) <= Room
  /\ seen \in 0 .. Len(ring) /\ unseen \in 0 .. Room - Len(ring)
  /\ running \in BOOLEAN /\ joinable \in BOOLEAN /\ handler \in BOOLEAN
  /\ consumer \in [pc : {"none", "load_running", "load_empty", "pop", "handle", "count",
                         "finished"}, tick : Number]
  /\ publisher \in {"idle", "count"}
  /\ controller \in [Controllers -> {"idle", "assign", "join", "join_last", "stopped", "destroy"}]
  /\ published \in Number /\ consumed \in Number /\ dropped \in Number
  /\ alive \in BOOLEAN /\ aborted \in BOOLEAN
  /\ flush \in 0 .. Len(ring) /\ raced \in BOOLEAN

\* ticks_published and ticks_consumed, raised by two threads after the fact,
\* differ by what is in the ring, in the handler or not yet counted: nothing
\* gets lost between the two, over any number of starts and stops, though
\* consumed_ may run ahead of published_.
NothingGetsLost ==
  (published - consumed) % CounterMod =
    (Len(ring) + (IF consumer.pc \in {"handle", "count"} THEN 1 ELSE 0)
               - (IF publisher = "count" THEN 1 ELSE 0)) % CounterMod

\* The handler gets the ticks in the order they were published, each once,
\* also when one thread ends and another takes over.
HandledInOrder == consumer.pc = "handle" => consumer.tick = consumed

\* "Stop the consumer thread and flush remaining ticks"
\* (market_data_feed.hpp:48): when stop returns, no thread is left that would
\* call the handler, and the ticks its caller knew of have all been handled;
\* unless another thread is in start or stop, for then the running_ that stop
\* finds says nothing of the thread.
StopFlushes ==
  [][\A c \in Controllers :
       (controller[c] # "stopped" /\ controller'[c] = "stopped" /\ ~raced')
         => consumer'.pc = "none" /\ flush' = 0]_vars

\* start never drops a thread that runs, and a feed is not destroyed with one,
\* unless its calls have overlapped.
NeverAborts == aborted => raced

\* stop returns, unless the publisher publishes again and again: only an empty
\* ring lets the consumer go.
StopReturnsIfPublisherRests ==
  \/ []<><<Enqueue>>_feedVars
  \/ \A c \in Controllers :
       controller[c] \in {"join", "join_last"}
         ~> controller[c] \notin {"join", "join_last"} \/ aborted

\* While the feed runs, each tick in the ring gets to the handler.
TicksGetHandled ==
  \A n \in Number :
    (running /\ n \in ToSet(ring)) ~> (~running \/ n \notin ToSet(ring) \/ aborted)

=============================================================================
