------------------------------ MODULE FeedDriver ------------------------------
(***************************************************************************)
(* The program's own use of the feed: test_market_data_feed in main.cpp.   *)
(* The main thread starts the feed, publishes its ticks, trying again when *)
(* one is dropped, waits for the handler to have counted them all, stops   *)
(* the feed, looks at the counters and lets the feed go.                   *)
(***************************************************************************)
EXTENDS MarketDataFeed

CONSTANTS
  Main,       \* the main thread
  TickCount   \* TICK_COUNT

ASSUME DriverAssumption ==
  /\ Main \in Controllers
  /\ TickCount \in Nat /\ TickCount < CounterMod

VARIABLES
  at,       \* where the main thread is
  sent,     \* i: how many ticks it has published
  received  \* the handler's counter

dvars == <<feedVars, at, sent, received>>

DriverInit == Init /\ at = "register" /\ sent = 0 /\ received = 0

\* One step of the main thread inside the feed leaves its own variables alone.
Inside(next) == at' = next /\ UNCHANGED <<sent, received>>

DriverStart ==
  \/ at = "register" /\ RegisterHandler(Main) /\ Inside("start")
  \/ at = "start" /\ StartExchange(Main) /\ Inside("starting")
  \/ at = "starting" /\ AssignThread(Main) /\ Inside("publish")

\* Seeded fault: a dropped tick is given up.
DriverPublishOnce ==
  /\ at = "publish" /\ sent < TickCount
  /\ \/ Drop /\ at' = "publish" /\ sent' = sent + 1 /\ UNCHANGED received
     \/ Enqueue /\ Inside("publish")
     \/ CountPublished /\ at' = "publish" /\ sent' = sent + 1 /\ UNCHANGED received

\* while (!feed.publish(tick)) yield
DriverPublish ==
  /\ at = "publish" /\ sent < TickCount
  /\ \/ Drop /\ Inside("publish")
     \/ Enqueue /\ Inside("publish")
     \/ CountPublished /\ at' = "publish" /\ sent' = sent + 1 /\ UNCHANGED received

DriverWait ==
  /\ at = "publish" /\ sent = TickCount
  /\ received >= TickCount
  /\ at' = "stop"
  /\ UNCHANGED <<feedVars, sent, received>>

\* Seeded fault: the counters are looked at before the thread was joined.
DriverStopEarly ==
  \/ at = "stop" /\ Stop(Main, Len(ring)) /\ Inside("report")
  \/ at = "stopping" /\ (Join(Main) \/ StopReturned(Main))
       /\ Inside(IF controller'[Main] = "idle" THEN "report" ELSE "stopping")

DriverStop ==
  \/ at = "stop" /\ Stop(Main, Len(ring)) /\ Inside("stopping")
  \/ at = "stopping" /\ (Join(Main) \/ StopReturned(Main))
       /\ Inside(IF controller'[Main] = "idle" THEN "report" ELSE "stopping")

\* The end of the function destroys the feed.
DriverLeave ==
  \/ at = "report" /\ Destroy(Main, Len(ring)) /\ Inside("leave")
  \/ at = "leave" /\ DestroyMembers(Main) /\ Inside("done")

Driver == DriverStart \/ DriverPublish \/ DriverWait \/ DriverStop \/ DriverLeave

\* The consumer thread, whose handler counts the ticks.
DriverHandler ==
  /\ ConsumerLoop
  /\ received' = IF consumer.pc = "handle" /\ handler THEN received + 1 ELSE received
  /\ UNCHANGED <<at, sent>>

DriverStores == (SeeTick \/ SeeRoom) /\ UNCHANGED <<at, sent, received>>

DriverNext == (Driver \/ DriverHandler \/ DriverStores) /\ NoteRace

DriverSpec ==
  /\ DriverInit /\ [][DriverNext]_<<dvars, raced>>
  /\ WF_dvars(Driver) /\ WF_dvars(DriverHandler)
  /\ WF_dvars(SeeTick /\ UNCHANGED <<at, sent, received>>)
  /\ WF_dvars(SeeRoom /\ UNCHANGED <<at, sent, received>>)

-----------------------------------------------------------------------------
(* Properties.                                                             *)

\* The two assertions after stop hold, and the numbers printed next to them
\* agree: every tick published, handled and counted, however many were dropped
\* and tried again.
CountersAgreeAtTheEnd ==
  at = "report" => published = TickCount /\ received = TickCount /\ consumed = TickCount

\* The driver gets to its end, and the feed is destroyed without an abort.
DriverEnds == <>(at = "done" /\ ~aborted)

=============================================================================
