------------------------------ MODULE MemoryPool ------------------------------
(***************************************************************************)
(* The lock-free pool (memory_pool.hpp): slots linked by their next        *)
(* pointers, allocate and deallocate with their compare-and-swap loops,    *)
(* and the counter that is kept apart from the list.                       *)
(*                                                                         *)
(* All threads may deallocate, the ones in Allocators may allocate; the    *)
(* class asks for a single one.  free_head_ is read with acquire and       *)
(* changed with release by read-modify-write operations only, so whoever   *)
(* reads it has all that was written to the slots before: each step sees   *)
(* the present memory.                                                     *)
(***************************************************************************)
EXTENDS Integers, Sequences, FiniteSets, SequencesExt

CONSTANTS
  Capacity,    \* how many slots
  Threads,     \* the threads that use the pool
  Allocators,  \* those of them that allocate
  SizeMod,     \* size_t wraps here (2^64)
  WeakFails    \* compare_exchange_weak may fail without a reason

ASSUME PoolAssumption ==
  /\ Capacity \in Nat \ {0}
  /\ Allocators \subseteq Threads
  /\ IsFiniteSet(Threads)
  /\ SizeMod \in Nat /\ SizeMod > Capacity + Cardinality(Threads)
  /\ WeakFails \in BOOLEAN

VARIABLES
  next,       \* next of each slot
  free_head,  \* free_head_
  allocated,  \* allocated_
  call,       \* each thread's call: [pc, slot, head, next]
  owned       \* the slots of the objects that callers hold

vars == <<next, free_head, allocated, call, owned>>

Slot == 0 .. Capacity - 1
Null == -1
Link == Slot \cup {Null}

\* Between two calls.  `slot` is the argument of deallocate, head and next are
\* the local variables of pop_free_slot and push_free_slot.
Idle == [pc |-> "idle", slot |-> Null, head |-> Null, next |-> Null]

\* Seeded fault: the loop of the constructor runs once too often.
InitUnterminated ==
  /\ next = [s \in Slot |-> s + 1]
  /\ free_head = 0
  /\ allocated = 0
  /\ call = [t \in Threads |-> Idle]
  /\ owned = {}

Init ==
  /\ next = [s \in Slot |-> IF s + 1 < Capacity THEN s + 1 ELSE Null]
  /\ free_head = 0
  /\ allocated = 0
  /\ call = [t \in Threads |-> Idle]
  /\ owned = {}

-----------------------------------------------------------------------------
(* allocate, with pop_free_slot.                                           *)

\* The loop, with what was read from free_head_: return nullptr, or go on.
PopWith(t, head) ==
  call' = [call EXCEPT ![t] =
             IF head = Null THEN Idle ELSE [Idle EXCEPT !.pc = "pop_next", !.head = head]]

\* Seeded fault: any thread may allocate.
PopLoadByAnyone(t) ==
  /\ call[t].pc = "idle"
  /\ PopWith(t, free_head)
  /\ UNCHANGED <<next, free_head, allocated, owned>>

PopLoad(t) ==
  /\ t \in Allocators /\ call[t].pc = "idle"
  /\ PopWith(t, free_head)
  /\ UNCHANGED <<next, free_head, allocated, owned>>

PopNext(t) ==
  /\ call[t].pc = "pop_next"
  /\ call' = [call EXCEPT ![t].pc = "pop_cas", ![t].next = next[call[t].head]]
  /\ UNCHANGED <<next, free_head, allocated, owned>>

PopSucceeds(t) ==
  /\ call[t].pc = "pop_cas"
  /\ free_head = call[t].head
  /\ free_head' = call[t].next
  /\ call' = [call EXCEPT ![t].pc = "pop_done"]
  /\ UNCHANGED <<next, allocated, owned>>

\* Seeded fault: the next pointer of the old head is kept.
PopFailsKeepingNext(t) ==
  /\ call[t].pc = "pop_cas"
  /\ WeakFails \/ free_head # call[t].head
  /\ call' = [call EXCEPT ![t] = IF free_head = Null THEN Idle ELSE [@ EXCEPT !.head = free_head]]
  /\ UNCHANGED <<next, free_head, allocated, owned>>

PopFails(t) ==
  /\ call[t].pc = "pop_cas"
  /\ WeakFails \/ free_head # call[t].head
  /\ PopWith(t, free_head)
  /\ UNCHANGED <<next, free_head, allocated, owned>>

\* The counter, and the object is the caller's.
Allocated(t) ==
  /\ call[t].pc = "pop_done"
  /\ allocated' = (allocated + 1) % SizeMod
  /\ owned' = owned \cup {call[t].head}
  /\ call' = [call EXCEPT ![t] = Idle]
  /\ UNCHANGED <<next, free_head>>

-----------------------------------------------------------------------------
(* deallocate, with push_free_slot.                                        *)

\* The caller gives up an object that it holds.
PushLoad(t, s) ==
  /\ call[t].pc = "idle"
  /\ s \in owned
  /\ owned' = owned \ {s}
  /\ call' = [call EXCEPT ![t] = [Idle EXCEPT !.pc = "push_next", !.slot = s, !.head = free_head]]
  /\ UNCHANGED <<next, free_head, allocated>>

PushNext(t) ==
  /\ call[t].pc = "push_next"
  /\ next' = [next EXCEPT ![call[t].slot] = call[t].head]
  /\ call' = [call EXCEPT ![t].pc = "push_cas"]
  /\ UNCHANGED <<free_head, allocated, owned>>

PushSucceeds(t) ==
  /\ call[t].pc = "push_cas"
  /\ free_head = call[t].head
  /\ free_head' = call[t].slot
  /\ call' = [call EXCEPT ![t].pc = "push_done"]
  /\ UNCHANGED <<next, allocated, owned>>

\* Seeded fault: the head is not read again.
PushFailsForEver(t) ==
  /\ call[t].pc = "push_cas"
  /\ WeakFails \/ free_head # call[t].head
  /\ call' = [call EXCEPT ![t].pc = "push_next"]
  /\ UNCHANGED <<next, free_head, allocated, owned>>

PushFails(t) ==
  /\ call[t].pc = "push_cas"
  /\ WeakFails \/ free_head # call[t].head
  /\ call' = [call EXCEPT ![t].pc = "push_next", ![t].head = free_head]
  /\ UNCHANGED <<next, free_head, allocated, owned>>

\* Seeded fault: the counter is left to allocate.
DeallocatedUncounted(t) ==
  /\ call[t].pc = "push_done"
  /\ call' = [call EXCEPT ![t] = Idle]
  /\ UNCHANGED <<next, free_head, allocated, owned>>

Deallocated(t) ==
  /\ call[t].pc = "push_done"
  /\ allocated' = (allocated - 1) % SizeMod
  /\ call' = [call EXCEPT ![t] = Idle]
  /\ UNCHANGED <<next, free_head, owned>>

-----------------------------------------------------------------------------
\* in_use() and available(), as any thread may read them at any time.
InUse     == allocated
Available == (Capacity - allocated) % SizeMod

Return(t) == Allocated(t) \/ Deallocated(t)

\* The running call of a thread goes on.
Step(t) ==
  \/ PopNext(t) \/ PopSucceeds(t) \/ PopFails(t)
  \/ PushNext(t) \/ PushSucceeds(t) \/ PushFails(t)
  \/ Return(t)

Call(t) == PopLoad(t) \/ \E s \in Slot : PushLoad(t, s)

Next == \E t \in Threads : Step(t) \/ Call(t)

\* A thread in a call keeps running.  Nobody has to call.
Spec == Init /\ [][Next]_vars /\ \A t \in Threads : WF_vars(Step(t))

-----------------------------------------------------------------------------
(* Properties.                                                             *)

\* What the next pointers n lead to from h, step by step.
Chain(n, h) ==
  LET node[i \in 0 .. Capacity] ==
        IF i = 0 THEN h ELSE IF node[i - 1] = Null THEN Null ELSE n[node[i - 1]]
  IN  node

\* The same as a sequence.  One that does not end in Capacity steps is cut off
\* after one slot too many.
ListOf(n, h) ==
  LET length == Cardinality({i \in 0 .. Capacity : Chain(n, h)[i] # Null})
  IN  [i \in 1 .. length |-> Chain(n, h)[i - 1]]

FreeList == ListOf(next, free_head)

\* The slots a thread holds: popped and not yet returned, or not yet pushed.
Held(t) ==
  CASE call[t].pc = "pop_done" -> {call[t].head}
    [] call[t].pc \in {"push_next", "push_cas"} -> {call[t].slot}
    [] OTHER -> {}

\* Every variable has its type.
TypeOK ==
  /\ next \in [Slot -> Link] /\ free_head \in Link
  /\ allocated \in 0 .. SizeMod - 1
  /\ call \in [Threads ->
       [pc : {"idle", "pop_next", "pop_cas", "pop_done", "push_next", "push_cas", "push_done"},
        slot : Link, head : Link, next : Link]]
  /\ owned \subseteq Slot

\* No slot has two owners and none is lost: callers, threads in the middle of
\* a call and the free list share the slots among them, whatever the threads'
\* loops overtake.
SlotsAreShared ==
  /\ \A t \in Threads :
       /\ Held(t) \cap owned = {}
       /\ \A u \in Threads \ {t} : Held(t) \cap Held(u) = {}
  /\ \A i, j \in DOMAIN FreeList : FreeList[i] = FreeList[j] => i = j
  /\ ToSet(FreeList) = Slot \ (owned \cup UNION {Held(t) : t \in Threads})

\* The counter is lowered after the slot went back to the list, where another
\* thread may find it: in_use() counts the objects callers hold and those on
\* their way back, and so may exceed Capacity, and available() wrap below 0.
\* That passes: with nothing on its way back both are right.
CounterIsExplained ==
  LET onTheirWay == Cardinality({t \in Threads : call[t].pc \in {"push_next", "push_cas", "push_done"}})
  IN  /\ InUse = Cardinality(owned) + onTheirWay
      /\ onTheirWay = 0 => Available = Capacity - Cardinality(owned)

\* A compare-exchange that fails although the head is the one expected.
FailsForNoReason(t) ==
  call[t].pc \in {"pop_cas", "push_cas"} /\ free_head = call[t].head /\ free_head' = free_head

\* The threads do not keep each other from finishing for ever: while any call
\* runs, calls return, unless compare-exchange itself fails again and again.
LockFree ==
  \/ []<><<\E t \in Threads : Return(t)>>_vars
  \/ []<><<\E t \in Threads : FailsForNoReason(t) /\ call'[t] # call[t]>>_vars
  \/ <>[](\A t \in Threads : call[t].pc = "idle")

Pool == INSTANCE SlotPool WITH Slots <- Capacity, free <- FreeList

\* With one allocating thread the list is a stack of free slots: each pop takes
\* the present top, although it read the next pointer some time before.
ImplementsSlotPool == Pool!Spec

=============================================================================
