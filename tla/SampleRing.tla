------------------------------ MODULE SampleRing ------------------------------
(***************************************************************************)
(* The lock-free planner-to-RT sample ring of crates/par6-rt/src/ring.rs,  *)
(* one action per atomic access.  The producer (planner thread), the       *)
(* consumer (RT thread) and the flush markers (server task and planner)    *)
(* share four counters and the slots; nothing else orders them.            *)
(*                                                                         *)
(* Each counter has one writer (flush_generation is a fetch_max), and the  *)
(* loads of the others are acquire loads, so a load returns some value the *)
(* counter had at or after the load before it: taking the loads as steps   *)
(* that may come at any later moment covers stale values.  A sample is its *)
(* position in the stream of pushes, which makes a lost, duplicated or     *)
(* overwritten sample visible.  Counters are u64 and do not wrap within    *)
(* the bounds; `clear`, which only tests call, is left out.                *)
(***************************************************************************)
EXTENDS Integers, Sequences

CONSTANTS Capacity,         \* slots of the ring
          Markers,          \* holders of a FlushMarker
          MaxPushes,        \* bound: samples pushed
          MaxGeneration     \* bound: generations opened

VARIABLES buf,              \* slots 0..Capacity-1
          head, tail,       \* samples ever popped or discarded, ever pushed
          fill_generation, flush_generation,
          producer,         \* [at, head]: where try_push stands, and its load
          consumer,         \* [at, bound, tail, cursor, sample]
          marking,          \* marker -> loaded generation, 0 = not in mark
          played            \* history: samples pop returned

shared == <<buf, head, tail, fill_generation, flush_generation>>
vars == <<buf, head, tail, fill_generation, flush_generation, producer, consumer,
          marking, played>>

Slot(i) == i % Capacity

Idle == [at |-> "idle", bound |-> 0, tail |-> 0, cursor |-> 0, sample |-> 0]

Init ==
  /\ buf = [i \in 0..(Capacity - 1) |-> [sample |-> 0, generation |-> 0]]
  /\ head = 0 /\ tail = 0
  /\ fill_generation = 1 /\ flush_generation = 0
  /\ producer = [at |-> "idle", head |-> 0]
  /\ consumer = Idle
  /\ marking = [m \in Markers |-> 0]
  /\ played = <<>>

-----------------------------------------------------------------------------
(* try_push and begin_generation. *)

PushLoads ==
  /\ producer.at = "idle" /\ tail < MaxPushes
  /\ producer' = [at |-> "check", head |-> head]
  /\ UNCHANGED <<shared, consumer, marking, played>>

\* Mutant of Full: one sample too many.
FullOffByOne == tail - producer.head > Capacity

Full == tail - producer.head >= Capacity

PushRefused ==
  /\ producer.at = "check" /\ Full
  /\ producer' = [producer EXCEPT !.at = "idle"]
  /\ UNCHANGED <<shared, consumer, marking, played>>

PushWrites ==
  /\ producer.at = "check" /\ ~Full
  /\ buf' = [buf EXCEPT ![Slot(tail)] =
                [sample |-> tail, generation |-> fill_generation]]
  /\ producer' = [producer EXCEPT !.at = "publish"]
  /\ UNCHANGED <<head, tail, fill_generation, flush_generation, consumer, marking, played>>

PushPublishes ==
  /\ producer.at = "publish"
  /\ tail' = tail + 1
  /\ producer' = [producer EXCEPT !.at = "idle"]
  /\ UNCHANGED <<buf, head, fill_generation, flush_generation, consumer, marking, played>>

BeginGeneration ==
  /\ producer.at = "idle" /\ fill_generation < MaxGeneration
  /\ fill_generation' = fill_generation + 1
  /\ UNCHANGED <<buf, head, tail, flush_generation, producer, consumer, marking, played>>

-----------------------------------------------------------------------------
(* mark: a load, then a fetch_max. *)

\* Mutant of MarkLoads: the generation about to be opened is marked.
MarkLoadsNext(m) ==
  /\ marking[m] = 0
  /\ marking' = [marking EXCEPT ![m] = fill_generation + 1]
  /\ UNCHANGED <<shared, producer, consumer, played>>

MarkLoads(m) ==
  /\ marking[m] = 0
  /\ marking' = [marking EXCEPT ![m] = fill_generation]
  /\ UNCHANGED <<shared, producer, consumer, played>>

\* Mutant of MarkStores: a store in place of the fetch_max.
MarkStoresPlainly(m) ==
  /\ marking[m] # 0
  /\ flush_generation' = marking[m]
  /\ marking' = [marking EXCEPT ![m] = 0]
  /\ UNCHANGED <<buf, head, tail, fill_generation, producer, consumer, played>>

MarkStores(m) ==
  /\ marking[m] # 0
  /\ flush_generation' = IF marking[m] > flush_generation THEN marking[m]
                                                          ELSE flush_generation
  /\ marking' = [marking EXCEPT ![m] = 0]
  /\ UNCHANGED <<buf, head, tail, fill_generation, producer, consumer, played>>

-----------------------------------------------------------------------------
(* pop: load tail, read the slot, release it. *)

PopLoads ==
  /\ consumer.at = "idle" /\ head # tail
  /\ consumer' = [Idle EXCEPT !.at = "read"]
  /\ UNCHANGED <<shared, producer, marking, played>>

PopReads ==
  /\ consumer.at = "read"
  /\ consumer' = [consumer EXCEPT !.at = "release", !.sample = buf[Slot(head)].sample]
  /\ UNCHANGED <<shared, producer, marking, played>>

PopReleases ==
  /\ consumer.at = "release"
  /\ head' = head + 1
  /\ played' = Append(played, consumer.sample)
  /\ consumer' = Idle
  /\ UNCHANGED <<buf, tail, fill_generation, flush_generation, producer, marking>>

(* clear_marked: load the bound, load tail, walk the slots, store head. *)

ClearLoadsBound ==
  /\ consumer.at = "idle"
  /\ consumer' = [Idle EXCEPT !.at = "bound", !.bound = flush_generation]
  /\ UNCHANGED <<shared, producer, marking, played>>

ClearLoadsTail ==
  /\ consumer.at = "bound"
  /\ consumer' = [consumer EXCEPT !.at = "scan", !.tail = tail, !.cursor = head]
  /\ UNCHANGED <<shared, producer, marking, played>>

\* Mutant of StopsScan: the scan stops at the marked generation itself.
StopsScanAtMark ==
  \/ consumer.cursor >= consumer.tail
  \/ buf[Slot(consumer.cursor)].generation >= consumer.bound

StopsScan ==
  \/ consumer.cursor >= consumer.tail
  \/ buf[Slot(consumer.cursor)].generation > consumer.bound

ClearScans ==
  /\ consumer.at = "scan" /\ ~StopsScan
  /\ consumer' = [consumer EXCEPT !.cursor = @ + 1]
  /\ UNCHANGED <<shared, producer, marking, played>>

ClearStores ==
  /\ consumer.at = "scan" /\ StopsScan
  /\ head' = consumer.cursor
  /\ consumer' = Idle
  /\ UNCHANGED <<buf, tail, fill_generation, flush_generation, producer, marking, played>>

-----------------------------------------------------------------------------

Producer == PushLoads \/ PushRefused \/ PushWrites \/ PushPublishes \/ BeginGeneration

Consumer == \/ PopLoads \/ PopReads \/ PopReleases
            \/ ClearLoadsBound \/ ClearLoadsTail \/ ClearScans \/ ClearStores

Next == Producer \/ Consumer \/ \E m \in Markers : MarkLoads(m) \/ MarkStores(m)

Spec == Init /\ [][Next]_vars

-----------------------------------------------------------------------------
(* Properties. *)

\* The counters stay within one ring of each other, and what either side
\* loaded from the other is never ahead of it.
TypeOK ==
  /\ head \in Nat /\ tail \in Nat /\ head <= tail /\ tail <= head + Capacity
  /\ producer.at \in {"idle", "check", "publish"} /\ producer.head <= head
  /\ flush_generation <= fill_generation
  /\ consumer.at = "scan" => /\ head <= consumer.cursor /\ consumer.cursor <= consumer.tail
                             /\ consumer.tail <= tail
  /\ consumer.at \in {"read", "release"} => head < tail

\* The SAFETY comment of RingShared: while the producer writes a slot, the
\* consumer reads another one (slot accesses are never concurrent on the same
\* index).
SlotsNeverShared ==
  producer.at = "check" /\ ~Full =>
    /\ consumer.at = "read" => Slot(tail) # Slot(head)
    /\ consumer.at = "scan" /\ consumer.cursor < consumer.tail =>
         Slot(tail) # Slot(consumer.cursor)

\* When clear_marked ends, nothing at or below the bound it loaded is left
\* among the samples it saw: it stops at the first later generation, and the
\* generations in the ring never decrease.
FlushIsComplete ==
  consumer.at = "scan" /\ StopsScan =>
    \A i \in consumer.cursor..(consumer.tail - 1) : buf[Slot(i)].generation > consumer.bound

\* The ring implements the bounded FIFO with a generation-bounded flush: a
\* sample is played or discarded once, in order, and a flush never reaches a
\* generation that was not marked.
Queue == INSTANCE SampleQueue WITH
  Sample     <- 0..MaxPushes,
  queue      <- [k \in 1..(tail - head) |-> buf[Slot(head + k - 1)]],
  generation <- fill_generation,
  marked     <- flush_generation,
  popped     <- played

ImplementsSampleQueue == Queue!Spec

\* Interleaved load by load and store by store with two flush markers, the ring is that
\* queue at every step, and gets there without ever sharing a slot or leaving behind
\* what a flush marked (push, pop, clear_marked, FlushMarker::mark).
RingIsAQueue ==
  /\ ImplementsSampleQueue
  /\ [](TypeOK /\ SlotsNeverShared /\ FlushIsComplete)
=============================================================================
