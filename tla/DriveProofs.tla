----------------------------- MODULE DriveProofs -----------------------------
(***************************************************************************)
(* The arm's side of the runtime, for every size of it: no snapshot is     *)
(* torn or old after any number of publications, the sample ring is an     *)
(* atomic queue whatever its capacity and its flush markers, the CAN link  *)
(* is trusted through any number of bus-offs, a capture of any length      *)
(* reads back whole, the e-stop button is seen for any debounce, no        *)
(* drive's faults go unseen for any number of drives, a jaw action is      *)
(* judged by its own answers, a simulated drive reports this arm and this  *)
(* seek, a drive that comes back gets its configuration, and an arm that   *)
(* counts as homed was sought gently and on its own evidence.              *)
(*                                                                         *)
(* Each section has one component's inductive invariant, its steps and its *)
(* theorem; the components are the instances of MCDrives.                  *)
(***************************************************************************)
EXTENDS MCDrives, SequenceTheorems, FiniteSetTheorems, NaturalsInduction, TLAPS

-----------------------------------------------------------------------------
(* The snapshot channel.  The invariant says what each of the three slots  *)
(* holds: the writer's is being filled with the next snapshot, the fresh   *)
(* one holds the newest, the reader's is whole and, when nothing is fresh, *)
(* newest.                                                                 *)

\* The writer's slot holds the halves of the next snapshot written so far.
WriterSlot ==
  /\ writer.pc \in {"half", "swap"} => slots[writer.idx][1] = published + 1
  /\ writer.pc = "swap" => slots[writer.idx][2] = published + 1

\* Of the other two, one holds the newest snapshot: the one the FRESH bit says.
NewestSlot ==
  /\ latest.fresh => slots[latest.idx] = <<published, published>>
  /\ ~latest.fresh => slots[reader.idx] = <<published, published>>
  /\ reader.pc = "swap" => latest.fresh

\* The reader's slot is whole and not older than the reader's call.
ReaderSlot ==
  /\ slots[reader.idx][1] = slots[reader.idx][2]
  /\ reader.pc # "swap" => slots[reader.idx][1] >= since
  /\ reader.pc \in {"idle", "swap", "stale"} => view = slots[reader.idx]
  /\ reader.pc = "rest" => view[1] = slots[reader.idx][1]

SnapInv == TypeOK /\ WriterSlot /\ NewestSlot /\ ReaderSlot

\* The snapshot channel starts with one whole snapshot.
LEMMA InitSnapInv == Init => SnapInv
  BY DEF Init, SnapInv, TypeOK, WriterSlot, NewestSlot, ReaderSlot, Slots

\* The writer keeps every slot's meaning.
LEMMA PublishKeeps == SnapInv /\ Publish => SnapInv'
<1> SUFFICES ASSUME SnapInv, Publish PROVE SnapInv'
  OBVIOUS
<1> USE DEF SnapInv, TypeOK, WriterSlot, NewestSlot, ReaderSlot, Slots
<1>1. CASE PublishBegins
  BY <1>1 DEF PublishBegins
<1>2. CASE PublishWrites
  BY <1>2 DEF PublishWrites
<1>3. CASE PublishSwaps
  BY <1>3 DEF PublishSwaps
<1> QED
  BY <1>1, <1>2, <1>3 DEF Publish

\* So does the reader.
LEMMA TakeKeeps == SnapInv /\ Take => SnapInv'
<1> SUFFICES ASSUME SnapInv, Take PROVE SnapInv'
  OBVIOUS
<1> USE DEF SnapInv, TypeOK, WriterSlot, NewestSlot, ReaderSlot, Slots
<1>1. CASE TakeLoads
  BY <1>1 DEF TakeLoads
<1>2. CASE TakeReturnsNone
  BY <1>2 DEF TakeReturnsNone
<1>3. CASE TakeSwaps
  BY <1>3 DEF TakeSwaps
<1>4. CASE LatestReadsOwn
  BY <1>4 DEF LatestReadsOwn
<1>5. CASE ReadBegins
  BY <1>5 DEF ReadBegins
<1>6. CASE ReadReturns
  BY <1>6 DEF ReadReturns
<1> QED
  BY <1>1, <1>2, <1>3, <1>4, <1>5, <1>6 DEF Take

\* It holds throughout.
LEMMA SnapInductive == Spec => []SnapInv
<1>1. SnapInv /\ UNCHANGED vars => SnapInv'
  BY DEF SnapInv, TypeOK, WriterSlot, NewestSlot, ReaderSlot, vars
<1> QED
  BY <1>1, InitSnapInv, PublishKeeps, TakeKeeps, PTL DEF Spec, Next

\* The three slots always have three different owners: the exclusivity the
\* unsafe blocks of publish, take and latest rely on.
THEOREM SlotsExclusive == Spec => []TypeOK
<1>1. SnapInv => TypeOK
  BY DEF SnapInv
<1> QED
  BY <1>1, SnapInductive, PTL

\* Whatever take and latest return was copied out of one publication.
THEOREM SnapshotsWhole == Spec => []NeverTorn
<1>1. SnapInv => NeverTorn
  BY DEF SnapInv, NeverTorn, ReaderSlot
<1> QED
  BY <1>1, SnapInductive, PTL

\* A call never leaves the reader with a snapshot older than the last one
\* published before the call, a take that returns None included.
THEOREM SnapshotsCurrent == Spec => []NeverBehind
<1>1. SnapInv => NeverBehind
  BY DEF SnapInv, NeverBehind, ReaderSlot
<1> QED
  BY <1>1, SnapInductive, PTL

-----------------------------------------------------------------------------
(* The sample ring. *)

\* Two counters less than one ring apart name different slots.
LEMMA SlotsApart ==
  ASSUME NEW i \in Nat, NEW j \in Nat, i < j, j < i + RingCapacity
  PROVE  Ring!Slot(i) # Ring!Slot(j)
<1> DEFINE c == RingCapacity
<1>1. c \in Nat \ {0}
  BY RingAssumption
<1> HIDE DEF c
<1>2. i % c \in 0..(c - 1) /\ j % c \in 0..(c - 1)
  BY <1>1
<1>3. /\ i = c * (i \div c) + (i % c) /\ j = c * (j \div c) + (j % c)
      /\ (i \div c) \in Int /\ (j \div c) \in Int
  BY <1>1
<1>4. SUFFICES ASSUME i % c = j % c PROVE FALSE
  BY DEF Ring!Slot, c
<1> DEFINE a == i \div c
<1> DEFINE b == j \div c
<1> HIDE DEF a, b
<1>5. a \in Int /\ b \in Int /\ j - i = c * b - c * a
  BY <1>1, <1>2, <1>3, <1>4 DEF a, b
<1>6. j - i = c * (b - a) /\ j < i + c
  BY <1>1, <1>5 DEF c
<1>7. CASE b - a <= 0
  BY <1>1, <1>5, <1>6, <1>7
<1>8. CASE b - a >= 1
  BY <1>1, <1>5, <1>6, <1>8
<1> QED
  BY <1>5, <1>7, <1>8

\* A counter names one of the ring's slots.
LEMMA SlotExists ==
  ASSUME NEW i \in Nat
  PROVE  Ring!Slot(i) \in 0..(RingCapacity - 1)
BY RingAssumption DEF Ring!Slot

\* The sample and the generation at position i of the stream, while it is in the ring.
At(i) == ring_buf[Ring!Slot(i)]

RingTyped ==
  /\ ring_buf \in [0..(RingCapacity - 1) -> [sample : Nat, generation : Nat]]
  /\ ring_head \in Nat /\ ring_tail \in Nat
  /\ ring_fill_generation \in Nat /\ ring_flush_generation \in Nat
  /\ ring_producer \in [at : {"idle", "check", "publish"}, head : Nat]
  /\ ring_consumer \in [at : {"idle", "read", "release", "bound", "scan"}, bound : Nat,
                        tail : Nat, cursor : Nat, sample : Nat]
  /\ ring_marking \in [RingMarkers -> Nat]

\* The counters: never more than a ring apart, and a push under way has room.
RingCounts ==
  /\ ring_head <= ring_tail /\ ring_tail <= ring_head + RingCapacity
  /\ ring_tail <= RingPushes
  /\ ring_producer.head <= ring_head
  /\ ring_producer.at # "idle" => ring_tail < RingPushes
  /\ ring_producer.at = "publish" => ring_tail < ring_head + RingCapacity

\* The slots between head and tail hold the stream's samples, under generations that never
\* decrease; the slot about to be published holds the next one.
RingHolds ==
  /\ \A i \in ring_head..(ring_tail - 1) :
       At(i).sample = i /\ At(i).generation <= ring_fill_generation
  /\ \A i, j \in ring_head..(ring_tail - 1) :
       i <= j => At(i).generation <= At(j).generation
  /\ ring_producer.at = "publish" =>
       At(ring_tail) = [sample |-> ring_tail, generation |-> ring_fill_generation]

\* What the consumer took from the ring is still there, and its walk passed only samples
\* of generations marked when it loaded the bound.
RingReads ==
  /\ ring_consumer.at \in {"read", "release"} => ring_head < ring_tail
  /\ ring_consumer.at = "release" => ring_consumer.sample = At(ring_head).sample
  /\ ring_consumer.at = "scan" =>
       /\ ring_head <= ring_consumer.cursor /\ ring_consumer.cursor <= ring_consumer.tail
       /\ ring_consumer.tail <= ring_tail
       /\ \A i \in ring_head..(ring_consumer.cursor - 1) :
            At(i).generation <= ring_consumer.bound

\* Marks name generations already open.
RingMarks ==
  /\ ring_flush_generation <= ring_fill_generation
  /\ ring_consumer.bound <= ring_flush_generation
  /\ \A m \in RingMarkers : ring_marking[m] <= ring_fill_generation

RingInv == RingTyped /\ RingCounts /\ RingHolds /\ RingReads /\ RingMarks

\* The ring starts empty, with the first generation open and nothing marked.
LEMMA RingInit == Ring!Init => RingInv
<1> SUFFICES ASSUME Ring!Init PROVE RingInv
  OBVIOUS
<1>1. RingTyped
  BY RingAssumption DEF Ring!Init, Ring!Idle, RingTyped
<1>2. RingCounts
  BY RingAssumption DEF Ring!Init, RingCounts
<1>3. RingHolds /\ RingReads /\ RingMarks
  BY RingAssumption DEF Ring!Init, Ring!Idle, RingHolds, RingReads, RingMarks
<1> QED
  BY <1>1, <1>2, <1>3 DEF RingInv

\* Steps that touch neither the slots nor the counters keep what the slots hold.
LEMMA RingQuiet ==
  ASSUME RingInv, UNCHANGED <<ring_buf, ring_head, ring_tail, ring_fill_generation>>,
         ring_producer'.at = "publish" => ring_producer.at = "publish"
  PROVE  RingHolds' /\ \A i : At(i)' = At(i)
BY DEF RingInv, RingHolds, At

\* The producer's steps keep the invariant.
LEMMA RingProducerKeeps == RingInv /\ Ring!Producer => RingInv'
<1> SUFFICES ASSUME RingInv, Ring!Producer PROVE RingInv'
  OBVIOUS
<1> USE DEF RingInv
<1>1. CASE Ring!PushLoads
  <2>1. RingHolds' /\ \A i : At(i)' = At(i)
    BY <1>1, RingQuiet DEF Ring!PushLoads, Ring!shared, RingTyped
  <2>2. RingTyped'
    BY <1>1 DEF Ring!PushLoads, Ring!shared, RingTyped
  <2>3. RingCounts' /\ RingMarks'
    BY <1>1 DEF Ring!PushLoads, Ring!shared, RingTyped, RingCounts, RingMarks
  <2>4. RingReads'
    BY <1>1, <2>1 DEF Ring!PushLoads, Ring!shared, RingTyped, RingReads
  <2> QED
    BY <2>1, <2>2, <2>3, <2>4
<1>2. CASE Ring!PushRefused
  <2>1. RingHolds' /\ \A i : At(i)' = At(i)
    BY <1>2, RingQuiet DEF Ring!PushRefused, Ring!shared, RingTyped
  <2>2. RingTyped'
    BY <1>2 DEF Ring!PushRefused, Ring!shared, RingTyped
  <2>3. RingCounts' /\ RingMarks'
    BY <1>2 DEF Ring!PushRefused, Ring!shared, RingTyped, RingCounts, RingMarks
  <2>4. RingReads'
    BY <1>2, <2>1 DEF Ring!PushRefused, Ring!shared, RingTyped, RingReads
  <2> QED
    BY <2>1, <2>2, <2>3, <2>4
<1>3. CASE Ring!PushWrites
  <2> USE DEF Ring!PushWrites
  <2>1. /\ ring_head \in Nat /\ ring_tail \in Nat /\ ring_head <= ring_tail
        /\ ring_tail < ring_head + RingCapacity /\ RingCapacity \in Nat
        /\ ring_fill_generation \in Nat
    BY <1>3, RingAssumption DEF Ring!Full, RingTyped, RingCounts
  <2>2. \A i \in Nat : i < ring_tail /\ ring_tail < i + RingCapacity =>
          Ring!Slot(i) # Ring!Slot(ring_tail)
    BY <2>1, SlotsApart
  <2>3. \A i \in Nat : Ring!Slot(i) \in 0..(RingCapacity - 1)
    BY SlotExists
  <2>4. \A i \in ring_head..(ring_tail - 1) : At(i)' = At(i)
    BY <1>3, <2>1, <2>2, <2>3, SMTT(40) DEF At, RingTyped
  <2>5. At(ring_tail)' = [sample |-> ring_tail, generation |-> ring_fill_generation]
    BY <1>3, <2>1, <2>3 DEF At, RingTyped
  <2>6. RingTyped'
    BY <1>3, <2>1 DEF RingTyped
  <2>7. RingCounts' /\ RingMarks'
    BY <1>3, <2>1 DEF RingTyped, RingCounts, RingMarks
  <2>8. RingHolds'
    BY <1>3, <2>1, <2>4, <2>5 DEF RingHolds
  <2>9. RingReads'
    <3>1. ring_head < ring_tail => At(ring_head)' = At(ring_head)
      BY <1>3, <2>1, <2>4
    <3>2. ring_consumer.at = "scan" =>
            \A i \in ring_head..(ring_consumer.cursor - 1) : At(i)' = At(i)
      BY <2>1, <2>4 DEF RingReads, RingTyped
    <3> QED
      BY <1>3, <3>1, <3>2 DEF RingReads
  <2> QED
    BY <2>6, <2>7, <2>8, <2>9
<1>4. CASE Ring!PushPublishes
  <2> USE DEF Ring!PushPublishes
  <2>1. \A i : At(i)' = At(i)
    BY <1>4 DEF At
  <2>2. RingTyped'
    BY <1>4, SMTT(40) DEF RingTyped
  <2>3. RingCounts'
    BY <1>4, RingAssumption DEF RingTyped, RingCounts
  <2>4. RingMarks'
    BY <1>4 DEF RingMarks
  <2>5. RingHolds'
    <3>1. /\ At(ring_tail).sample = ring_tail
          /\ At(ring_tail).generation = ring_fill_generation
      BY <1>4 DEF RingHolds
    <3>2. \A i \in ring_head'..(ring_tail' - 1) :
            i = ring_tail \/ i \in ring_head..(ring_tail - 1)
      BY <1>4 DEF RingTyped
    <3>3. ring_head \in Nat /\ ring_tail \in Nat /\ ring_fill_generation \in Nat
      BY DEF RingTyped
    <3>4. \A i \in ring_head'..(ring_tail' - 1) :
            At(i).sample = i /\ At(i).generation <= ring_fill_generation
      BY <3>1, <3>2, <3>3 DEF RingHolds
    <3>5. \A i, j \in ring_head'..(ring_tail' - 1) :
            i <= j => At(i).generation <= At(j).generation
      BY <1>4, <3>1, <3>2, <3>3, <3>4 DEF RingHolds
    <3> QED
      BY <1>4, <2>1, <3>4, <3>5 DEF RingHolds, RingTyped
  <2>6. RingReads'
    BY <1>4, <2>1 DEF RingReads, RingTyped
  <2> QED
    BY <2>2, <2>3, <2>4, <2>5, <2>6
<1>5. CASE Ring!BeginGeneration
  <2> USE DEF Ring!BeginGeneration
  <2>1. \A i : At(i)' = At(i)
    BY <1>5 DEF At
  <2>2. RingTyped' /\ RingCounts' /\ RingMarks'
    BY <1>5 DEF RingTyped, RingCounts, RingMarks
  <2>3. RingHolds'
    <3>1. \A i \in Nat : At(i) \in [sample : Nat, generation : Nat]
      BY SlotExists DEF At, RingTyped
    <3>2. \A i \in ring_head..(ring_tail - 1) : At(i).generation \in Nat
      <4> TAKE i \in ring_head..(ring_tail - 1)
      <4>1. i \in Nat
        BY DEF RingTyped
      <4>2. At(i) \in [sample : Nat, generation : Nat]
        BY <3>1, <4>1
      <4> QED
        BY <4>2
    <3> QED
      BY <1>5, <2>1, <3>2 DEF RingHolds, RingTyped
  <2>4. RingReads'
    BY <1>5, <2>1 DEF RingReads, RingTyped
  <2> QED
    BY <2>2, <2>3, <2>4
<1> QED
  BY <1>1, <1>2, <1>3, <1>4, <1>5 DEF Ring!Producer

\* The flush markers' steps keep the invariant.
LEMMA RingMarkerKeeps ==
  ASSUME RingInv, NEW m \in RingMarkers, Ring!MarkLoads(m) \/ Ring!MarkStores(m)
  PROVE  RingInv'
<1> USE DEF RingInv
<1>1. UNCHANGED <<ring_buf, ring_head, ring_tail, ring_fill_generation, ring_producer,
                  ring_consumer>>
  BY DEF Ring!MarkLoads, Ring!MarkStores, Ring!shared
<1>2. RingHolds' /\ \A i : At(i)' = At(i)
  BY <1>1, RingQuiet
<1>3. /\ ring_flush_generation' \in Nat /\ ring_flush_generation' <= ring_fill_generation
      /\ ring_flush_generation <= ring_flush_generation'
      /\ ring_marking' \in [RingMarkers -> Nat]
      /\ \A k \in RingMarkers : ring_marking'[k] <= ring_fill_generation
  BY SMTT(40) DEF Ring!MarkLoads, Ring!MarkStores, Ring!shared, RingTyped, RingMarks
<1>4. RingTyped' /\ RingCounts' /\ RingMarks'
  BY <1>1, <1>3 DEF RingTyped, RingCounts, RingMarks
<1>5. RingReads'
  BY <1>1, <1>2 DEF RingReads
<1> QED
  BY <1>2, <1>4, <1>5

\* The consumer's steps keep the invariant.
LEMMA RingConsumerKeeps == RingInv /\ Ring!Consumer => RingInv'
<1> SUFFICES ASSUME RingInv, Ring!Consumer PROVE RingInv'
  OBVIOUS
<1> USE DEF RingInv
<1>a. \A i \in Nat : At(i) \in [sample : Nat, generation : Nat]
  BY SlotExists DEF At, RingTyped
<1>1. ASSUME UNCHANGED <<ring_buf, ring_head, ring_tail, ring_fill_generation,
                         ring_flush_generation, ring_producer, ring_marking>>,
             RingReads',
             ring_consumer' \in [at : {"idle", "read", "release", "bound", "scan"},
                                 bound : Nat, tail : Nat, cursor : Nat, sample : Nat],
             ring_consumer'.bound <= ring_flush_generation
      PROVE  RingInv'
  <2>1. RingHolds'
    BY <1>1, RingQuiet
  <2> QED
    BY <1>1, <2>1 DEF RingTyped, RingCounts, RingMarks
<1>2. CASE Ring!PopLoads
  BY <1>1, <1>2, SMTT(40) DEF Ring!PopLoads, Ring!Idle, Ring!shared, RingTyped, RingCounts, RingReads
<1>3. CASE Ring!PopReads
  <2>1. At(ring_head) \in [sample : Nat, generation : Nat]
    BY <1>a DEF RingTyped
  <2>2. ring_consumer' = [ring_consumer EXCEPT !.at = "release",
                                               !.sample = At(ring_head).sample]
    BY <1>3 DEF Ring!PopReads, At
  <2>3. At(ring_head)' = At(ring_head)
    BY <1>3 DEF Ring!PopReads, Ring!shared, At
  <2> QED
    BY <1>1, <1>3, <2>1, <2>2, <2>3 DEF Ring!PopReads, Ring!shared, RingTyped, RingReads,
         RingMarks
<1>4. CASE Ring!PopReleases
  <2> USE DEF Ring!PopReleases, Ring!Idle
  <2>1. \A i : At(i)' = At(i)
    BY <1>4 DEF At
  <2>2. RingTyped' /\ RingCounts' /\ RingMarks'
    BY <1>4, RingAssumption DEF RingTyped, RingCounts, RingReads, RingMarks
  <2>3. RingHolds'
    BY <1>4, <2>1 DEF RingHolds, RingTyped
  <2>4. RingReads'
    BY <1>4 DEF RingReads
  <2> QED
    BY <2>2, <2>3, <2>4
<1>5. CASE Ring!ClearLoadsBound
  <2> USE DEF Ring!ClearLoadsBound, Ring!Idle, Ring!shared
  <2>1. RingReads'
    BY <1>5 DEF RingReads
  <2>2. ring_consumer' = [at |-> "bound", bound |-> ring_flush_generation, tail |-> 0,
                          cursor |-> 0, sample |-> 0]
    BY <1>5
  <2> QED
    BY <1>1, <1>5, <2>1, <2>2 DEF RingTyped
<1>6. CASE Ring!ClearLoadsTail
  <2> USE DEF Ring!ClearLoadsTail, Ring!shared
  <2>1. RingReads'
    BY <1>6 DEF RingReads, RingTyped, RingCounts
  <2> QED
    BY <1>1, <1>6, <2>1 DEF RingTyped, RingMarks
<1>7. CASE Ring!ClearScans
  <2> DEFINE k == ring_consumer.cursor
  <2>1. /\ k \in Nat /\ k < ring_consumer.tail /\ At(k).generation <= ring_consumer.bound
        /\ ring_consumer.at = "scan" /\ ring_consumer.bound \in Nat /\ ring_consumer.tail \in Nat
        /\ At(k) \in [sample : Nat, generation : Nat]
    BY <1>7, <1>a DEF Ring!ClearScans, Ring!StopsScan, At, RingTyped
  <2>2. \A i : At(i)' = At(i)
    BY <1>7 DEF Ring!ClearScans, Ring!shared, At
  <2>3. ring_consumer' = [ring_consumer EXCEPT !.cursor = k + 1]
    BY <1>7 DEF Ring!ClearScans
  <2>4. RingReads'
    BY <1>7, <2>1, <2>2, <2>3 DEF Ring!ClearScans, Ring!shared, RingReads, RingTyped
  <2> QED
    <3>1. /\ ring_consumer' \in [at : {"idle", "read", "release", "bound", "scan"},
                                 bound : Nat, tail : Nat, cursor : Nat, sample : Nat]
          /\ ring_consumer'.bound <= ring_flush_generation
      BY <2>1, <2>3, SMTT(40) DEF RingTyped, RingMarks
    <3> QED
      BY <1>1, <1>7, <2>4, <3>1 DEF Ring!ClearScans, Ring!shared
<1>8. CASE Ring!ClearStores
  <2> USE DEF Ring!ClearStores, Ring!Idle
  <2>1. \A i : At(i)' = At(i)
    BY <1>8 DEF At
  <2>2. RingTyped' /\ RingCounts' /\ RingMarks'
    BY <1>8, RingAssumption, SMTT(40) DEF RingTyped, RingCounts, RingReads, RingMarks
  <2>3. RingHolds'
    BY <1>8, <2>1 DEF RingHolds, RingTyped, RingReads
  <2>4. RingReads'
    BY <1>8 DEF RingReads
  <2> QED
    BY <2>2, <2>3, <2>4
<1> QED
  BY <1>2, <1>3, <1>4, <1>5, <1>6, <1>7, <1>8 DEF Ring!Consumer

\* Every step of the ring keeps the invariant.
LEMMA RingStep == RingInv /\ [Ring!Next]_(Ring!vars) => RingInv'
<1> SUFFICES ASSUME RingInv, [Ring!Next]_(Ring!vars) PROVE RingInv'
  OBVIOUS
<1>1. CASE UNCHANGED Ring!vars
  BY <1>1 DEF Ring!vars, RingInv, RingTyped, RingCounts, RingHolds, RingReads, RingMarks, At
<1> QED
  BY <1>1, RingProducerKeeps, RingConsumerKeeps, RingMarkerKeeps DEF Ring!Next

Kept == [sample : Nat, generation : Nat]
Buffers == [0..(RingCapacity - 1) -> Kept]

\* The abstract queue a ring stands for: the slots between head and tail.
Window(b, h, t) == [k \in 1..(t - h) |-> b[Ring!Slot(h + k - 1)]]

\* A window of the ring is a sequence of its slots.
LEMMA WindowIsSeq ==
  ASSUME NEW b \in Buffers, NEW h \in Nat, NEW t \in Nat, h <= t
  PROVE  /\ Window(b, h, t) \in Seq(Kept) /\ Len(Window(b, h, t)) = t - h
         /\ \A k \in 1..(t - h) : Window(b, h, t)[k] = b[Ring!Slot(h + k - 1)]
<1> DEFINE n == t - h
<1>1. n \in Nat
  OBVIOUS
<1>2. \A k \in 1..n : b[Ring!Slot(h + k - 1)] \in Kept
  <2> TAKE k \in 1..n
  <2>1. h + k - 1 \in Nat
    BY <1>1
  <2> QED
    BY <2>1, SlotExists DEF Buffers
<1>3. Window(b, h, t) = [k \in 1..n |-> b[Ring!Slot(h + k - 1)]]
  BY DEF Window
<1> HIDE DEF n
<1>4. Window(b, h, t) \in Seq(Kept) /\ DOMAIN Window(b, h, t) = 1..n
  BY <1>1, <1>2, <1>3, IsASeq
<1>5. Len(Window(b, h, t)) = n
  BY <1>1, <1>4, LenProperties
<1> QED
  BY <1>3, <1>4, <1>5 DEF n

\* A window whose slots are not written stays as it is.
LEMMA WindowStays ==
  ASSUME NEW b \in Buffers, NEW c \in Buffers, NEW h \in Nat, NEW t \in Nat,
         \A i \in h..(t - 1) : c[Ring!Slot(i)] = b[Ring!Slot(i)]
  PROVE  Window(c, h, t) = Window(b, h, t)
<1>1. \A k \in 1..(t - h) : h + k - 1 \in h..(t - 1)
  OBVIOUS
<1>2. \A k \in 1..(t - h) : c[Ring!Slot(h + k - 1)] = b[Ring!Slot(h + k - 1)]
  BY <1>1
<1> QED
  BY <1>2 DEF Window

\* Moving the tail up by one appends the slot it passes.
LEMMA WindowGrows ==
  ASSUME NEW b \in Buffers, NEW h \in Nat, NEW t \in Nat, h <= t
  PROVE  Window(b, h, t + 1) = Append(Window(b, h, t), b[Ring!Slot(t)])
<1> DEFINE w == Window(b, h, t)
           v == Window(b, h, t + 1)
           e == b[Ring!Slot(t)]
           n == t - h
<1>1. n \in Nat /\ e \in Kept /\ h + n = t
  BY SlotExists DEF Buffers
<1>2. w \in Seq(Kept) /\ Len(w) = n /\ \A k \in 1..n : w[k] = b[Ring!Slot(h + k - 1)]
  BY WindowIsSeq
<1>3. v \in Seq(Kept) /\ Len(v) = n + 1 /\ \A k \in 1..(n + 1) : v[k] = b[Ring!Slot(h + k - 1)]
  <2> DEFINE u == t + 1
  <2>1. u \in Nat /\ h <= u /\ u - h = n + 1
    OBVIOUS
  <2>2. v = Window(b, h, u)
    OBVIOUS
  <2> HIDE DEF n, u, v
  <2>3. /\ Window(b, h, u) \in Seq(Kept) /\ Len(Window(b, h, u)) = u - h
        /\ \A k \in 1..(u - h) : Window(b, h, u)[k] = b[Ring!Slot(h + k - 1)]
    BY <2>1, WindowIsSeq
  <2> QED
    BY <2>1, <2>2, <2>3
<1>4. v[n + 1] = e
  <2>1. h + (n + 1) - 1 = t /\ n + 1 \in 1..(n + 1)
    OBVIOUS
  <2> HIDE DEF n, v
  <2> QED
    BY <2>1, <1>3
<1> HIDE DEF w, v, e, n
<1>5. /\ Append(w, e) \in Seq(Kept) /\ Len(Append(w, e)) = n + 1
      /\ \A k \in 1..n : Append(w, e)[k] = w[k]
      /\ Append(w, e)[n + 1] = e
  BY <1>1, <1>2, AppendProperties
<1>6. \A k \in 1..(n + 1) : v[k] = Append(w, e)[k]
  <2> TAKE k \in 1..(n + 1)
  <2>1. CASE k = n + 1
    BY <1>4, <1>5, <2>1
  <2>2. CASE k # n + 1
    <3>1. k \in 1..n
      BY <1>1, <2>2
    <3> QED
      BY <1>2, <1>3, <1>5, <3>1
  <2> QED
    BY <2>1, <2>2
<1>7. v = Append(w, e)
  BY <1>3, <1>5, <1>6, SeqEqual
<1> QED
  BY <1>7 DEF v, w, e

\* Moving the head up drops what it passes.
LEMMA WindowShrinks ==
  ASSUME NEW b \in Buffers, NEW h \in Nat, NEW t \in Nat, NEW c \in Nat, h <= c, c <= t
  PROVE  Window(b, c, t) = SubSeq(Window(b, h, t), (c - h) + 1, Len(Window(b, h, t)))
<1> DEFINE w == Window(b, h, t)
           v == Window(b, c, t)
           n == t - h
           d == c - h
           s == SubSeq(w, d + 1, n)
<1>1. n \in Nat /\ d \in Nat /\ d <= n /\ t - c = n - d
  OBVIOUS
<1>2. w \in Seq(Kept) /\ Len(w) = n /\ \A k \in 1..n : w[k] = b[Ring!Slot(h + k - 1)]
  BY WindowIsSeq
<1>3. v \in Seq(Kept) /\ Len(v) = n - d /\ \A k \in 1..(n - d) : v[k] = b[Ring!Slot(c + k - 1)]
  <2>1. /\ v \in Seq(Kept) /\ Len(v) = t - c
        /\ \A k \in 1..(t - c) : v[k] = b[Ring!Slot(c + k - 1)]
    BY WindowIsSeq
  <2> HIDE DEF n, d, v
  <2> QED
    BY <1>1, <2>1
<1>4. \A k \in 1..(n - d) : h + (d + k) - 1 = c + k - 1 /\ d + k \in 1..n
  OBVIOUS
<1>5. v = s
  <2> HIDE DEF n, d, w, v
  <2>1. \A k \in (d + 1)..n : w[k] \in Kept
    BY <1>1, <1>2, ElementOfSeq
  <2>2. d + 1 \in Int /\ n \in Int
    BY <1>1
  <2>3. /\ s \in Seq(Kept)
        /\ Len(s) = IF d + 1 <= n THEN n - (d + 1) + 1 ELSE 0
        /\ \A k \in 1..(n - (d + 1) + 1) : s[k] = w[(d + 1) + k - 1]
    BY <2>1, <2>2, SubSeqProperties
  <2>4. Len(s) = n - d /\ \A k \in 1..(n - d) : s[k] = w[d + k]
    <3>1. n - (d + 1) + 1 = n - d /\ \A k \in 1..(n - d) : (d + 1) + k - 1 = d + k
      BY <1>1
    <3> HIDE DEF s
    <3> QED
      BY <1>1, <2>3, <3>1
  <2> HIDE DEF s
  <2>5. \A k \in 1..(n - d) : v[k] = s[k]
    BY <1>2, <1>3, <1>4, <2>4
  <2> QED
    BY <1>3, <2>3, <2>4, <2>5, SeqEqual
<1> QED
  BY <1>2, <1>5

\* The queue RingIsAQueue reads off the ring is its window.
LEMMA RingIsWindow ==
  /\ Ring!Queue!vars = <<Window(ring_buf, ring_head, ring_tail), ring_fill_generation,
                         ring_flush_generation, ring_played>>
  /\ RingInv => /\ ring_buf \in Buffers /\ ring_head \in Nat /\ ring_tail \in Nat
                /\ ring_head <= ring_tail
BY DEF Ring!Queue!vars, Window, Buffers, Kept, RingInv, RingTyped, RingCounts

\* Each step of the ring is a step of the queue, or leaves it alone.
LEMMA RingStepRefines ==
  RingInv /\ [Ring!Next]_(Ring!vars) => [Ring!Queue!Next]_(Ring!Queue!vars)
<1> SUFFICES ASSUME RingInv, [Ring!Next]_(Ring!vars)
             PROVE  [Ring!Queue!Next]_(Ring!Queue!vars)
  OBVIOUS
<1> DEFINE w == Window(ring_buf, ring_head, ring_tail)
<1>a. RingInv'
  BY RingStep
<1>b. /\ ring_buf \in Buffers /\ ring_head \in Nat /\ ring_tail \in Nat
      /\ ring_head <= ring_tail
  BY RingIsWindow
<1>c. w \in Seq(Kept) /\ Len(w) = ring_tail - ring_head
      /\ \A k \in 1..(ring_tail - ring_head) : w[k] = At(ring_head + k - 1)
  BY <1>b, WindowIsSeq DEF At
<1>1. ASSUME UNCHANGED <<ring_buf, ring_head, ring_tail, ring_fill_generation,
                         ring_flush_generation, ring_played>>
      PROVE  UNCHANGED Ring!Queue!vars
  BY <1>1 DEF Ring!Queue!vars
<1>2. CASE Ring!PushWrites
  <2>1. ring_buf' \in Buffers
    BY <1>a DEF RingInv, RingTyped, Buffers, Kept
  <2>2. \A i \in ring_head..(ring_tail - 1) : ring_buf'[Ring!Slot(i)] = ring_buf[Ring!Slot(i)]
    <3>1. /\ ring_tail < ring_head + RingCapacity /\ RingCapacity \in Nat
      BY <1>2, RingAssumption DEF Ring!PushWrites, Ring!Full, RingInv, RingTyped, RingCounts
    <3> TAKE i \in ring_head..(ring_tail - 1)
    <3>2. i \in Nat /\ i < ring_tail /\ ring_tail < i + RingCapacity
      BY <1>b, <3>1
    <3>3. Ring!Slot(i) # Ring!Slot(ring_tail)
      BY <1>b, <3>2, SlotsApart
    <3>4. Ring!Slot(i) \in 0..(RingCapacity - 1)
      BY <3>2, SlotExists
    <3> QED
      BY <1>2, <1>b, <3>3, <3>4 DEF Ring!PushWrites, Buffers
  <2>3. Window(ring_buf', ring_head, ring_tail) = w
    BY <1>b, <2>1, <2>2, WindowStays
  <2> QED
    BY <1>2, <2>3, RingIsWindow DEF Ring!PushWrites, Ring!Queue!vars, Window
<1>3. CASE Ring!PushPublishes
  <2> DEFINE e == [sample |-> ring_tail, generation |-> ring_fill_generation]
  <2>1. ring_buf[Ring!Slot(ring_tail)] = e
    BY <1>3 DEF Ring!PushPublishes, RingInv, RingHolds, At
  <2>2. Window(ring_buf, ring_head, ring_tail + 1) = Append(w, e)
    BY <1>b, <2>1, WindowGrows
  <2>3. ring_tail \in 0..RingPushes /\ Len(w) < RingCapacity
    <3>1. /\ ring_tail < RingPushes /\ ring_tail < ring_head + RingCapacity
      BY <1>3 DEF Ring!PushPublishes, RingInv, RingCounts
    <3> HIDE DEF w
    <3> QED
      BY <1>b, <1>c, <3>1, RingAssumption
  <2>4. Window(ring_buf', ring_head', ring_tail') = Append(w, e)
    BY <1>3, <2>2 DEF Ring!PushPublishes
  <2>5. Ring!Queue!Push
    BY <1>3, <2>3, <2>4 DEF Ring!PushPublishes, Ring!Queue!Push, Window
  <2> QED
    BY <2>5 DEF Ring!Queue!Next
<1>4. CASE Ring!BeginGeneration
  <2>1. Ring!Queue!BeginGeneration
    BY <1>4 DEF Ring!BeginGeneration, Ring!Queue!BeginGeneration
  <2> QED
    BY <2>1 DEF Ring!Queue!Next
<1>5. CASE Ring!PopReleases
  <2>1. ring_head < ring_tail /\ ring_consumer.sample = At(ring_head).sample
    BY <1>5 DEF Ring!PopReleases, RingInv, RingReads
  <2>2. Len(w) # 0 /\ w[1] = At(ring_head) /\ w # <<>>
    <3>1. ring_tail - ring_head \in Nat \ {0} /\ 1 \in 1..(ring_tail - ring_head)
          /\ ring_head + 1 - 1 = ring_head
      BY <1>b, <2>1
    <3> HIDE DEF w
    <3> QED
      BY <1>c, <3>1
  <2>3. Window(ring_buf, ring_head + 1, ring_tail) = Tail(w)
    <3>1. ring_head + 1 \in Nat /\ ring_head <= ring_head + 1 /\ ring_head + 1 <= ring_tail
          /\ (ring_head + 1) - ring_head + 1 = 2
      BY <1>b, <2>1
    <3>2. Window(ring_buf, ring_head + 1, ring_tail) = SubSeq(w, 2, Len(w))
      BY <1>b, <3>1, WindowShrinks
    <3> HIDE DEF w
    <3> QED
      BY <1>c, <2>2, <3>2, TailIsSubSeq
  <2>4. Window(ring_buf', ring_head', ring_tail') = Tail(w)
    BY <1>5, <2>3 DEF Ring!PopReleases
  <2>5. Head(w) = At(ring_head)
    <3> HIDE DEF w
    <3> QED
      BY <1>c, <2>2
  <2>6. Ring!Queue!Pop
    BY <1>5, <2>1, <2>2, <2>4, <2>5 DEF Ring!PopReleases, Ring!Queue!Pop, Window
  <2> QED
    BY <2>6 DEF Ring!Queue!Next
<1>6. CASE Ring!ClearStores
  <2> DEFINE c == ring_consumer.cursor
             n == c - ring_head
  <2>1. /\ c \in Nat /\ ring_head <= c /\ c <= ring_tail /\ ring_head' = c
        /\ \A i \in ring_head..(c - 1) : At(i).generation <= ring_flush_generation
    <3>1. /\ c \in Nat /\ ring_head <= c /\ c <= ring_tail /\ ring_head' = c
          /\ \A i \in ring_head..(c - 1) : At(i).generation <= ring_consumer.bound
      BY <1>6 DEF Ring!ClearStores, RingInv, RingReads, RingTyped
    <3>2. /\ ring_consumer.bound \in Nat /\ ring_flush_generation \in Nat
          /\ ring_consumer.bound <= ring_flush_generation
      BY DEF RingInv, RingTyped, RingMarks
    <3>3. \A i \in ring_head..(c - 1) : At(i).generation \in Nat
      <4> TAKE i \in ring_head..(c - 1)
      <4>1. i \in Nat
        BY <1>b, <3>1
      <4> QED
        BY <1>b, <4>1, SlotExists DEF At, Buffers, Kept
    <3> QED
      BY <3>1, <3>2, <3>3
  <2>2. Window(ring_buf', ring_head', ring_tail') = SubSeq(w, n + 1, Len(w))
    <3>1. Window(ring_buf, c, ring_tail) = SubSeq(w, n + 1, Len(w))
      <4> HIDE DEF c
      <4> QED
        BY <1>b, <2>1, WindowShrinks
    <3> QED
      BY <1>6, <2>1, <3>1 DEF Ring!ClearStores
  <2>3. CASE n = 0
    BY <1>1, <1>6, <1>b, <2>1, <2>3 DEF Ring!ClearStores
  <2>4. CASE n # 0
    <3>1. n \in 1..Len(w)
      <4> HIDE DEF w
      <4> QED
        BY <1>b, <1>c, <2>1, <2>4
    <3>2. \A k \in 1..n : w[k].generation <= ring_flush_generation
      <4> TAKE k \in 1..n
      <4>1. ring_head + k - 1 \in ring_head..(c - 1) /\ k \in 1..(ring_tail - ring_head)
        BY <1>b, <2>1
      <4> HIDE DEF w, n, c
      <4> QED
        BY <1>c, <2>1, <4>1
    <3>3. Ring!Queue!Discard
      BY <1>6, <2>2, <3>1, <3>2 DEF Ring!ClearStores, Ring!Queue!Discard, Window
    <3> QED
      BY <3>3 DEF Ring!Queue!Next
  <2> QED
    BY <2>3, <2>4
<1>7. ASSUME NEW m \in RingMarkers, Ring!MarkStores(m)
      PROVE  [Ring!Queue!Next]_(Ring!Queue!vars)
  <2>1. ring_flush_generation' \in ring_flush_generation..ring_fill_generation
    BY <1>7 DEF Ring!MarkStores, RingInv, RingTyped, RingMarks
  <2>2. Ring!Queue!Mark
    BY <1>7, <2>1 DEF Ring!MarkStores, Ring!Queue!Mark
  <2> QED
    BY <2>2 DEF Ring!Queue!Next
<1>8. CASE \/ Ring!PushLoads \/ Ring!PushRefused \/ Ring!PopLoads \/ Ring!PopReads
           \/ Ring!ClearLoadsBound \/ Ring!ClearLoadsTail \/ Ring!ClearScans
           \/ (\E m \in RingMarkers : Ring!MarkLoads(m)) \/ UNCHANGED Ring!vars
  <2>1. UNCHANGED <<ring_buf, ring_head, ring_tail, ring_fill_generation,
                    ring_flush_generation, ring_played>>
    BY <1>8 DEF Ring!PushLoads, Ring!PushRefused, Ring!PopLoads, Ring!PopReads,
         Ring!ClearLoadsBound, Ring!ClearLoadsTail, Ring!ClearScans, Ring!MarkLoads,
         Ring!shared, Ring!vars
  <2> QED
    BY <1>1, <2>1
<1> QED
  BY <1>2, <1>3, <1>4, <1>5, <1>6, <1>7, <1>8 DEF Ring!Next, Ring!Producer, Ring!Consumer

\* In every state of the invariant the counters agree, no slot is shared, and a flush about
\* to end has left nothing it was asked to discard.
LEMMA RingInvIsSafe ==
  RingInv => Ring!TypeOK /\ Ring!SlotsNeverShared /\ Ring!FlushIsComplete
<1> SUFFICES ASSUME RingInv PROVE Ring!TypeOK /\ Ring!SlotsNeverShared /\ Ring!FlushIsComplete
  OBVIOUS
<1> USE DEF RingInv
<1>1. Ring!TypeOK
  BY DEF Ring!TypeOK, RingTyped, RingCounts, RingReads, RingMarks
<1>2. Ring!SlotsNeverShared
  <2> SUFFICES ASSUME ring_producer.at = "check", ~Ring!Full
               PROVE  /\ ring_consumer.at = "read" => Ring!Slot(ring_tail) # Ring!Slot(ring_head)
                      /\ ring_consumer.at = "scan" /\ ring_consumer.cursor < ring_consumer.tail
                           => Ring!Slot(ring_tail) # Ring!Slot(ring_consumer.cursor)
    BY DEF Ring!SlotsNeverShared
  <2>1. /\ ring_head \in Nat /\ ring_tail \in Nat /\ RingCapacity \in Nat
        /\ ring_tail < ring_head + RingCapacity
    BY RingAssumption DEF Ring!Full, RingTyped, RingCounts
  <2>2. ASSUME NEW i \in Nat, ring_head <= i, i < ring_tail
        PROVE  Ring!Slot(ring_tail) # Ring!Slot(i)
    <3>1. ring_tail < i + RingCapacity
      BY <2>1, <2>2
    <3> QED
      BY <2>1, <2>2, <3>1, SlotsApart
  <2>3. ring_consumer.at = "read" => ring_head < ring_tail
    BY DEF RingReads
  <2>4. ring_consumer.at = "scan" /\ ring_consumer.cursor < ring_consumer.tail =>
          /\ ring_consumer.cursor \in Nat /\ ring_head <= ring_consumer.cursor
          /\ ring_consumer.cursor < ring_tail
    BY <2>1 DEF RingReads, RingTyped
  <2> QED
    BY <2>1, <2>2, <2>3, <2>4
<1>3. Ring!FlushIsComplete
  <2> SUFFICES ASSUME ring_consumer.at = "scan", Ring!StopsScan,
                      NEW i \in ring_consumer.cursor..(ring_consumer.tail - 1)
               PROVE  At(i).generation > ring_consumer.bound
    BY DEF Ring!FlushIsComplete, At
  <2> DEFINE c == ring_consumer.cursor
  <2>1. /\ c \in Nat /\ c <= i /\ i \in Nat /\ ring_head \in Nat /\ ring_tail \in Nat
        /\ c \in ring_head..(ring_tail - 1) /\ i \in ring_head..(ring_tail - 1)
        /\ c < ring_consumer.tail /\ ring_consumer.tail \in Nat /\ ring_consumer.bound \in Nat
    BY DEF RingReads, RingTyped
  <2>2. At(c).generation > ring_consumer.bound
    BY <2>1 DEF Ring!StopsScan, At
  <2>3. At(c).generation <= At(i).generation
    BY <2>1 DEF RingHolds
  <2>4. At(c).generation \in Nat /\ At(i).generation \in Nat
    BY <2>1, SlotExists DEF At, RingTyped
  <2> QED
    BY <2>1, <2>2, <2>3, <2>4
<1> QED
  BY <1>1, <1>2, <1>3

\* The sample ring is the atomic queue for any capacity, any number of flush markers and
\* any length of run (push, pop, clear_marked, FlushMarker::mark of ring.rs).
THEOREM RingRefinesQueue == Ring!Spec => RingIsAQueue
<1>1. Ring!Init => RingInv
  BY RingInit
<1>2. RingInv /\ [Ring!Next]_(Ring!vars) => RingInv'
  BY RingStep
<1>3. Ring!Init => Ring!Queue!Init
  <2> SUFFICES ASSUME Ring!Init PROVE Ring!Queue!Init
    OBVIOUS
  <2>1. ring_tail - ring_head = 0
    BY DEF Ring!Init
  <2> QED
    BY <2>1 DEF Ring!Init, Ring!Queue!Init
<1>4. RingInv /\ [Ring!Next]_(Ring!vars) => [Ring!Queue!Next]_(Ring!Queue!vars)
  BY RingStepRefines
<1>5. RingInv => Ring!TypeOK /\ Ring!SlotsNeverShared /\ Ring!FlushIsComplete
  BY RingInvIsSafe
<1> QED
  BY <1>1, <1>2, <1>3, <1>4, <1>5, PTL DEF Ring!Spec, RingIsAQueue, Ring!RingIsAQueue,
     Ring!ImplementsSampleQueue, Ring!Queue!Spec

-----------------------------------------------------------------------------
(* The CAN link. *)

LinkStates == {"unknown", "up", "bus_off"}
Tallies == [offs : Nat, errs : Nat, restarts : Nat]

LinkIfaces ==
  [here : BOOLEAN, up : BOOLEAN, rate : {"want", "other", "none"},
   queue : {"short", "long", "unread"}, counters : BOOLEAN, offs : Nat, errs : Nat,
   restarts : Nat, state : {"up", "bus_off"}]

LinkTyped ==
  /\ link_iface \in LinkIfaces
  /\ link_shared \in [state : LinkStates, restarts : Nat, events : Nat]
  /\ link_rt \in [seen : Nat, latched : BOOLEAN]
  /\ link_unseen \in Nat /\ link_reported \in Nat
  /\ link_torn \in BOOLEAN /\ link_missed \in BOOLEAN
  /\ link_sampler.counters # <<>> => link_sampler.counters[1] \in Tallies
  /\ link_sampler.base # <<>> => link_sampler.base[1] \in Nat

LinkSampler ==
  link_sampler = [prev |-> link_sampler.prev, counters |-> link_sampler.counters,
                  base |-> link_sampler.base]

\* The link as the bring-up leaves it.
LinkSet(i) == i.up /\ i.rate # "other" /\ i.queue # "short"

LinkOpen == link_opened = "open" /\ link_cycled # "failed" => LinkSet(link_iface)

\* While the counters run, the last good sample and the bus-offs since are the kernel's
\* count, and no counter went back; a baseline, once taken, is never lost.
LinkBaseline ==
  /\ link_torn => link_unseen = 0
  /\ ~link_torn /\ link_sampler.counters # <<>> =>
       /\ link_iface.offs = link_sampler.counters[1].offs + link_unseen
       /\ link_sampler.counters[1].errs <= link_iface.errs
       /\ link_sampler.counters[1].restarts <= link_iface.restarts
  /\ link_iface.counters /\ link_sampler.base # <<>> => link_sampler.counters # <<>>

\* A bus-off a sample covered is an event the RT core has not seen.
LinkOwed ==
  /\ link_rt.seen <= link_shared.events
  /\ link_reported > 0 => link_rt.seen < link_shared.events
  /\ ~link_missed

LinkInv == LinkTyped /\ LinkSampler /\ LinkOpen /\ LinkBaseline /\ LinkOwed

\* A boot finds nothing sampled, nothing reported and nothing missed.
LEMMA LinkInit == Link!Init => LinkInv
<1> SUFFICES ASSUME Link!Init PROVE LinkInv
  OBVIOUS
<1>1. link_iface \in LinkIfaces
  BY DEF Link!Init, Interfaces, LinkIfaces
<1>2. LinkTyped
  BY <1>1 DEF Link!Init, LinkTyped, LinkStates
<1> QED
  BY <1>2 DEF Link!Init, LinkInv, LinkSampler, LinkOpen, LinkBaseline, LinkOwed

\* Opening leaves the counters alone, and refuses what it cannot set.
LEMMA EnsureUpSets ==
  ASSUME link_iface \in LinkIfaces, NEW capable \in BOOLEAN, Link!EnsureUp(capable)
  PROVE  /\ link_iface' \in LinkIfaces
         /\ link_iface'.offs = link_iface.offs /\ link_iface'.errs = link_iface.errs
         /\ link_iface'.restarts = link_iface.restarts
         /\ link_iface'.counters = link_iface.counters
         /\ link_opened' = "open" => LinkSet(link_iface')
BY ZenonT(40) DEF Link!EnsureUp, Link!QueueAfter, Link!QueueAccepted, Link!TimedUp, LinkIfaces, LinkSet

\* The bring-up and the kernel's own steps keep the invariant.
LEMMA LinkKernelKeeps ==
  ASSUME LinkInv, Link!Open \/ Link!RecoverLink \/ Link!BusOff \/ Link!Restart \/ Link!Recreate
  PROVE  LinkInv'
<1> USE DEF LinkInv
<1>1. CASE Link!Open
  <2>1. PICK capable \in BOOLEAN : Link!EnsureUp(capable)
    BY <1>1 DEF Link!Open
  <2>2. /\ link_iface' \in LinkIfaces
        /\ link_iface'.offs = link_iface.offs /\ link_iface'.errs = link_iface.errs
        /\ link_iface'.restarts = link_iface.restarts
        /\ link_iface'.counters = link_iface.counters
        /\ link_opened' = "open" => LinkSet(link_iface')
    BY <2>1, EnsureUpSets DEF LinkTyped
  <2>3. UNCHANGED <<link_cycled, link_shared, link_sampler, link_rt, link_unseen, link_torn,
                    link_reported, link_missed>>
    BY <1>1 DEF Link!Open
  <2>4. LinkTyped'
    BY <2>2, <2>3 DEF LinkTyped
  <2>5. LinkBaseline'
    BY <2>2, <2>3 DEF LinkBaseline
  <2> QED
    BY <2>2, <2>3, <2>4, <2>5 DEF LinkOpen, LinkOwed, LinkSampler, LinkSet
<1>2. CASE Link!RecoverLink
  <2> USE DEF Link!RecoverLink, Link!Recreated, Link!TimedUp, Link!QueueAfter
  <2>1. /\ link_iface' \in LinkIfaces /\ link_iface'.counters = link_iface.counters
        /\ link_cycled' # "failed" => LinkSet(link_iface')
    <3>1. CASE link_iface' = Link!TimedUp(Link!Recreated(link_iface), TRUE)
      <4> DEFINE i == Link!Recreated(link_iface)
      <4>1. i \in LinkIfaces /\ i.counters = link_iface.counters
        BY DEF LinkTyped, LinkIfaces
      <4> HIDE DEF i
      <4> QED
        BY <3>1, <4>1 DEF LinkIfaces, LinkSet, i
    <3>2. CASE /\ link_cycled' = "failed"
               /\ \E up \in BOOLEAN : link_iface' = [link_iface EXCEPT !.up = up]
      BY <3>2 DEF LinkTyped, LinkIfaces
    <3> QED
      BY <1>2, <3>1, <3>2
  <2>2. LinkTyped'
    BY <1>2, <2>1 DEF LinkTyped
  <2> QED
    BY <1>2, <2>1, <2>2 DEF LinkOpen, LinkOwed, LinkBaseline, LinkSampler, LinkSet
<1>3. CASE Link!BusOff
  <2> USE DEF Link!BusOff, Link!Kernel
  <2>1. /\ link_iface' \in LinkIfaces /\ link_iface'.counters = link_iface.counters
        /\ link_iface'.offs = link_iface.offs + 1 /\ link_iface'.errs = link_iface.errs + 1
        /\ link_iface'.restarts = link_iface.restarts
        /\ LinkSet(link_iface) => LinkSet(link_iface')
    <3> DEFINE i == link_iface
    <3>1. i \in LinkIfaces /\ i.offs + 1 \in Nat /\ i.errs + 1 \in Nat /\ i.restarts + 1 \in Nat
      BY DEF LinkTyped, LinkIfaces
    <3>2. link_iface' = [link_iface EXCEPT !.state = "bus_off", !.offs = @ + 1, !.errs = @ + 1]
      BY <1>3
    <3> HIDE DEF i
    <3>3. link_iface' = [i EXCEPT !.state = "bus_off", !.offs = i.offs + 1, !.errs = i.errs + 1]
      BY <3>2 DEF i
    <3> QED
      BY <3>1, <3>3 DEF LinkIfaces, LinkSet, i
  <2>2. /\ link_unseen' \in Nat /\ link_torn' = link_torn
        /\ link_torn => link_unseen' = 0
        /\ ~link_torn => link_unseen' = link_unseen + 1
        /\ UNCHANGED <<link_opened, link_cycled, link_shared, link_sampler, link_rt,
                       link_reported, link_missed>>
    BY <1>3 DEF LinkTyped
  <2>3. LinkTyped'
    BY <2>1, <2>2 DEF LinkTyped
  <2>4. LinkBaseline'
    <3> DEFINE p == link_sampler.counters[1]
    <3>1. link_sampler.counters # <<>> => p.offs \in Nat /\ p.errs \in Nat /\ p.restarts \in Nat
      BY DEF LinkTyped, Tallies
    <3>2. link_iface.offs \in Nat /\ link_iface.errs \in Nat /\ link_iface.restarts \in Nat
      BY DEF LinkTyped, LinkIfaces
    <3>3. link_torn \in BOOLEAN /\ link_unseen \in Nat
      BY DEF LinkTyped
    <3>4. ~link_torn /\ link_sampler.counters # <<>> =>
            /\ link_iface.offs = p.offs + link_unseen /\ p.errs <= link_iface.errs
            /\ p.restarts <= link_iface.restarts
      BY DEF LinkBaseline
    <3> HIDE DEF p
    <3>5. ~link_torn /\ link_sampler.counters # <<>> =>
            /\ link_iface'.offs = p.offs + link_unseen' /\ p.errs <= link_iface'.errs
            /\ p.restarts <= link_iface'.restarts
      <4> HIDE DEF Link!BusOff, Link!Kernel
      <4> SUFFICES ASSUME ~link_torn, link_sampler.counters # <<>>
                   PROVE  /\ link_iface'.offs = p.offs + link_unseen'
                          /\ p.errs <= link_iface'.errs /\ p.restarts <= link_iface'.restarts
        OBVIOUS
      <4> DEFINE o == link_iface.offs
                 e == link_iface.errs
                 r == link_iface.restarts
      <4>1. link_iface'.offs = o + 1 /\ link_iface'.errs = e + 1 /\ link_iface'.restarts = r
        BY <2>1
      <4>2. link_unseen' = link_unseen + 1
        BY <2>2
      <4>3. /\ o \in Nat /\ e \in Nat /\ r \in Nat /\ link_unseen \in Nat
            /\ p.offs \in Nat /\ p.errs \in Nat /\ p.restarts \in Nat
            /\ o = p.offs + link_unseen /\ p.errs <= e /\ p.restarts <= r
        BY <3>1, <3>2, <3>3, <3>4
      <4> HIDE DEF o, e, r
      <4> QED
        BY <4>1, <4>2, <4>3
    <3> QED
      BY <2>1, <2>2, <3>5 DEF LinkBaseline, p
  <2> QED
    BY <2>1, <2>2, <2>3, <2>4 DEF LinkOpen, LinkOwed, LinkSampler
<1>4. CASE Link!Restart
  <2> USE DEF Link!Restart, Link!Kernel
  <2>1. /\ link_iface' \in LinkIfaces /\ link_iface'.counters = link_iface.counters
        /\ link_iface'.offs = link_iface.offs /\ link_iface'.errs = link_iface.errs
        /\ link_iface'.restarts = link_iface.restarts + 1
        /\ LinkSet(link_iface) => LinkSet(link_iface')
    <3> DEFINE i == link_iface
    <3>1. i \in LinkIfaces /\ i.offs + 1 \in Nat /\ i.errs + 1 \in Nat /\ i.restarts + 1 \in Nat
      BY DEF LinkTyped, LinkIfaces
    <3>2. link_iface' = [link_iface EXCEPT !.state = "up", !.restarts = @ + 1]
      BY <1>4
    <3> HIDE DEF i
    <3>3. link_iface' = [i EXCEPT !.state = "up", !.restarts = i.restarts + 1]
      BY <3>2 DEF i
    <3> QED
      BY <3>1, <3>3 DEF LinkIfaces, LinkSet, i
  <2>2. UNCHANGED <<link_opened, link_cycled, link_shared, link_sampler, link_rt, link_unseen,
                    link_torn, link_reported, link_missed>>
    BY <1>4
  <2>3. LinkTyped'
    BY <2>1, <2>2 DEF LinkTyped
  <2>4. LinkBaseline'
    <3> DEFINE p == link_sampler.counters[1]
    <3>1. link_sampler.counters # <<>> => p.offs \in Nat /\ p.errs \in Nat /\ p.restarts \in Nat
      BY DEF LinkTyped, Tallies
    <3>2. link_iface.offs \in Nat /\ link_iface.errs \in Nat /\ link_iface.restarts \in Nat
      BY DEF LinkTyped, LinkIfaces
    <3>3. link_torn \in BOOLEAN /\ link_unseen \in Nat
      BY DEF LinkTyped
    <3>4. ~link_torn /\ link_sampler.counters # <<>> =>
            /\ link_iface.offs = p.offs + link_unseen /\ p.errs <= link_iface.errs
            /\ p.restarts <= link_iface.restarts
      BY DEF LinkBaseline
    <3> HIDE DEF p
    <3>5. ~link_torn /\ link_sampler.counters # <<>> =>
            /\ link_iface'.offs = p.offs + link_unseen' /\ p.errs <= link_iface'.errs
            /\ p.restarts <= link_iface'.restarts
      BY <2>1, <2>2, <3>1, <3>2, <3>3, <3>4
    <3> QED
      BY <2>1, <2>2, <3>5 DEF LinkBaseline, p
  <2> QED
    BY <2>1, <2>2, <2>3, <2>4 DEF LinkOpen, LinkOwed, LinkSampler
<1>5. CASE Link!Recreate
  <2> USE DEF Link!Recreate, Link!Recreated, Link!Kernel
  <2>1. /\ link_iface' \in LinkIfaces /\ link_iface'.counters = link_iface.counters
        /\ LinkSet(link_iface) => LinkSet(link_iface')
    BY <1>5 DEF LinkTyped, LinkIfaces, LinkSet
  <2>2. LinkTyped'
    BY <1>5, <2>1 DEF LinkTyped
  <2> QED
    BY <1>5, <2>1, <2>2 DEF LinkOpen, LinkOwed, LinkBaseline, LinkSampler
<1> QED
  BY <1>1, <1>2, <1>3, <1>4, <1>5

\* A sample of the monitor keeps the invariant: what the counters moved by since the last
\* good one is published as events.
LEMMA LinkSampleKeeps ==
  ASSUME LinkInv, Link!Sample
  PROVE  LinkInv'
<1> USE DEF LinkInv
<1>0. UNCHANGED <<link_iface, link_opened, link_cycled, link_rt, link_missed>>
  BY DEF Link!Sample
<1>1. PICK state \in Link!Sampled :
       \/ /\ link_iface.counters
          /\ Link!AbsorbCounters(state, Link!Counters(link_iface))
          /\ link_reported' = link_reported + (IF link_sampler.base # <<>> THEN link_unseen ELSE 0)
          /\ link_unseen' = 0 /\ link_torn' = FALSE
       \/ /\ ~link_iface.counters
          /\ Link!AbsorbState(state)
          /\ UNCHANGED <<link_unseen, link_torn, link_reported>>
       \/ /\ Link!AbsorbFailed(state)
          /\ UNCHANGED <<link_unseen, link_torn, link_reported>>
  BY DEF Link!Sample
<1>2. state \in LinkStates
  BY DEF Link!Sampled, LinkStates, LinkTyped, LinkIfaces
<1>3. CASE /\ link_iface.counters
           /\ Link!AbsorbCounters(state, Link!Counters(link_iface))
           /\ link_reported' = link_reported + (IF link_sampler.base # <<>> THEN link_unseen ELSE 0)
           /\ link_unseen' = 0 /\ link_torn' = FALSE
  <2> DEFINE now == Link!Counters(link_iface)
             prev == link_sampler.counters[1]
             had == link_sampler.counters # <<>>
             rebas == had /\ Link!Rebased(prev, now)
             base == IF rebas \/ link_sampler.base = <<>> THEN now.restarts
                                                        ELSE link_sampler.base[1]
             added == IF had THEN Link!NewBusOffs(prev, now) ELSE 0
  <2>1. /\ link_sampler' = [prev |-> state, counters |-> <<now>>, base |-> <<base>>]
        /\ link_shared' = [state |-> state, restarts |-> Link!Since(now.restarts, base),
                           events |-> link_shared.events + added]
    BY <1>3 DEF Link!AbsorbCounters
  <2>2. now \in Tallies /\ now.offs = link_iface.offs /\ now.errs = link_iface.errs
        /\ now.restarts = link_iface.restarts
    BY DEF Link!Counters, Tallies, LinkTyped, LinkIfaces
  <2>3. had => prev \in Tallies
    BY DEF LinkTyped
  <2> HIDE DEF now, prev
  <2>4. base \in Nat
    BY <2>2 DEF LinkTyped, Tallies
  <2>5. added \in Nat /\ (had /\ ~link_torn => added = link_unseen)
    <3>1. had /\ ~link_torn => /\ now.offs = prev.offs + link_unseen
                               /\ prev.errs <= now.errs /\ prev.restarts <= now.restarts
      BY <2>2 DEF LinkBaseline, prev
    <3> QED
      BY <2>2, <2>3, <3>1, SMTT(40) DEF Link!NewBusOffs, Link!Rebased, Tallies, LinkTyped
  <2>6. link_sampler.base # <<>> => (link_torn => link_unseen = 0) /\ had
    BY <1>3 DEF LinkBaseline
  <2> HIDE DEF had, base, added
  <2>7. Link!Since(now.restarts, base) \in Nat
    BY <2>2, <2>4 DEF Link!Since, Tallies
  <2>8. /\ link_shared' \in [state : LinkStates, restarts : Nat, events : Nat]
        /\ link_shared'.events = link_shared.events + added
    BY <1>2, <2>1, <2>5, <2>7 DEF LinkTyped
  <2>9. /\ link_sampler'.counters # <<>> /\ link_sampler'.counters[1] = now
        /\ link_sampler'.base # <<>> /\ link_sampler'.base[1] = base
        /\ LinkSampler'
    BY <2>1 DEF LinkSampler
  <2>10. link_reported' \in Nat /\ (link_reported' > 0 => link_reported > 0 \/ added > 0)
    BY <1>3, <2>5, <2>6 DEF LinkTyped
  <2>11. LinkTyped'
    BY <1>0, <1>3, <2>2, <2>4, <2>8, <2>9, <2>10 DEF LinkTyped
  <2>12. LinkBaseline'
    BY <1>0, <1>3, <2>2, <2>9 DEF LinkBaseline, LinkTyped, LinkIfaces
  <2>13. LinkOwed'
    <3>1. link_rt.seen \in Nat /\ link_shared.events \in Nat
      BY DEF LinkTyped
    <3>2. link_rt' = link_rt /\ link_missed' = link_missed
      BY <1>0
    <3> QED
      BY <2>5, <2>8, <2>10, <3>1, <3>2 DEF LinkOwed
  <2> QED
    BY <1>0, <2>9, <2>11, <2>12, <2>13 DEF LinkOpen
<1>4. ASSUME UNCHANGED <<link_unseen, link_torn, link_reported>>,
             link_shared' = [link_shared EXCEPT !.state = state,
                                                !.restarts = Link!Counted(@, state)],
             LinkSampler', link_sampler'.base = link_sampler.base,
             \/ link_sampler'.counters = link_sampler.counters
             \/ ~link_iface.counters /\ link_sampler'.counters = <<>>
      PROVE  LinkInv'
  <2>1. /\ link_shared' \in [state : LinkStates, restarts : Nat, events : Nat]
        /\ link_shared'.events = link_shared.events
    <3>1. Link!Counted(link_shared.restarts, state) \in Nat
      BY DEF LinkTyped, Link!Counted
    <3> QED
      BY <1>2, <1>4, <3>1 DEF LinkTyped
  <2>2. LinkTyped'
    BY <1>0, <1>4, <2>1 DEF LinkTyped
  <2>3. LinkBaseline'
    BY <1>0, <1>4 DEF LinkBaseline
  <2> QED
    BY <1>0, <1>4, <2>1, <2>2, <2>3 DEF LinkOpen, LinkOwed
<1>5. CASE /\ ~link_iface.counters /\ Link!AbsorbState(state)
           /\ UNCHANGED <<link_unseen, link_torn, link_reported>>
  BY <1>4, <1>5 DEF Link!AbsorbState, LinkSampler
<1>6. CASE /\ Link!AbsorbFailed(state)
           /\ UNCHANGED <<link_unseen, link_torn, link_reported>>
  BY <1>4, <1>6 DEF Link!AbsorbFailed, LinkSampler
<1> QED
  BY <1>1, <1>3, <1>5, <1>6

\* The RT core's check, a clear and a replaced bus keep the invariant: a covered bus-off is
\* an unseen event, which trips the check.
LEMMA LinkRtKeeps ==
  ASSUME LinkInv, Link!Check \/ Link!Clear \/ Link!ReplaceBus
  PROVE  LinkInv'
<1> USE DEF LinkInv
<1>1. CASE Link!Check
  <2>1. /\ UNCHANGED <<link_iface, link_opened, link_cycled, link_shared, link_sampler,
                       link_unseen, link_torn>>
        /\ link_reported' = 0
    BY <1>1 DEF Link!Check
  <2>2. link_reported > 0 => Link!Tripped
    BY DEF Link!Tripped, LinkOwed, LinkTyped
  <2>3. link_missed' = FALSE
    BY <1>1, <2>2 DEF Link!Check, LinkOwed, LinkTyped
  <2>4. /\ link_rt' \in [seen : Nat, latched : BOOLEAN]
        /\ link_rt'.seen <= link_shared.events
    BY <1>1 DEF Link!Check, LinkOwed, LinkTyped
  <2>5. LinkTyped'
    BY <2>1, <2>3, <2>4 DEF LinkTyped
  <2> QED
    BY <2>1, <2>3, <2>4, <2>5 DEF LinkOpen, LinkOwed, LinkBaseline, LinkSampler
<1>2. CASE Link!Clear
  <2>1. /\ link_rt' \in [seen : Nat, latched : BOOLEAN] /\ link_rt'.seen = link_rt.seen
    BY <1>2 DEF Link!Clear, LinkTyped
  <2>2. LinkTyped'
    BY <1>2, <2>1 DEF Link!Clear, LinkTyped
  <2> QED
    BY <1>2, <2>1, <2>2 DEF Link!Clear, LinkOpen, LinkOwed, LinkBaseline, LinkSampler
<1>3. CASE Link!ReplaceBus
  <2>1. PICK capable \in BOOLEAN : Link!EnsureUp(capable) /\ link_opened' = "open"
    BY <1>3 DEF Link!ReplaceBus
  <2>2. link_iface' \in LinkIfaces /\ LinkSet(link_iface')
    BY <2>1, EnsureUpSets DEF LinkTyped
  <2>3. /\ link_shared' = [state |-> "unknown", restarts |-> 0, events |-> 0]
        /\ link_sampler' = [prev |-> "unknown", counters |-> <<>>, base |-> <<>>]
        /\ link_unseen' = 0 /\ link_torn' = FALSE /\ link_reported' = 0
        /\ link_missed' = link_missed
        /\ link_rt' \in [seen : Nat, latched : BOOLEAN] /\ link_rt'.seen = 0
    BY <1>3 DEF Link!ReplaceBus, Link!Fresh, LinkTyped
  <2>4. LinkTyped'
    BY <2>2, <2>3 DEF LinkTyped, LinkStates
  <2> QED
    BY <2>2, <2>3, <2>4 DEF LinkOpen, LinkOwed, LinkBaseline, LinkSampler
<1> QED
  BY <1>1, <1>2, <1>3

\* However many bus-offs, restarts, re-created interfaces, failed queries and replaced
\* buses: an open bus is set as configured, and no bus-off a sample covered passes the RT
\* core's check (ensure_up, recover_link, Sampler::absorb, the error phase's link check).
THEOREM LinkStaysTrusted == Link!Spec => []LinkIsTrusted
<1>1. Link!Init => LinkInv
  BY LinkInit
<1>2. LinkInv /\ [Link!Next]_(Link!vars) => LinkInv'
  <2> SUFFICES ASSUME LinkInv, [Link!Next]_(Link!vars) PROVE LinkInv'
    OBVIOUS
  <2>1. CASE UNCHANGED Link!vars
    BY <2>1 DEF Link!vars, LinkInv, LinkTyped, LinkSampler, LinkOpen, LinkBaseline, LinkOwed
  <2> QED
    BY <2>1, LinkKernelKeeps, LinkSampleKeeps, LinkRtKeeps DEF Link!Next
<1>3. LinkInv => LinkIsTrusted
  BY DEF LinkInv, LinkOpen, LinkOwed, LinkSet, LinkIsTrusted, Link!LinkIsTrusted,
         Link!BusOffNotMissed, Link!OpenAsConfigured
<1> QED
  BY <1>1, <1>2, <1>3, PTL DEF Link!Spec

-----------------------------------------------------------------------------
(* The loop-rate capture. *)

Places == 0..(ScopeLen - 1)
Triples == Nat \X Nat \X Nat

ScopeTyped ==
  /\ scope_drive \in [capture : Nat, pos : Nat, tick : Nat, wanted : Nat, div : Nat]
  /\ scope_buf \in [recorded : Nat, wanted : Nat, rows : [Scope!Channels -> [Places -> Triples]],
                    received : [Scope!Channels -> SUBSET Nat]]

\* The drive records up to the length asked for, which its buffer holds.
ScopeRecorder == scope_drive.pos <= scope_drive.wanted /\ scope_drive.wanted <= ScopeLen

ScopeFull == scope_drive.pos = scope_drive.wanted

\* What the backend knows of the recorder is of this capture, and not ahead of it.
ScopeStatus ==
  /\ scope_buf.wanted # 0 => scope_buf.wanted = scope_drive.wanted
  /\ scope_buf.recorded <= scope_drive.pos

\* The replies a drive may have sent about its present capture: a status, and pairs, which
\* are only asked for once it is full.
ScopeStatuses == [ch : {Scope!Status}, recorded : 0..scope_drive.pos, wanted : {scope_drive.wanted}]
ScopePairs == {Scope!CaptureReply(ch, k) : ch \in Scope!Channels, k \in Nat}
ScopeSent == ScopeStatuses \cup (IF ScopeFull THEN ScopePairs ELSE {})

ScopeWire == scope_rx \in Seq(ScopeSent)

\* A stream runs over a full, nonempty capture.
ScopeStream ==
  scope_stream # <<>> =>
    /\ ScopeFull /\ scope_drive.pos > 0
    /\ scope_stream[1] \in 0..2 /\ scope_stream[2] \in 0..(Scope!CapturePairs - 1)

\* Pairs received are the drive's own.
ScopeRows ==
  \A ch \in Scope!Channels : \A c \in scope_buf.received[ch] :
    /\ ScopeFull
    /\ \A i \in Places : i \div 2 = c /\ i < scope_drive.pos =>
         scope_buf.rows[ch][i] = <<scope_drive.capture, ch, i>>

ScopeInv ==
  /\ ScopeTyped /\ ScopeRecorder /\ ScopeStatus /\ ScopeWire /\ ScopeStream /\ ScopeRows

\* Nothing is recorded, asked for or stored at boot.
LEMMA ScopeInit == Scope!Init => ScopeInv
<1> SUFFICES ASSUME Scope!Init PROVE ScopeInv
  OBVIOUS
<1>1. ScopeTyped
  BY ScopeAssumption DEF Scope!Init, Scope!Cleared, Scope!Zero, ScopeTyped, Triples, Places
<1>2. ScopeRows
  BY DEF Scope!Init, Scope!Cleared, ScopeRows
<1>3. ScopeWire
  BY EmptySeq DEF Scope!Init, ScopeWire
<1> QED
  BY <1>1, <1>2, <1>3, ScopeAssumption DEF Scope!Init, Scope!Cleared, ScopeInv, ScopeRecorder,
     ScopeStatus, ScopeStream

\* Once the status says the drive stopped, it is full.
LEMMA StoppedIsFull ==
  ASSUME ScopeInv, Scope!Stopped
  PROVE  ScopeFull /\ scope_drive.pos > 0 /\ scope_buf.recorded = scope_drive.pos
<1>1. /\ scope_drive.pos \in Nat /\ scope_drive.wanted \in Nat
      /\ scope_buf.recorded \in Nat /\ scope_buf.wanted \in Nat
  BY DEF ScopeInv, ScopeTyped
<1> QED
  BY <1>1 DEF ScopeInv, ScopeRecorder, ScopeStatus, ScopeFull, Scope!Stopped

\* Places of three runs of p pairs: which run, and where in it.
LEMMA ThreeRuns ==
  ASSUME NEW p \in Nat \ {0}, NEW a \in Nat, a < 3 * p
  PROVE  (a \div p) \in 0..2 /\ (a % p) \in 0..(p - 1)
<1>1. a = p * (a \div p) + (a % p) /\ (a % p) \in 0..(p - 1) /\ (a \div p) \in Int
  OBVIOUS
<1> DEFINE d == a \div p
           m == a % p
<1> HIDE DEF d, m
<1>2. a = p * d + m /\ m \in 0..(p - 1) /\ d \in Int
  BY <1>1 DEF d, m
<1>3. ~(d <= -1)
  <2> SUFFICES ASSUME d <= -1 PROVE FALSE
    OBVIOUS
  <2>1. p * d <= p * (-1)
    BY <1>2
  <2> QED
    BY <1>2, <2>1
<1>4. ~(d >= 3)
  <2> SUFFICES ASSUME d >= 3 PROVE FALSE
    OBVIOUS
  <2>1. p * d >= p * 3
    BY <1>2
  <2> QED
    BY <1>2, <2>1
<1> QED
  BY <1>2, <1>3, <1>4 DEF d, m

\* What is queued, less a reply the bus drops, is again what the drive sent.
LEMMA EnqueueSent ==
  ASSUME scope_rx \in Seq(ScopeSent), NEW fs \in Seq(ScopeSent), Scope!Enqueue(fs)
  PROVE  scope_rx' \in Seq(ScopeSent)
<1>1. fs # <<>> => Tail(fs) \in Seq(ScopeSent)
  BY HeadTailProperties
<1>2. CASE scope_rx' = scope_rx \o fs
  BY <1>2, ConcatProperties
<1>3. CASE fs # <<>> /\ scope_rx' = scope_rx \o Tail(fs)
  BY <1>1, <1>3, ConcatProperties
<1> QED
  BY <1>2, <1>3 DEF Scope!Enqueue

\* A reply to a request is of the present capture.
LEMMA AskSends ==
  ASSUME ScopeInv, NEW ch, NEW k \in Nat, Scope!Ask(ch, k),
         ch = Scope!Status \/ (ScopeFull /\ ch \in Scope!Channels)
  PROVE  ScopeInv'
<1> DEFINE f == Scope!CaptureReply(ch, k)
<1>1. f \in ScopeSent
  <2>1. CASE ch = Scope!Status
    BY <2>1 DEF Scope!CaptureReply, ScopeSent, ScopeStatuses, ScopeInv, ScopeTyped
  <2>2. CASE ScopeFull /\ ch \in Scope!Channels
    BY <2>2 DEF ScopeSent, ScopePairs
  <2> QED
    BY <2>1, <2>2
<1> HIDE DEF f
<1>2. <<f>> \in Seq(ScopeSent)
  BY <1>1
<1>3. scope_rx' \in Seq(ScopeSent)
  BY <1>2, EnqueueSent DEF ScopeInv, ScopeWire, Scope!Ask, f
<1>4. UNCHANGED <<scope_drive, scope_stream, scope_buf>>
  BY DEF Scope!Ask
<1>5. ScopeSent' = ScopeSent
  BY <1>4 DEF ScopeSent, ScopeStatuses, ScopePairs, ScopeFull, Scope!CaptureReply, Scope!Sample
<1> QED
  BY <1>3, <1>4, <1>5 DEF ScopeInv, ScopeTyped, ScopeRecorder, ScopeStatus, ScopeWire,
     ScopeStream, ScopeRows, ScopeFull, Scope!CapturePairs, Scope!DivCeil2

\* The drive's own steps keep the invariant.
LEMMA ScopeDriveKeeps ==
  ASSUME ScopeInv, Scope!RecordCapture \/ Scope!PumpStreams
  PROVE  ScopeInv'
<1> USE DEF ScopeInv
<1>1. CASE Scope!RecordCapture
  <2>1. /\ ~ScopeFull /\ UNCHANGED <<scope_stream, scope_rx, scope_buf>>
        /\ scope_drive.pos < scope_drive.wanted
    BY <1>1 DEF Scope!RecordCapture, ScopeFull, ScopeTyped
  <2>2. /\ scope_drive' \in [capture : Nat, pos : Nat, tick : Nat, wanted : Nat, div : Nat]
        /\ scope_drive'.wanted = scope_drive.wanted
        /\ scope_drive.pos <= scope_drive'.pos /\ scope_drive'.pos <= scope_drive.wanted
    <3>1. /\ scope_drive.pos \in Nat /\ scope_drive.wanted \in Nat /\ scope_drive.tick \in Nat
          /\ scope_drive.pos + 1 \in Nat /\ scope_drive.tick + 1 \in Nat
      BY DEF ScopeTyped
    <3>2. \/ scope_drive' = [scope_drive EXCEPT !.tick = 0, !.pos = scope_drive.pos + 1]
          \/ scope_drive' = [scope_drive EXCEPT !.tick = scope_drive.tick + 1]
      BY <1>1 DEF Scope!RecordCapture
    <3>3. /\ scope_drive' \in [capture : Nat, pos : Nat, tick : Nat, wanted : Nat, div : Nat]
          /\ scope_drive'.wanted = scope_drive.wanted
          /\ scope_drive'.pos = scope_drive.pos \/ scope_drive'.pos = scope_drive.pos + 1
      <4> DEFINE p == scope_drive.pos + 1
                 t == scope_drive.tick + 1
      <4>1. p \in Nat /\ t \in Nat
        BY <3>1
      <4>2. \/ scope_drive' = [scope_drive EXCEPT !.tick = 0, !.pos = p]
            \/ scope_drive' = [scope_drive EXCEPT !.tick = t]
        BY <3>2
      <4> HIDE DEF p, t
      <4>3. CASE scope_drive' = [scope_drive EXCEPT !.tick = 0, !.pos = p]
        <5>1. scope_drive'.pos = p /\ scope_drive'.wanted = scope_drive.wanted
          BY <4>3 DEF ScopeTyped
        <5> QED
          BY <4>1, <4>3, <5>1 DEF ScopeTyped, p
      <4>4. CASE scope_drive' = [scope_drive EXCEPT !.tick = t]
        BY <4>1, <4>4 DEF ScopeTyped
      <4> QED
        BY <4>2, <4>3, <4>4
    <3> QED
      BY <2>1, <3>1, <3>3
  <2>3. ScopeTyped' /\ ScopeRecorder' /\ ScopeStatus'
    BY <2>1, <2>2 DEF ScopeTyped, ScopeRecorder, ScopeStatus
  <2>4. ScopeStream' /\ ScopeRows'
    BY <2>1 DEF ScopeStream, ScopeRows
  <2>5. ScopeWire'
    <3>1. ScopeSent \subseteq ScopeSent'
      <4>1. 0..scope_drive.pos \subseteq 0..scope_drive'.pos
        BY <2>2 DEF ScopeTyped
      <4> QED
        BY <2>1, <2>2, <4>1 DEF ScopeSent, ScopeStatuses
    <3> QED
      BY <2>1, <3>1, SeqMonotonic DEF ScopeWire
  <2> QED
    BY <2>3, <2>4, <2>5
<1>2. CASE Scope!PumpStreams
  <2> DEFINE p == Scope!CapturePairs
             at == scope_stream[1] * p + scope_stream[2]
             upto == IF at + ScopePerTick > 3 * p THEN 3 * p ELSE at + ScopePerTick
             n == upto - at
             next == at + Len(Scope!Frames)
  <2>1. /\ ScopeFull /\ scope_drive.pos > 0 /\ scope_stream[1] \in 0..2
        /\ scope_stream[2] \in 0..(p - 1) /\ UNCHANGED <<scope_drive, scope_buf>>
    BY <1>2 DEF Scope!PumpStreams, ScopeStream
  <2>2. p \in Nat \ {0}
    BY <2>1 DEF Scope!CapturePairs, Scope!DivCeil2, ScopeTyped
  <2>3. Scope!Frames = [k \in 1..n |-> Scope!CaptureReply((at + k - 1) \div p, (at + k - 1) % p)]
    BY DEF Scope!Frames
  <2>4. scope_stream' = IF next >= 3 * p THEN <<>> ELSE <<next \div p, next % p>>
    BY <1>2 DEF Scope!PumpStreams
  <2> HIDE DEF p
  <2>5. at \in Nat /\ at < 3 * p
    <3>1. scope_stream[1] = 0 \/ scope_stream[1] = 1 \/ scope_stream[1] = 2
      BY <2>1
    <3> QED
      BY <2>1, <2>2, <3>1
  <2> HIDE DEF at
  <2>6. n \in Nat /\ at + n <= 3 * p
    BY <2>2, <2>5, ScopeAssumption
  <2> HIDE DEF n
  <2>7. \A k \in 1..n : Scope!CaptureReply((at + k - 1) \div p, (at + k - 1) % p) \in ScopeSent
    <3> TAKE k \in 1..n
    <3> DEFINE a == at + k - 1
    <3>1. a \in Nat /\ a < 3 * p
      BY <2>2, <2>5, <2>6
    <3> HIDE DEF a
    <3>2. (a \div p) \in 0..2 /\ (a % p) \in 0..(p - 1)
      BY <2>2, <3>1, ThreeRuns
    <3>3. (a \div p) \in Scope!Channels /\ (a % p) \in Nat
      BY <2>2, <3>2 DEF Scope!Channels
    <3>4. Scope!CaptureReply(a \div p, a % p) \in ScopeSent
      BY <2>1, <3>3 DEF ScopeSent, ScopePairs
    <3> QED
      BY <3>4 DEF a
  <2>8. Scope!Frames \in Seq(ScopeSent)
    BY <2>3, <2>6, <2>7, IsASeq
  <2>9. scope_rx' \in Seq(ScopeSent)
    BY <1>2, <2>8, EnqueueSent DEF Scope!PumpStreams, ScopeWire
  <2>10. scope_stream' # <<>> => scope_stream'[1] \in 0..2 /\ scope_stream'[2] \in 0..(p - 1)
    <3>1. next \in Nat
      BY <2>5, <2>8, LenProperties
    <3> HIDE DEF next
    <3>2. next < 3 * p => (next \div p) \in 0..2 /\ (next % p) \in 0..(p - 1)
      BY <2>2, <3>1, ThreeRuns
    <3>3. next < 3 * p \/ next >= 3 * p
      BY <2>2, <3>1
    <3> QED
      BY <2>4, <3>2, <3>3
  <2>11. ScopeSent' = ScopeSent /\ Scope!CapturePairs' = Scope!CapturePairs
    BY <2>1 DEF ScopeSent, ScopeStatuses, ScopePairs, ScopeFull, Scope!CaptureReply, Scope!Sample,
         Scope!CapturePairs
  <2>12. ScopeStream'
    BY <2>1, <2>10, <2>11 DEF ScopeStream, ScopeFull, p
  <2> QED
    BY <2>1, <2>9, <2>11, <2>12 DEF ScopeTyped, ScopeRecorder, ScopeStatus, ScopeWire,
       ScopeRows, ScopeFull
<1> QED
  BY <1>1, <1>2

\* The host's steps keep the invariant: a start forgets the capture before, with its stream.
LEMMA ScopeHostKeeps ==
  ASSUME ScopeInv,
         \/ \E d \in ScopeDivisors, w \in ScopeWanted : Scope!CaptureStart(d, w)
         \/ Scope!ReadStatus \/ Scope!ReadMissing \/ Scope!CaptureStream
  PROVE  ScopeInv'
<1>1. ASSUME NEW d \in ScopeDivisors, NEW w \in ScopeWanted, Scope!CaptureStart(d, w)
      PROVE  ScopeInv'
  <2>1. /\ scope_stream' = <<>> /\ scope_buf' = Scope!Cleared /\ scope_drive' = Scope!Started(d, w)
        /\ scope_rx' = <<>>
    BY <1>1 DEF Scope!CaptureStart, Scope!CanStart
  <2>2. d \in Nat /\ w \in Nat /\ ScopeLen \in Nat /\ scope_drive.capture \in Nat
    BY ScopeAssumption DEF ScopeInv, ScopeTyped
  <2>3. /\ scope_drive' \in [capture : Nat, pos : Nat, tick : Nat, wanted : Nat, div : Nat]
        /\ scope_drive'.pos = 0 /\ scope_drive'.wanted <= ScopeLen
    BY <2>1, <2>2 DEF Scope!Started
  <2>4. /\ scope_buf' \in [recorded : Nat, wanted : Nat,
                           rows : [Scope!Channels -> [Places -> Triples]],
                           received : [Scope!Channels -> SUBSET Nat]]
        /\ scope_buf'.recorded = 0 /\ scope_buf'.wanted = 0
        /\ \A ch \in Scope!Channels : scope_buf'.received[ch] = {}
    BY <2>1 DEF Scope!Cleared, Scope!Zero, Triples, Places
  <2>5. ScopeWire'
    BY <2>1, EmptySeq DEF ScopeWire
  <2> QED
    BY <2>1, <2>3, <2>4, <2>5 DEF ScopeInv, ScopeTyped, ScopeRecorder, ScopeStatus, ScopeStream,
       ScopeRows
<1>2. CASE Scope!ReadStatus
  BY <1>2, AskSends DEF Scope!ReadStatus
<1>3. CASE Scope!ReadMissing
  <2>1. PICK ch \in Scope!Channels : \E c \in Scope!Missing(ch) : Scope!Ask(ch, c)
    BY <1>3 DEF Scope!ReadMissing
  <2>2. PICK c \in Scope!Missing(ch) : Scope!Ask(ch, c)
    BY <2>1
  <2>3. c \in Nat
    BY <2>2 DEF Scope!Missing
  <2>4. ScopeFull
    BY <1>3, StoppedIsFull DEF Scope!ReadMissing
  <2> QED
    BY <2>2, <2>3, <2>4, AskSends
<1>4. CASE Scope!CaptureStream
  <2>1. /\ ScopeFull /\ scope_drive.pos > 0 /\ scope_stream' = <<0, 0>>
        /\ UNCHANGED <<scope_drive, scope_rx, scope_buf>>
    BY <1>4, StoppedIsFull DEF Scope!CaptureStream
  <2>2. Scope!CapturePairs \in Nat \ {0}
    BY <2>1 DEF Scope!CapturePairs, Scope!DivCeil2, ScopeInv, ScopeTyped
  <2>3. ScopeSent' = ScopeSent /\ Scope!CapturePairs' = Scope!CapturePairs
    BY <2>1 DEF ScopeSent, ScopeStatuses, ScopePairs, ScopeFull, Scope!CaptureReply, Scope!Sample,
         Scope!CapturePairs
  <2>4. ScopeStream'
    BY <2>1, <2>2, <2>3 DEF ScopeStream, ScopeFull
  <2> QED
    BY <2>1, <2>3, <2>4 DEF ScopeInv, ScopeTyped, ScopeRecorder, ScopeStatus, ScopeWire,
       ScopeRows, ScopeFull
<1> QED
  BY <1>1, <1>2, <1>3, <1>4

\* Storing a reply keeps the invariant.
LEMMA ScopeDrainKeeps ==
  ASSUME ScopeInv, Scope!DrainRx
  PROVE  ScopeInv'
<1> USE DEF ScopeInv
<1> DEFINE f == Head(scope_rx)
<1>1. /\ f \in ScopeSent /\ scope_rx' \in Seq(ScopeSent)
      /\ UNCHANGED <<scope_drive, scope_stream>>
      /\ scope_buf' = IF f.ch = Scope!Status THEN Scope!SetStatus(f) ELSE Scope!Store(f)
  BY HeadTailProperties DEF Scope!DrainRx, ScopeWire
<1> HIDE DEF f
<1>2. ScopeSent' = ScopeSent /\ Scope!CapturePairs' = Scope!CapturePairs /\ ScopeFull' = ScopeFull
  BY <1>1 DEF ScopeSent, ScopeStatuses, ScopePairs, ScopeFull, Scope!CaptureReply, Scope!Sample,
       Scope!CapturePairs
<1>3. ScopeRecorder' /\ ScopeWire' /\ ScopeStream'
  BY <1>1, <1>2 DEF ScopeRecorder, ScopeWire, ScopeStream
<1>4. CASE f \in ScopeStatuses
  <2>1. /\ f.ch = Scope!Status /\ f.recorded \in Nat /\ f.recorded <= scope_drive.pos
        /\ f.wanted = scope_drive.wanted
    BY <1>4 DEF ScopeStatuses, ScopeTyped
  <2>2. scope_buf' = [scope_buf EXCEPT !.recorded = f.recorded, !.wanted = f.wanted]
    BY <1>1, <2>1 DEF Scope!SetStatus
  <2>3. /\ scope_buf'.recorded = f.recorded /\ scope_buf'.wanted = f.wanted
        /\ scope_buf'.rows = scope_buf.rows /\ scope_buf'.received = scope_buf.received
        /\ ScopeTyped'
    BY <1>1, <2>1, <2>2 DEF ScopeTyped
  <2>4. ScopeStatus' /\ ScopeRows'
    BY <1>1, <1>2, <2>1, <2>3 DEF ScopeStatus, ScopeRows
  <2> QED
    BY <1>3, <2>3, <2>4
<1>5. CASE ScopeFull /\ f \in ScopePairs
  <2>1. PICK ch \in Scope!Channels, k \in Nat : f = Scope!CaptureReply(ch, k)
    BY <1>5 DEF ScopePairs
  <2>2. /\ ch \in 0..2 /\ f.ch = ch /\ f.chunk = k /\ f.ch # Scope!Status
        /\ f.samples = <<Scope!Sample(ch, 2 * k), Scope!Sample(ch, 2 * k + 1)>>
    BY <2>1 DEF Scope!CaptureReply, Scope!Channels, Scope!Status
  <2> DEFINE row == [i \in Places |-> IF i \div 2 = k THEN f.samples[(i % 2) + 1]
                                                     ELSE scope_buf.rows[ch][i]]
  <2>3. DOMAIN scope_buf.rows[ch] = Places
    BY DEF ScopeTyped
  <2>4. scope_buf' = [scope_buf EXCEPT !.rows[ch] = row,
                                       !.received[ch] = scope_buf.received[ch] \cup {k}]
    BY <1>1, <2>2, <2>3 DEF Scope!Store
  <2>5. \A i \in Places : i \div 2 = k =>
           row[i] = Scope!Sample(ch, i)
    <3> TAKE i \in Places
    <3>1. i \in Nat /\ (i \div 2 = k => (i = 2 * k /\ i % 2 = 0) \/ (i = 2 * k + 1 /\ i % 2 = 1))
      BY ScopeAssumption DEF Places
    <3>2. row[i] = IF i \div 2 = k THEN f.samples[(i % 2) + 1] ELSE scope_buf.rows[ch][i]
      OBVIOUS
    <3>3. f.samples[1] = Scope!Sample(ch, 2 * k) /\ f.samples[2] = Scope!Sample(ch, 2 * k + 1)
      BY <2>2
    <3> HIDE DEF row
    <3> QED
      BY <3>1, <3>2, <3>3
  <2>6. \A i \in Places : Scope!Sample(ch, i) \in Triples
    <3> TAKE i \in Places
    <3>1. i \in Nat /\ ch \in Nat /\ scope_drive.capture \in Nat
      BY <2>2, ScopeAssumption DEF Places, ScopeTyped
    <3> QED
      BY <3>1 DEF Scope!Sample, Scope!Zero, Triples
  <2>7. row \in [Places -> Triples]
    <3>1. scope_buf.rows[ch] \in [Places -> Triples]
      BY DEF ScopeTyped
    <3> HIDE DEF row
    <3>2. \A i \in Places : row[i] \in Triples
      BY <2>5, <2>6, <3>1 DEF row
    <3> QED
      BY <3>2 DEF row
  <2> HIDE DEF row
  <2>8. /\ scope_buf'.recorded = scope_buf.recorded /\ scope_buf'.wanted = scope_buf.wanted
        /\ scope_buf'.rows = [scope_buf.rows EXCEPT ![ch] = row]
        /\ scope_buf'.received = [scope_buf.received EXCEPT ![ch] = @ \cup {k}]
        /\ ScopeTyped'
    <3> DEFINE got == scope_buf.received[ch] \cup {k}
    <3>1. got \in SUBSET Nat
      BY DEF ScopeTyped
    <3> HIDE DEF got
    <3>2. /\ scope_buf'.recorded = scope_buf.recorded /\ scope_buf'.wanted = scope_buf.wanted
          /\ scope_buf'.rows = [scope_buf.rows EXCEPT ![ch] = row]
          /\ scope_buf'.received = [scope_buf.received EXCEPT ![ch] = got]
          /\ scope_buf' = [recorded |-> scope_buf'.recorded, wanted |-> scope_buf'.wanted,
                           rows |-> scope_buf'.rows, received |-> scope_buf'.received]
      BY <2>4 DEF ScopeTyped, got
    <3>3. ScopeTyped'
      <4>1. /\ scope_buf'.rows \in [Scope!Channels -> [Places -> Triples]]
            /\ scope_buf'.received \in [Scope!Channels -> SUBSET Nat]
            /\ scope_buf'.recorded \in Nat /\ scope_buf'.wanted \in Nat
        BY <2>7, <3>1, <3>2 DEF ScopeTyped
      <4> QED
        BY <1>1, <3>2, <4>1 DEF ScopeTyped
    <3> QED
      BY <3>2, <3>3 DEF got
  <2>9. ScopeStatus'
    BY <1>1, <2>8 DEF ScopeStatus
  <2>10. ScopeRows'
    <3> SUFFICES ASSUME NEW h \in Scope!Channels, NEW c \in scope_buf'.received[h],
                        NEW i \in Places, i \div 2 = c, i < scope_drive.pos
                 PROVE  scope_buf'.rows[h][i] = <<scope_drive.capture, h, i>>
      BY <1>1, <1>2, <1>5 DEF ScopeRows
    <3>1. CASE h # ch
      BY <2>8, <3>1 DEF ScopeRows, ScopeTyped
    <3>2. CASE h = ch
      <4>1. scope_buf'.rows[h] = row /\ (c = k \/ c \in scope_buf.received[ch])
        BY <2>8, <3>2 DEF ScopeTyped
      <4>2. CASE c = k
        BY <2>5, <3>2, <4>1, <4>2 DEF Scope!Sample
      <4>3. CASE c # k
        BY <3>2, <4>1, <4>3 DEF ScopeRows, row
      <4> QED
        BY <4>2, <4>3
    <3> QED
      BY <3>1, <3>2
  <2> QED
    BY <1>3, <2>8, <2>9, <2>10
<1> QED
  BY <1>1, <1>4, <1>5 DEF ScopeSent

\* A capture of any length, read back pair by pair, as a stream or both, over a bus that
\* drops replies, is whole and the last one started when the buffer says so (capture_start,
\* capture_reply, pump_streams, CaptureBuffer::store and missing).
THEOREM CaptureReadBack == Scope!Spec => []ReadBackIsWhole
<1>1. Scope!Init => ScopeInv
  BY ScopeInit
<1>2. ScopeInv /\ [Scope!Next]_(Scope!vars) => ScopeInv'
  <2> SUFFICES ASSUME ScopeInv, [Scope!Next]_(Scope!vars) PROVE ScopeInv'
    OBVIOUS
  <2>1. CASE UNCHANGED Scope!vars
    <3>1. ScopeSent' = ScopeSent /\ Scope!CapturePairs' = Scope!CapturePairs
      BY <2>1 DEF Scope!vars, ScopeSent, ScopeStatuses, ScopePairs, ScopeFull,
           Scope!CaptureReply, Scope!Sample, Scope!CapturePairs
    <3> QED
      BY <2>1, <3>1 DEF Scope!vars, ScopeInv, ScopeTyped, ScopeRecorder, ScopeStatus, ScopeWire,
         ScopeStream, ScopeRows, ScopeFull
  <2> QED
    BY <2>1, ScopeDriveKeeps, ScopeHostKeeps, ScopeDrainKeeps DEF Scope!Next
<1>3. ScopeInv => ReadBackIsWhole
  <2> SUFFICES ASSUME ScopeInv, Scope!Stopped, \A ch \in Scope!Channels : Scope!Missing(ch) = {},
                      NEW ch \in Scope!Channels, NEW i \in 0..(scope_buf.recorded - 1)
               PROVE  scope_buf.rows[ch][i] = <<scope_drive.capture, ch, i>>
    BY DEF ReadBackIsWhole, Scope!ReadBackIsWhole
  <2>1. scope_buf.recorded = scope_drive.pos
    BY StoppedIsFull
  <2>2. /\ i \in Nat /\ i < scope_drive.pos /\ i \in Places
        /\ (i \div 2) \in 0..(Scope!Chunks - 1)
    BY <2>1, ScopeAssumption, SMTT(40) DEF ScopeInv, ScopeTyped, ScopeRecorder, Places, Scope!Chunks,
       Scope!DivCeil2
  <2>3. (i \div 2) \in scope_buf.received[ch]
    BY <2>2 DEF Scope!Missing
  <2> QED
    BY <2>2, <2>3 DEF ScopeInv, ScopeRows
<1> QED
  BY <1>1, <1>2, <1>3, PTL DEF Scope!Spec

-----------------------------------------------------------------------------
(* The e-stop's debouncer. *)

\* The last reads, with one more: the window fills up, then slides.
LEMMA RecentSlides ==
  ASSUME NEW S, NEW q \in Seq(S), NEW x \in S, Len(q) <= BoxReads
  PROVE  LET r == Box!Recent(q, x)
             n == Len(q)
         IN /\ r \in Seq(S)
            /\ n < BoxReads => Len(r) = n + 1 /\ \A i \in 1..n : r[i] = q[i]
            /\ n = BoxReads => Len(r) = n /\ \A i \in 1..(n - 1) : r[i] = q[i + 1]
            /\ r[Len(r)] = x /\ Len(r) \in Nat \ {0}
<1> DEFINE n == Len(q)
           a == Append(q, x)
           r == Box!Recent(q, x)
           m == IF n >= BoxReads THEN 2 ELSE 1
<1>0. BoxReads \in Nat \ {0} /\ n \in Nat /\ n <= BoxReads
  BY BoxAssumption, LenProperties
<1>1. /\ a \in Seq(S) /\ Len(a) = n + 1 /\ \A i \in 1..n : a[i] = q[i]
      /\ a[n + 1] = x
  BY AppendProperties
<1>2. r = SubSeq(a, m, n + 1)
  BY DEF Box!Recent
<1> HIDE DEF n, a, r
<1>3. /\ m \in Int /\ n + 1 \in Int /\ \A i \in m..(n + 1) : a[i] \in S
  <2>1. m \in 1..2 /\ \A i \in m..(n + 1) : i \in 1..Len(a)
    BY <1>0, <1>1
  <2> QED
    BY <1>0, <1>1, <2>1, ElementOfSeq
<1>4. /\ r \in Seq(S) /\ Len(r) = (IF m <= n + 1 THEN (n + 1) - m + 1 ELSE 0)
      /\ \A i \in 1..((n + 1) - m + 1) : r[i] = a[m + i - 1]
  <2> HIDE DEF m
  <2> QED
    BY <1>2, <1>3, SubSeqProperties
<1>5. CASE n < BoxReads
  <2>1. m = 1 /\ (n + 1) - 1 + 1 = n + 1 /\ \A i \in 1..(n + 1) : 1 + i - 1 = i
    BY <1>0, <1>5
  <2> HIDE DEF m
  <2>2. Len(r) = n + 1 /\ \A i \in 1..(n + 1) : r[i] = a[i]
    BY <1>0, <1>4, <2>1
  <2> QED
    BY <1>0, <1>1, <1>4, <1>5, <2>2 DEF n, r
<1>6. CASE n = BoxReads
  <2>1. m = 2 /\ (n + 1) - 2 + 1 = n /\ \A i \in 1..n : 2 + i - 1 = i + 1
    BY <1>0, <1>6
  <2> HIDE DEF m
  <2>2. Len(r) = n /\ \A i \in 1..n : r[i] = a[i + 1]
    BY <1>0, <1>4, <1>6, <2>1
  <2>3. \A i \in 1..(n - 1) : i \in 1..n /\ i + 1 \in 1..n
    BY <1>0
  <2>4. n \in 1..n
    BY <1>0, <1>6
  <2> QED
    BY <1>0, <1>1, <1>4, <1>6, <2>2, <2>3, <2>4 DEF n, r
<1> QED
  BY <1>0, <1>5, <1>6

Stable == box_estop.stable[1]

BoxTyped ==
  /\ box_line \in [estop : BOOLEAN, input : BOOLEAN]
  /\ box_estop \in [stable : {<<>>} \cup {<<b>> : b \in BOOLEAN}, candidate : BOOLEAN,
                    streak : 0..BoxReads]
  /\ box_estops \in Seq(BOOLEAN) /\ Len(box_estops) <= BoxReads
  /\ box_hw_estop \in BOOLEAN
  /\ box_estop.stable = <<>> <=> box_estops = <<>>

\* What the debouncer counted, told by the window of the last reads: the streak ends it,
\* the read before the streak broke it, and a full streak decides the level.
BoxStreak ==
  LET n == Len(box_estops)
      s == box_estop.streak
  IN box_estops # <<>> =>
       /\ s \in 1..BoxReads
       /\ \A i \in 1..n : i > n - s => box_estops[i] = box_estop.candidate
       /\ s < BoxReads => s < n /\ box_estops[n - s] # box_estop.candidate
       /\ s = BoxReads => Stable = box_estop.candidate
       /\ box_hw_estop = ~Stable

BoxInv == BoxTyped /\ BoxStreak

\* No read has been taken at boot.
LEMMA BoxInit == Box!Init => BoxInv
<1> SUFFICES ASSUME Box!Init PROVE BoxInv
  OBVIOUS
<1>1. box_estops = <<>> /\ box_estops \in Seq(BOOLEAN) /\ Len(box_estops) = 0
  BY EmptySeq DEF Box!Init
<1>2. BoxTyped
  <2>1. box_estop = [stable |-> <<>>, candidate |-> FALSE, streak |-> 0]
    BY DEF Box!Init, Box!Unseeded
  <2>2. box_estop \in [stable : {<<>>} \cup {<<b>> : b \in BOOLEAN}, candidate : BOOLEAN,
                       streak : 0..BoxReads]
    BY <2>1, BoxAssumption
  <2>3. box_estop.stable = <<>>
    BY <2>1
  <2>3a. box_hw_estop = FALSE /\ box_line \in [estop : BOOLEAN, input : BOOLEAN]
    BY Zenon DEF Box!Init
  <2>4. Len(box_estops) <= BoxReads
    BY <1>1, BoxAssumption
  <2> QED
    BY <1>1, <2>2, <2>3, <2>3a, <2>4 DEF BoxTyped
<1> QED
  BY <1>1, <1>2 DEF BoxInv, BoxStreak

\* A read is counted into the streak; the level follows only a full one.
LEMMA BoxReadKeeps ==
  ASSUME BoxInv, NEW eok \in BOOLEAN, NEW iok \in BOOLEAN, Box!Reading(eok, iok),
         UNCHANGED box_line
  PROVE  /\ BoxInv'
         /\ box_hw_estop' # box_hw_estop /\ box_estops # <<>> =>
              /\ Len(box_estops') = BoxReads
              /\ \A i \in 1..BoxReads : box_estops'[i] = ~box_hw_estop'
<1> DEFINE raw == Box!ReadEstop(eok)
           n == Len(box_estops)
           q == box_estops
           r == box_estops'
           s == box_estop.streak
           c == box_estop.candidate
           t == box_estop'.streak
<1>1. raw \in BOOLEAN
  BY DEF Box!ReadEstop, BoxInv, BoxTyped
<1>2. box_estop' = Box!Update(box_estop, raw) /\ r = Box!Recent(q, raw)
  BY DEF Box!Reading
<1>3. box_hw_estop' = ~(box_estop'.stable[1])
  BY DEF Box!Reading
<1> HIDE DEF raw
<1>4. q \in Seq(BOOLEAN) /\ n <= BoxReads /\ n \in Nat /\ BoxReads \in Nat \ {0}
      /\ s \in 0..BoxReads /\ c \in BOOLEAN
  BY BoxAssumption, LenProperties DEF BoxInv, BoxTyped
<1>5. /\ r \in Seq(BOOLEAN)
      /\ n < BoxReads => Len(r) = n + 1 /\ \A i \in 1..n : r[i] = q[i]
      /\ n = BoxReads => Len(r) = n /\ \A i \in 1..(n - 1) : r[i] = q[i + 1]
      /\ r[Len(r)] = raw /\ Len(r) \in Nat \ {0}
  <2> DEFINE B == BOOLEAN
  <2>1. q \in Seq(B) /\ raw \in B
    BY <1>1, <1>4
  <2> HIDE DEF B, q, n
  <2>2. LET w == Box!Recent(q, raw)
            k == Len(q)
        IN /\ w \in Seq(B)
           /\ k < BoxReads => Len(w) = k + 1 /\ \A i \in 1..k : w[i] = q[i]
           /\ k = BoxReads => Len(w) = k /\ \A i \in 1..(k - 1) : w[i] = q[i + 1]
           /\ w[Len(w)] = raw /\ Len(w) \in Nat \ {0}
    BY <1>4, <2>1, RecentSlides DEF q, n
  <2> QED
    BY <1>2, <2>2 DEF B, n, q
<1>6. Len(r) <= BoxReads /\ r # <<>>
  BY <1>4, <1>5, EmptySeq
<1>7. CASE q = <<>>
  <2>1. box_estop' = [stable |-> <<raw>>, candidate |-> raw, streak |-> BoxReads]
    BY <1>2, <1>7 DEF Box!Update, BoxInv, BoxTyped
  <2>2. n = 0 /\ Len(r) = 1 /\ r[1] = raw
    BY <1>4, <1>5, <1>7, EmptySeq
  <2>3. BoxTyped'
    BY <1>1, <1>3, <1>4, <1>5, <1>6, <2>1 DEF BoxInv, BoxTyped
  <2>4. BoxStreak'
    BY <1>3, <1>4, <2>1, <2>2 DEF BoxStreak, Stable
  <2> QED
    BY <1>7, <2>3, <2>4 DEF BoxInv
<1>8. CASE q # <<>>
  <2>0. n \in 1..BoxReads
    BY <1>4, <1>8, EmptySeq
  <2>1. /\ s \in 1..BoxReads
        /\ \A i \in 1..n : i > n - s => q[i] = c
        /\ s < BoxReads => s < n /\ q[n - s] # c
        /\ s = BoxReads => Stable = c
        /\ box_hw_estop = ~Stable
    BY <1>8 DEF BoxInv, BoxStreak
  <2>2. box_estop.stable # <<>> /\ box_estop.stable = <<Stable>> /\ Stable \in BOOLEAN
    BY <1>8 DEF BoxInv, BoxTyped, Stable
  <2>3. /\ box_estop'.candidate = raw /\ t = Box!Streak(box_estop, raw)
        /\ box_estop'.stable = IF raw # Stable /\ t >= BoxReads THEN <<raw>> ELSE <<Stable>>
        /\ box_estop' = [stable |-> box_estop'.stable, candidate |-> box_estop'.candidate,
                         streak |-> box_estop'.streak]
    BY <1>2, <2>2 DEF Box!Update, Stable
  <2>4. t = IF raw # c THEN 1 ELSE IF s < BoxReads THEN s + 1 ELSE BoxReads
    BY <2>3 DEF Box!Streak
  <2>5. t \in 1..BoxReads
    BY <1>4, <2>1, <2>4
  <2>6. BoxTyped'
    <3>1. box_estop'.stable \in {<<>>} \cup {<<b>> : b \in BOOLEAN} /\ box_estop'.stable # <<>>
      BY <1>1, <2>2, <2>3
    <3>2. box_estop' \in [stable : {<<>>} \cup {<<b>> : b \in BOOLEAN}, candidate : BOOLEAN,
                          streak : 0..BoxReads]
      BY <1>1, <1>4, <2>3, <2>5, <3>1
    <3> QED
      BY <1>3, <1>4, <1>5, <1>6, <3>1, <3>2 DEF BoxInv, BoxTyped
  <2> HIDE DEF s, c, t, n
  <2>7. \A i \in 1..Len(r) : i > Len(r) - t => r[i] = raw
    <3> SUFFICES ASSUME NEW i \in 1..Len(r), i > Len(r) - t, i # Len(r) PROVE r[i] = raw
      BY <1>5
    <3>1. raw = c /\ t > 1
      BY <1>5, <2>4, <2>5
    <3>2. CASE n < BoxReads
      <4>1. i \in 1..n /\ i > n - s
        BY <1>4, <1>5, <2>0, <2>1, <2>4, <3>1, <3>2
      <4> QED
        BY <1>5, <2>1, <3>1, <3>2, <4>1
    <3>3. CASE n = BoxReads
      <4>1. i \in 1..(n - 1) /\ i + 1 \in 1..n /\ i + 1 > n - s
        BY <1>4, <1>5, <2>0, <2>1, <2>4, <3>1, <3>3
      <4> QED
        BY <1>5, <2>1, <3>1, <3>3, <4>1
    <3> QED
      BY <1>4, <2>0, <3>2, <3>3
  <2>8. t < BoxReads => t < Len(r) /\ r[Len(r) - t] # raw
    <3> SUFFICES ASSUME t < BoxReads PROVE t < Len(r) /\ r[Len(r) - t] # raw
      OBVIOUS
    <3>1. CASE raw # c
      <4>1. t = 1 /\ q[n] = c
        BY <1>4, <2>0, <2>1, <2>4, <3>1
      <4>2. CASE n < BoxReads
        BY <1>5, <2>0, <3>1, <4>1, <4>2
      <4>3. CASE n = BoxReads
        <5>1. Len(r) = n /\ n - 1 \in 1..(n - 1) /\ (n - 1) + 1 = n
          BY <1>4, <1>5, <4>1, <4>3
        <5> QED
          BY <1>5, <3>1, <4>1, <4>3, <5>1
      <4> QED
        BY <1>4, <2>0, <4>2, <4>3
    <3>2. CASE raw = c
      <4>1. t = s + 1 /\ s < n /\ q[n - s] # c /\ s < BoxReads
        BY <1>4, <2>1, <2>4, <3>2
      <4>2. CASE n < BoxReads
        <5>1. Len(r) - t = n - s /\ n - s \in 1..n /\ t < Len(r)
          BY <1>4, <1>5, <2>0, <2>1, <4>1, <4>2
        <5> QED
          BY <1>5, <3>2, <4>1, <4>2, <5>1
      <4>3. CASE n = BoxReads
        <5>1. Len(r) = n /\ n - t \in 1..(n - 1) /\ (n - t) + 1 = n - s /\ t < n
          BY <1>4, <1>5, <2>0, <2>1, <4>1, <4>3
        <5> QED
          BY <1>5, <3>2, <4>1, <4>3, <5>1
      <4> QED
        BY <1>4, <2>0, <4>2, <4>3
    <3> QED
      BY <3>1, <3>2
  <2>9. t = BoxReads => box_estop'.stable[1] = raw
    BY <1>4, <2>3
  <2>10. BoxStreak'
    BY <1>3, <2>3, <2>5, <2>7, <2>8, <2>9 DEF BoxStreak, Stable, t
  <2>11. ASSUME box_hw_estop' # box_hw_estop
         PROVE  Len(r) = BoxReads /\ \A i \in 1..BoxReads : r[i] = ~box_hw_estop'
    <3>1. raw # Stable /\ t >= BoxReads /\ box_estop'.stable[1] = raw
      BY <1>3, <2>1, <2>3, <2>11
    <3>2. t = BoxReads
      BY <1>4, <2>5, <3>1
    <3>3. Len(r) = BoxReads
      <4>1. CASE raw # c
        BY <1>4, <1>5, <1>6, <2>4, <3>2, <4>1
      <4>2. CASE raw = c
        <5>1. s < BoxReads
          BY <1>4, <2>1, <3>1, <4>2
        <5>2. n = BoxReads
          BY <1>4, <2>0, <2>1, <2>4, <3>2, <4>2, <5>1
        <5> QED
          BY <1>5, <5>2
      <4> QED
        BY <4>1, <4>2
    <3>4. \A i \in 1..BoxReads : r[i] = raw
      BY <1>4, <2>7, <3>2, <3>3
    <3>5. raw = ~box_hw_estop'
      BY <1>1, <1>3, <3>1
    <3> QED
      BY <3>3, <3>4, <3>5
  <2> QED
    BY <2>6, <2>10, <2>11 DEF BoxInv
<1> QED
  BY <1>7, <1>8

\* The level a full window agrees on is the one published.
LEMMA FullWindowDecides ==
  ASSUME BoxInv, Len(box_estops) = BoxReads, NEW b \in BOOLEAN,
         \A i \in 1..BoxReads : box_estops[i] = b
  PROVE  box_hw_estop = ~b
<1>1. BoxReads \in Nat \ {0} /\ box_estops # <<>>
  BY BoxAssumption, EmptySeq
<1>2. /\ box_estop.streak \in 1..BoxReads
      /\ \A i \in 1..BoxReads : i > BoxReads - box_estop.streak => box_estops[i] = box_estop.candidate
      /\ box_estop.streak < BoxReads => box_estops[BoxReads - box_estop.streak] # box_estop.candidate
      /\ box_estop.streak = BoxReads => Stable = box_estop.candidate
      /\ box_hw_estop = ~Stable
  BY <1>1 DEF BoxInv, BoxStreak
<1>3. box_estop.candidate = b
  BY <1>1, <1>2
<1>4. ~(box_estop.streak < BoxReads)
  BY <1>1, <1>2, <1>3
<1>5. Stable = b
  BY <1>1, <1>2, <1>3, <1>4
<1> QED
  BY <1>2, <1>5

\* Whatever the wire does and whichever reads fail, for any DEBOUNCE_READS: a button held
\* down or a line that cannot be read trips the e-stop within that many reads, and only as
\* many reads that agree change it (Debouncer::update, EstopMonitor::pressed).
THEOREM PressIsAlwaysSeen == Box!Spec => PressIsSeen
<1>1. Box!Init => BoxInv
  BY BoxInit
<1>2. BoxInv /\ [Box!Next]_(Box!vars) =>
        BoxInv' /\ (Box!Debounced \/ UNCHANGED Box!vars)
  <2> SUFFICES ASSUME BoxInv, [Box!Next]_(Box!vars)
               PROVE  BoxInv' /\ (Box!Debounced \/ UNCHANGED Box!vars)
    OBVIOUS
  <2>1. CASE UNCHANGED Box!vars
    BY <2>1 DEF Box!vars, BoxInv, BoxTyped, BoxStreak, Stable
  <2>2. ASSUME BoxInv',
               box_hw_estop' # box_hw_estop /\ box_estops # <<>> =>
                 /\ Len(box_estops') = BoxReads
                 /\ \A i \in 1..BoxReads : box_estops'[i] = ~box_hw_estop'
        PROVE  BoxInv' /\ Box!Debounced
    <3>1. DOMAIN box_estops' = 1..Len(box_estops')
      BY <2>2, LenProperties DEF BoxInv, BoxTyped
    <3>2. \A b \in BOOLEAN : Len(box_estops') = BoxReads /\ (\A i \in 1..BoxReads : box_estops'[i] = b)
            => box_hw_estop' = ~b
      <4> TAKE b \in BOOLEAN
      <4>1. BoxInv' /\ (Len(box_estops) = BoxReads)' /\ (\A i \in 1..BoxReads : box_estops[i] = b)' => (box_hw_estop = ~b)'
        BY FullWindowDecides, PTL
      <4> QED
        BY <2>2, <4>1
    <3> QED
      BY <2>2, <3>1, <3>2 DEF Box!Debounced, Box!All
  <2>3. CASE Box!Tick
    <3>1. PICK eok \in BOOLEAN, iok \in BOOLEAN : Box!Reading(eok, iok)
      BY <2>3 DEF Box!Tick
    <3>2. UNCHANGED box_line
      BY <2>3 DEF Box!Tick
    <3> QED
      BY <2>2, <3>1, <3>2, BoxReadKeeps
  <2>4. CASE Box!Open \/ Box!SetIoOutput
    <3>1. UNCHANGED <<box_line, box_estop, box_estops, box_hw_estop>>
      BY <2>4 DEF Box!Open, Box!SetIoOutput
    <3>2. BoxInv'
      BY <3>1 DEF BoxInv, BoxTyped, BoxStreak, Stable
    <3> QED
      BY <2>2, <3>1, <3>2
  <2>5. CASE Box!Wire
    <3>1. /\ UNCHANGED <<box_estop, box_estops, box_hw_estop>>
          /\ box_line' \in [estop : BOOLEAN, input : BOOLEAN]
      BY <2>5 DEF Box!Wire
    <3>2. BoxInv'
      BY <3>1 DEF BoxInv, BoxTyped, BoxStreak, Stable
    <3> QED
      BY <2>2, <3>1, <3>2
  <2> QED
    BY <2>1, <2>3, <2>4, <2>5 DEF Box!Next
<1>3. BoxInv /\ [Box!Next]_(Box!vars) => [part = "box" => Box!Debounced]_boxVars
  BY <1>2 DEF Box!vars, boxVars
<1> QED
  BY <1>1, <1>2, <1>3, PTL DEF Box!Spec, PressIsSeen

-----------------------------------------------------------------------------
(* The telemetry polls. *)

\* The least element of a nonempty set of naturals.
LEMMA LeastOf ==
  ASSUME NEW S, S \subseteq Nat, S # {}
  PROVE  \E m \in S : \A k \in S : m <= k
<1> DEFINE R == OpToRel(<, Nat)
<1>1. PICK m \in S : \A k \in S : <<k, m>> \notin R
  <2>1. IsWellFoundedOn(R, Nat)
    BY NatLessThanWellFounded
  <2> HIDE DEF R
  <2> QED
    BY <2>1, WFMin
<1>2. \A k \in S : ~(k < m)
  BY <1>1 DEF OpToRel
<1> QED
  BY <1>2

\* Cardinality is the same in the module of the polls as here.
LEMMA PollCardinality ==
  ASSUME NEW S
  PROVE  Poll!Cardinality(S) = Cardinality(S)
BY DEF Poll!Cardinality, Cardinality

\* A target's requests take one place of the cycle, or three.
LEMMA PlaceAdvances ==
  ASSUME NEW legacy \in SUBSET Poll!T, NEW t \in Poll!T
  PROVE  /\ Poll!Place(legacy, t) \in Nat /\ Poll!Place(legacy, 1) = 0
         /\ Poll!Place(legacy, t + 1) =
              Poll!Place(legacy, t) + (IF t \in legacy THEN 3 ELSE 1)
<1> DEFINE B(k) == {u \in legacy : u < k}
<1>0. t \in Nat \ {0} /\ \A u \in legacy : u \in Nat \ {0}
  BY PollAssumption DEF Poll!T
<1>1. IsFiniteSet(legacy)
  <2>1. IsFiniteSet(1..PollTargets)
    BY PollAssumption, FS_Interval
  <2>2. legacy \in SUBSET (1..PollTargets)
    BY DEF Poll!T
  <2> QED
    BY <2>1, <2>2, FS_Subset
<1>2. IsFiniteSet(B(t)) /\ IsFiniteSet(B(t + 1))
  <2>1. B(t) \subseteq legacy /\ B(t + 1) \subseteq legacy
    OBVIOUS
  <2> HIDE DEF B
  <2> QED
    BY <1>1, <2>1, FS_Subset
<1>3. B(1) = {}
  <2>1. \A u \in legacy : ~(u < 1)
    BY <1>0
  <2> QED
    BY <2>1
<1>3a. /\ Poll!Place(legacy, t) = (t - 1) + 2 * Cardinality(B(t))
      /\ Poll!Place(legacy, t + 1) = ((t + 1) - 1) + 2 * Cardinality(B(t + 1))
      /\ Poll!Place(legacy, 1) = (1 - 1) + 2 * Cardinality(B(1))
  <2>1. \A k : Poll!Place(legacy, k) = (k - 1) + 2 * Poll!Cardinality(B(k))
    BY Zenon DEF Poll!Place
  <2> HIDE DEF B
  <2> QED
    BY <2>1, PollCardinality
<1>4. CASE t \in legacy
  <2>1. B(t + 1) = B(t) \cup {t} /\ t \notin B(t)
    <3>1. \A u \in legacy : u < t + 1 <=> u < t \/ u = t
      BY <1>0
    <3>2. ~(t < t)
      BY <1>0
    <3> QED
      BY <1>4, <3>1, <3>2
  <2> HIDE DEF B
  <2>2. Cardinality(B(t + 1)) = Cardinality(B(t)) + 1 /\ Cardinality(B(t)) \in Nat
    BY <1>2, <2>1, FS_AddElement, FS_CardinalityType
  <2>3. Cardinality(B(1)) = 0
    BY <1>3, FS_EmptySet
  <2> QED
    BY <1>0, <1>4, <2>2, <2>3, <1>3a
<1>5. CASE t \notin legacy
  <2>1. B(t + 1) = B(t)
    <3>1. \A u \in legacy : u < t + 1 <=> u < t
      BY <1>0, <1>5
    <3> QED
      BY <3>1
  <2> HIDE DEF B
  <2>2. Cardinality(B(t + 1)) = Cardinality(B(t)) /\ Cardinality(B(t)) \in Nat
    BY <1>2, <2>1, FS_CardinalityType
  <2>3. Cardinality(B(1)) = 0
    BY <1>3, FS_EmptySet
  <2> QED
    BY <1>0, <1>5, <1>3a, <2>2, <2>3
<1> QED
  BY <1>4, <1>5

\* Every place of the cycle asks one target: the combined way one that is polled so, the
\* vendor's way one that is not.
LEMMA CycleAsks ==
  ASSUME NEW legacy \in SUBSET Poll!T,
         NEW k \in 0..(Poll!Place(legacy, PollTargets + 1) - 1)
  PROVE  LET r == Poll!Cycle(legacy)[k]
         IN /\ r.target \in Poll!T
            /\ r.kind = "telemetry" => r.target \notin legacy
<1> DEFINE P(u) == Poll!Place(legacy, u)
           S == {u \in 1..(PollTargets + 1) : P(u) > k}
<1>0. PollTargets \in Nat \ {0}
  BY PollAssumption
<1>1. \A t \in Poll!T : /\ P(t) \in Nat /\ P(1) = 0
                        /\ P(t + 1) = P(t) + (IF t \in legacy THEN 3 ELSE 1)
  BY PlaceAdvances
<1>2. P(PollTargets + 1) \in Nat /\ k \in Nat /\ k < P(PollTargets + 1)
  <2>1. PollTargets \in Poll!T
    BY <1>0 DEF Poll!T
  <2>2. P(PollTargets + 1) \in Nat
    BY <1>1, <2>1
  <2> HIDE DEF P
  <2>3. k \in 0..(P(PollTargets + 1) - 1)
    BY DEF P
  <2> QED
    BY <2>2, <2>3
<1> HIDE DEF P
<1>3. S \subseteq Nat /\ S # {}
  BY <1>0, <1>2
<1>4. PICK m \in S : \A u \in S : m <= u
  <2> HIDE DEF S
  <2> QED
    BY <1>3, LeastOf
<1>5. m - 1 \in Poll!T /\ P(m - 1) <= k /\ k < P((m - 1) + 1)
  <2>1. m \in 1..(PollTargets + 1) /\ P(m) > k /\ m # 1
    <3>1. 1 \in Poll!T
      BY <1>0 DEF Poll!T
    <3> QED
      BY <1>1, <1>2, <1>4, <3>1
  <2>2. m - 1 \in 1..PollTargets /\ (m - 1) + 1 = m /\ m - 1 \in 1..(PollTargets + 1)
    BY <1>0, <2>1
  <2>3. m - 1 \in Poll!T /\ P(m - 1) \in Nat
    BY <1>1, <2>2 DEF Poll!T
  <2>4. ~(P(m - 1) > k)
    <3> SUFFICES ASSUME P(m - 1) > k PROVE FALSE
      OBVIOUS
    <3>1. m - 1 \in S
      BY <2>2
    <3>2. m <= m - 1
      BY <1>4, <3>1
    <3> QED
      BY <2>1, <3>2, <1>0
  <2> QED
    BY <1>2, <2>1, <2>2, <2>3, <2>4
<1> DEFINE t == CHOOSE u \in Poll!T : P(u) <= k /\ k < P(u + 1)
<1>6. t \in Poll!T /\ P(t) <= k /\ k < P(t + 1)
  BY <1>5
<1>7. Poll!Cycle(legacy)[k] =
        [target |-> t,
         kind   |-> IF t \notin legacy THEN "telemetry"
                    ELSE <<"temperature", "voltage", "errors">>[k - P(t) + 1]]
  BY DEF Poll!Cycle, P
<1> HIDE DEF t
<1>8. CASE t \in legacy
  <2>1. k - P(t) + 1 \in 1..3
    BY <1>1, <1>2, <1>6, <1>8
  <2>2. k - P(t) + 1 = 1 \/ k - P(t) + 1 = 2 \/ k - P(t) + 1 = 3
    BY <2>1
  <2> QED
    BY <1>6, <1>7, <1>8, <2>2
<1>9. CASE t \notin legacy
  BY <1>6, <1>7, <1>9
<1> QED
  BY <1>8, <1>9

PollTyped ==
  /\ poll_poll \in [legacy : SUBSET Poll!T, cursor : Nat, slot : Nat, sweep : 0..PollTargets,
                    override : Nat]
  /\ poll_missed \in [Poll!T -> 0..PollFallback]
  /\ poll_blind \in [Poll!T -> Nat]

\* A target polled the combined way has been blind no longer than its polls went
\* unanswered; one polled the vendor's way, no longer than the fallback took.
PollBlind ==
  \A t \in Poll!T :
    /\ poll_blind[t] <= PollFallback + 1
    /\ t \notin poll_poll.legacy => poll_blind[t] <= poll_missed[t]

PollInv == PollTyped /\ PollBlind

\* A request of the schedule asks one of the targets, the combined way only one on the
\* combined poll.
LEMMA ScheduledAsks ==
  ASSUME PollInv
  PROVE  LET r == Poll!Scheduled(poll_poll)
         IN /\ r.target \in Poll!T
            /\ r.kind = "telemetry" => r.target \notin poll_poll.legacy
<1>0. PollTargets \in Nat \ {0}
  BY PollAssumption
<1>1. CASE poll_poll.sweep > 0
  BY <1>0, <1>1 DEF Poll!Scheduled, Poll!T, PollInv, PollTyped
<1>2. CASE ~(poll_poll.sweep > 0)
  <2> DEFINE n == Poll!Place(poll_poll.legacy, PollTargets + 1)
             k == poll_poll.cursor % n
             g == poll_poll.legacy
  <2>1. Poll!Scheduled(poll_poll) = Poll!Cycle(g)[k]
    BY <1>2 DEF Poll!Scheduled
  <2>2. g \in SUBSET Poll!T /\ poll_poll.cursor \in Nat /\ PollTargets \in Poll!T
    BY <1>0 DEF PollInv, PollTyped, Poll!T
  <2>3. n \in Nat \ {0}
    <3>1. /\ Poll!Place(g, PollTargets) \in Nat
          /\ Poll!Place(g, PollTargets + 1) =
               Poll!Place(g, PollTargets) + (IF PollTargets \in g THEN 3 ELSE 1)
      BY <2>2, PlaceAdvances
    <3> HIDE DEF g
    <3>2. n = Poll!Place(g, PollTargets + 1)
      BY DEF g
    <3> HIDE DEF n
    <3> QED
      BY <3>1, <3>2
  <2>4. k \in 0..(n - 1)
    <3> HIDE DEF n
    <3> QED
      BY <2>2, <2>3
  <2>5. k \in 0..(Poll!Place(g, PollTargets + 1) - 1)
    BY <2>4
  <2> HIDE DEF k, g, n
  <2>6. LET r == Poll!Cycle(g)[k]
        IN r.target \in Poll!T /\ (r.kind = "telemetry" => r.target \notin g)
    BY <2>2, <2>5, CycleAsks
  <2> QED
    BY <2>1, <2>6 DEF g
<1> QED
  BY <1>1, <1>2

\* The boot probe leaves the targets it could not reach on the vendor's polls.
LEMMA PollInit == Poll!Init => PollInv
<1> SUFFICES ASSUME Poll!Init PROVE PollInv
  OBVIOUS
<1>1. PICK answered \in SUBSET (Poll!T \ poll_vendor) : poll_poll = Poll!ProbeTelemetry(answered)
  BY DEF Poll!Init
<1>2. poll_poll = [legacy |-> Poll!T \ answered, cursor |-> 0, slot |-> 0, sweep |-> 0,
                   override |-> 0]
  BY <1>1 DEF Poll!ProbeTelemetry, Poll!PollConfigured
<1>3. PollTyped
  BY <1>2, PollAssumption DEF Poll!Init, PollTyped
<1> QED
  BY <1>3, PollAssumption DEF Poll!Init, PollInv, PollBlind

\* A slot of the round robin keeps the invariant: the poll that blinds a target the last
\* time allowed moves it to the vendor's.
LEMMA RoundRobinKeeps ==
  ASSUME PollInv, Poll!RoundRobin
  PROVE  PollInv'
<1> DEFINE r == Poll!Scheduled(poll_poll)
           g == r.target
           combined == r.kind = "telemetry"
           late == combined /\ poll_missed[g] + 1 > PollFallback
           a == Poll!Advanced(poll_poll)
<1>1. /\ poll_poll' = IF late THEN Poll!SetLegacy(a, g, TRUE) ELSE a
      /\ poll_missed' = [poll_missed EXCEPT ![g] =
                           IF late THEN 0 ELSE IF combined THEN @ + 1 ELSE @]
      /\ poll_blind' = [poll_blind EXCEPT ![g] =
                          CASE r.kind = "errors" -> 0
                            [] combined /\ g \in poll_vendor -> @ + 1
                            [] OTHER -> @]
  BY DEF Poll!RoundRobin
<1>2. g \in Poll!T /\ (combined => g \notin poll_poll.legacy)
  BY ScheduledAsks
<1>3. /\ a \in [legacy : SUBSET Poll!T, cursor : Nat, slot : Nat, sweep : 0..PollTargets,
                override : Nat]
      /\ a.legacy = poll_poll.legacy
  <2> DEFINE s == (poll_poll.slot + 1) % PollSweep
             c == (poll_poll.cursor + 1) % PollWrap
             w == poll_poll.sweep - 1
  <2>1. s \in Nat /\ c \in Nat /\ PollTargets \in Nat
    BY PollAssumption DEF PollInv, PollTyped
  <2>2. poll_poll.sweep > 0 => w \in 0..PollTargets
    BY PollAssumption DEF PollInv, PollTyped
  <2>3. a = IF poll_poll.sweep > 0
            THEN [poll_poll EXCEPT !.slot = s, !.sweep = w]
            ELSE [poll_poll EXCEPT !.slot = s,
                                   !.sweep = IF s = 0 THEN PollTargets ELSE poll_poll.sweep,
                                   !.cursor = c]
    BY DEF Poll!Advanced
  <2> HIDE DEF s, c, w, a
  <2>4. CASE poll_poll.sweep > 0
    BY <2>1, <2>2, <2>3, <2>4 DEF PollInv, PollTyped
  <2>5. CASE ~(poll_poll.sweep > 0)
    <3> DEFINE v == IF s = 0 THEN PollTargets ELSE poll_poll.sweep
    <3>1. v \in 0..PollTargets
      BY <2>1 DEF PollInv, PollTyped
    <3>2. a = [poll_poll EXCEPT !.slot = s, !.sweep = v, !.cursor = c]
      BY <2>3, <2>5
    <3> HIDE DEF v
    <3> QED
      BY <2>1, <3>1, <3>2 DEF PollInv, PollTyped
  <2> QED
    BY <2>4, <2>5
<1> HIDE DEF a, r
<1>4. /\ poll_poll' \in [legacy : SUBSET Poll!T, cursor : Nat, slot : Nat, sweep : 0..PollTargets,
                         override : Nat]
      /\ poll_poll'.legacy = IF late THEN poll_poll.legacy \cup {g} ELSE poll_poll.legacy
  BY <1>1, <1>2, <1>3 DEF Poll!SetLegacy
<1>5. /\ poll_missed[g] \in 0..PollFallback /\ poll_blind[g] \in Nat /\ PollFallback \in Nat
      /\ poll_blind[g] <= PollFallback + 1
      /\ combined => poll_blind[g] <= poll_missed[g]
  BY <1>2, PollAssumption DEF PollInv, PollTyped, PollBlind
<1> DEFINE b == IF r.kind = "errors" THEN 0
                ELSE IF combined /\ g \in poll_vendor THEN poll_blind[g] + 1
                ELSE poll_blind[g]
           m == IF late THEN 0 ELSE IF combined THEN poll_missed[g] + 1 ELSE poll_missed[g]
<1>6. poll_missed' = [poll_missed EXCEPT ![g] = m] /\ poll_blind' = [poll_blind EXCEPT ![g] = b]
  <2>1. ~(r.kind = "errors" /\ combined)
    OBVIOUS
  <2> QED
    BY <1>1, <2>1
<1>7. /\ m \in 0..PollFallback /\ b \in Nat /\ b <= PollFallback + 1
      /\ ~late /\ combined => b <= m
      /\ ~combined => b <= poll_blind[g] /\ m = poll_missed[g]
  BY <1>5
<1> HIDE DEF b, m
<1>8. PollTyped'
  BY <1>2, <1>4, <1>6, <1>7 DEF PollInv, PollTyped
<1>9. PollBlind'
  <2> SUFFICES ASSUME NEW t \in Poll!T
               PROVE  /\ poll_blind'[t] <= PollFallback + 1
                      /\ t \notin poll_poll'.legacy => poll_blind'[t] <= poll_missed'[t]
    BY DEF PollBlind
  <2>1. CASE t # g
    <3>1. poll_blind'[t] = poll_blind[t] /\ poll_missed'[t] = poll_missed[t]
          /\ (t \in poll_poll'.legacy <=> t \in poll_poll.legacy)
      BY <1>4, <1>6, <2>1 DEF PollInv, PollTyped
    <3> QED
      BY <3>1 DEF PollInv, PollBlind
  <2>2. CASE t = g
    <3>1. poll_blind'[t] = b /\ poll_missed'[t] = m
      BY <1>2, <1>6, <2>2 DEF PollInv, PollTyped
    <3>2. t \notin poll_poll'.legacy => ~late /\ t \notin poll_poll.legacy
      BY <1>4, <2>2
    <3>3. t \notin poll_poll.legacy => poll_blind[g] <= poll_missed[g]
      BY <2>2 DEF PollInv, PollBlind
    <3> QED
      BY <1>5, <1>7, <3>1, <3>2, <3>3
  <2> QED
    BY <2>1, <2>2
<1> QED
  BY <1>8, <1>9 DEF PollInv

\* A frame of a drive keeps the invariant: the edge that puts it back on the combined poll
\* starts its count over.
LEMMA PollFrameKeeps ==
  ASSUME PollInv, NEW t \in Poll!T, NEW edge \in BOOLEAN, Poll!Frame(t, edge)
  PROVE  PollInv'
<1>1. PICK combined \in BOOLEAN :
        /\ Poll!Applied(t, combined, edge)
        /\ poll_blind' = [poll_blind EXCEPT ![t] = IF combined \/ edge THEN 0 ELSE @]
  BY DEF Poll!Frame
<1>2. /\ poll_poll' = IF edge THEN Poll!SetLegacy(poll_poll, t, FALSE) ELSE poll_poll
      /\ poll_missed' = [poll_missed EXCEPT ![t] = IF combined \/ edge THEN 0 ELSE @]
  BY <1>1 DEF Poll!Applied
<1>3. /\ poll_poll' \in [legacy : SUBSET Poll!T, cursor : Nat, slot : Nat, sweep : 0..PollTargets,
                         override : Nat]
      /\ poll_poll'.legacy = IF edge THEN poll_poll.legacy \ {t} ELSE poll_poll.legacy
  BY <1>2 DEF Poll!SetLegacy, PollInv, PollTyped
<1>4. PollTyped'
  <2>1. 0 \in 0..PollFallback /\ 0 \in Nat
    BY PollAssumption
  <2>2. poll_missed' \in [Poll!T -> 0..PollFallback]
    BY <1>2, <2>1 DEF PollInv, PollTyped
  <2>3. poll_blind' \in [Poll!T -> Nat]
    BY <1>1, <2>1 DEF PollInv, PollTyped
  <2> QED
    BY <1>3, <2>2, <2>3 DEF PollTyped
<1>5. PollBlind'
  <2> SUFFICES ASSUME NEW u \in Poll!T
               PROVE  /\ poll_blind'[u] <= PollFallback + 1
                      /\ u \notin poll_poll'.legacy => poll_blind'[u] <= poll_missed'[u]
    BY DEF PollBlind
  <2>1. CASE u # t
    BY <1>1, <1>2, <1>3, <2>1 DEF PollInv, PollTyped, PollBlind
  <2>2. CASE u = t /\ (combined \/ edge)
    <3>1. poll_blind'[u] = 0 /\ poll_missed'[u] = 0
      BY <1>1, <1>2, <2>2 DEF PollInv, PollTyped
    <3>2. 0 <= PollFallback + 1
      BY PollAssumption
    <3> QED
      BY <3>1, <3>2
  <2>3. CASE u = t /\ ~(combined \/ edge)
    BY <1>1, <1>2, <1>3, <2>3 DEF PollInv, PollTyped, PollBlind
  <2> QED
    BY <2>1, <2>2, <2>3
<1> QED
  BY <1>4, <1>5 DEF PollInv

\* For any number of drives, whichever are reflashed while the bus is silent and whatever
\* they answer: none is asked more than TELEMETRY_FALLBACK_POLLS + 1 times in a row in a way
\* it cannot answer before it is asked for its faults in one it can (PollScheduler, apply_rx,
\* probe_telemetry).
THEOREM FaultsStayHeard == Poll!Spec => []FaultsStayVisible
<1>1. Poll!Init => PollInv
  BY PollInit
<1>2. PollInv /\ [Poll!Next]_(Poll!vars) => PollInv'
  <2> SUFFICES ASSUME PollInv, [Poll!Next]_(Poll!vars) PROVE PollInv'
    OBVIOUS
  <2>0. ASSUME UNCHANGED <<poll_missed, poll_blind>>, poll_poll'.legacy = poll_poll.legacy,
               poll_poll' \in [legacy : SUBSET Poll!T, cursor : Nat, slot : Nat,
                               sweep : 0..PollTargets, override : Nat]
        PROVE  PollInv'
    BY <2>0 DEF PollInv, PollTyped, PollBlind
  <2>1. CASE UNCHANGED Poll!vars
    BY <2>1 DEF Poll!vars, PollInv, PollTyped, PollBlind
  <2>2. CASE Poll!QueuePollOverride
    <3>1. PICK n \in 1..PollRepeats : poll_poll' = Poll!QueueOverride(poll_poll, n)
      BY <2>2 DEF Poll!QueuePollOverride
    <3>2. n \in Nat /\ n # 0
      BY PollAssumption
    <3>3. poll_poll' = [poll_poll EXCEPT !.override = n]
      BY <3>1, <3>2 DEF Poll!QueueOverride
    <3> QED
      BY <2>0, <2>2, <3>2, <3>3 DEF Poll!QueuePollOverride, PollInv, PollTyped
  <2>3. CASE Poll!PollStep
    <3>1. CASE /\ Poll!HasOverride(poll_poll) /\ poll_poll' = Poll!TakeOverride(poll_poll)
               /\ UNCHANGED <<poll_missed, poll_blind>>
      <4>1. poll_poll.override - 1 \in Nat
        BY <3>1 DEF Poll!HasOverride, PollInv, PollTyped
      <4> QED
        BY <2>0, <3>1, <4>1 DEF Poll!TakeOverride, PollInv, PollTyped
    <3>2. CASE Poll!RoundRobin
      BY <3>2, RoundRobinKeeps
    <3> QED
      BY <2>3, <3>1, <3>2 DEF Poll!PollStep
  <2>4. CASE \E t \in Poll!T, edge \in BOOLEAN : Poll!Frame(t, edge)
    BY <2>4, PollFrameKeeps
  <2>5. CASE \E on \in BOOLEAN : Poll!SetSilent(on)
    BY <2>5 DEF Poll!SetSilent, PollInv, PollTyped, PollBlind
  <2> QED
    BY <2>1, <2>2, <2>3, <2>4, <2>5 DEF Poll!Next
<1>3. PollInv => FaultsStayVisible
  BY DEF PollInv, PollBlind, FaultsStayVisible, Poll!FaultsStayVisible
<1> QED
  BY <1>1, <1>2, <1>3, PTL DEF Poll!Spec

-----------------------------------------------------------------------------
(* GripperLoop. *)

JawVerbs == {"move", "calibrate", "stop", "idle"}
JawCodes == {"moving", "reached", "closing", "opening"}
JawCommands == [pos : Int, action : BOOLEAN, live : BOOLEAN]
JawReplies ==
  [pos : Int, code : JawCodes, calibrated : BOOLEAN, action : BOOLEAN, fault : BOOLEAN,
   judged : Int]
JawStates ==
  [pos : Int, cmd : JawCommands, calibrated : BOOLEAN, left : Nat, code : JawCodes,
   latched : BOOLEAN, judged : Int, close : Int, open : Int]
JawDrives == [since : Nat, timeout : BOOLEAN]
JawGates == [standing : JawCommands, repeats : Nat]
JawSettles ==
  [wait : {"none", "move", "calibrate", "hold", "idle"}, age : Nat, closing : BOOLEAN,
   streak : Nat, verdict : {"unarmed", "running", "settled", "done", "timeout", "fault"},
   epoch : Nat, on : Int]
JawPlans == [kind : JawVerbs \cup {"none"}, target : Int, epoch : Nat]
JawRequests == [kind : JawVerbs, target : Int]

JawsTyped ==
  /\ jaws_plan \in JawPlans /\ jaws_queue \in Seq(JawRequests) /\ jaws_gate \in JawGates
  /\ jaws_settle \in JawSettles /\ jaws_pending = FALSE /\ jaws_reply \in JawReplies
  /\ jaws_rx \in Seq(JawReplies) /\ Len(jaws_rx) <= 1 /\ jaws_jaw \in JawStates
  /\ jaws_drive \in JawDrives /\ jaws_losses \in Nat /\ jaws_losses <= JawsLosses

-----------------------------------------------------------------------------
(* The firmware. *)

(* A code names the target it was judged against, or says nothing. *)
Tells(x, t) == x.code # "moving" => x.judged = t

(* The jaws answer for target t from here on: nothing they were told drives them elsewhere
   and the code they hold is on t. *)
HeadedFor(j, t) == (j.cmd.action /\ j.left = 0) => j.cmd.pos = t
OnTarget(j, t) == HeadedFor(j, t) /\ Tells(j, t)

(* The next control cycle puts them there. *)
NextOnTarget(j, silent, t) ==
  HeadedFor(j, t) /\ (Tells(j, t) \/ (silent = 0 /\ (j.left > 0 \/ j.cmd.action)))

(* Nothing drives the jaws, and the next cycle's code says so. *)
JawsQuiet(j, silent) ==
  ~j.cmd.action /\ (j.code = "moving" \/ (j.left > 0 /\ silent = 0))

Sweeping(j) == j.left > 0 => ~j.calibrated /\ ~j.cmd.action

\* A state of the jaws, field by field.
LEMMA JawFields ==
  ASSUME NEW j \in JawStates
  PROVE  /\ j.pos \in Int /\ j.cmd \in JawCommands /\ j.calibrated \in BOOLEAN /\ j.left \in Nat
         /\ j.code \in JawCodes /\ j.latched \in BOOLEAN /\ j.judged \in Int /\ j.close \in Int
         /\ j.open \in Int
         /\ j.cmd.pos \in Int /\ j.cmd.action \in BOOLEAN /\ j.cmd.live \in BOOLEAN
  BY DEF JawStates, JawCommands

\* One control cycle.
LEMMA JawCycle ==
  ASSUME NEW j \in JawStates, NEW d \in JawDrives, NEW t \in Int,
         NEW s, s = Jaws!FirmwareStep(j, Jaws!Aged(d))
  PROVE  /\ s \in JawStates /\ s.cmd = j.cmd
         /\ Sweeping(j) => Sweeping(s)
         /\ Sweeping(j) /\ j.calibrated => s.calibrated
         /\ JawsQuiet(j, d.since) => s.code = "moving"
         /\ Sweeping(j) /\ NextOnTarget(j, d.since, t) => OnTarget(s, t)
  <1> DEFINE a == Jaws!Aged(d)
             fired == Jaws!Fired(a)
  <1>1. d.since = 0 => ~fired
    BY JawsAssumption DEF Jaws!Aged, Jaws!Fired, JawDrives
  <1>b. s = IF j.left > 0 THEN Jaws!SweepStep(j, a)
            ELSE IF fired \/ ~j.cmd.action THEN j ELSE Jaws!MoveStep(j)
    BY DEF Jaws!FirmwareStep
  <1>c. Jaws!SweepStep(j, a) =
          IF fired THEN [j EXCEPT !.left = 0]
          ELSE [j EXCEPT !.left = @ - 1, !.code = "moving", !.judged = -1,
                  !.pos = IF j.left = 1 THEN 0 ELSE JawsClosed, !.calibrated = j.left = 1]
    BY DEF Jaws!SweepStep
  <1> HIDE DEF a, fired
  <1>d. /\ j.pos \in Int /\ j.cmd \in JawCommands /\ j.calibrated \in BOOLEAN /\ j.left \in Nat
        /\ j.code \in JawCodes /\ j.latched \in BOOLEAN /\ j.judged \in Int /\ j.close \in Int
        /\ j.open \in Int
        /\ j.cmd.pos \in Int /\ j.cmd.action \in BOOLEAN /\ j.cmd.live \in BOOLEAN
    BY JawFields
  <1>2. CASE j.left > 0
    <2>1. CASE fired
      <3>1. s = [j EXCEPT !.left = 0]
        BY <1>2, <1>b, <1>c, <2>1
      <3>2. s \in JawStates
        BY <3>1 DEF JawStates
      <3>3. /\ s.cmd = j.cmd /\ s.left = 0 /\ s.code = j.code
            /\ s.judged = j.judged /\ s.calibrated = j.calibrated
        BY <3>1 DEF JawStates
      <3>4. d.since # 0
        BY <1>1, <2>1
      <3>5. NextOnTarget(j, d.since, t) => Tells(s, t)
        BY <3>3, <3>4 DEF NextOnTarget, Tells
      <3>6. JawsQuiet(j, d.since) => s.code = "moving"
        BY <3>3, <3>4 DEF JawsQuiet
      <3>7. Sweeping(s) /\ (Sweeping(j) /\ j.calibrated => s.calibrated)
        BY <3>3 DEF Sweeping
      <3>8. Sweeping(j) => HeadedFor(s, t)
        BY <1>2, <3>3 DEF Sweeping, HeadedFor
      <3>9. QED
        BY <3>2, <3>3, <3>5, <3>6, <3>7, <3>8 DEF OnTarget
    <2>2. CASE ~fired
      <3>1. s = [j EXCEPT !.left = @ - 1, !.code = "moving", !.judged = -1,
                   !.pos = IF j.left = 1 THEN 0 ELSE JawsClosed, !.calibrated = j.left = 1]
        BY <1>2, <1>b, <1>c, <2>2
      <3>2. /\ s.cmd = j.cmd /\ s.left = j.left - 1 /\ s.code = "moving"
            /\ s.calibrated = (j.left = 1)
        BY <3>1 DEF JawStates
      <3>3. s \in JawStates
        <4>1. CASE j.left = 1
          <5> DEFINE l == j.left - 1  m == -1  z == 0
          <5>1. l \in Nat /\ m \in Int /\ z \in Int
            BY <1>2, <1>d
          <5>2. s = [j EXCEPT !.left = l, !.code = "moving", !.judged = m, !.pos = z,
                       !.calibrated = TRUE]
            BY <3>1, <4>1, Zenon
          <5> HIDE DEF l, m, z
          <5>3. QED
            BY <5>1, <5>2 DEF JawStates, JawCodes
        <4>2. CASE j.left # 1
          <5> DEFINE l == j.left - 1  m == -1
          <5>1. l \in Nat /\ m \in Int /\ JawsClosed \in Int
            BY <1>2, <1>d, JawsAssumption
          <5>2. s = [j EXCEPT !.left = l, !.code = "moving", !.judged = m,
                       !.pos = JawsClosed, !.calibrated = FALSE]
            BY <3>1, <4>2, Zenon
          <5> HIDE DEF l, m
          <5>3. QED
            BY <5>1, <5>2 DEF JawStates, JawCodes
        <4>3. QED
          BY <4>1, <4>2
      <3>4. s.left > 0 => ~s.calibrated
        <4>1. CASE j.left = 1
          BY <3>2, <4>1
        <4>2. CASE j.left # 1
          BY <3>2, <4>2
        <4>3. QED
          BY <4>1, <4>2
      <3>5. Sweeping(j) => Sweeping(s)
        BY <1>2, <3>2, <3>4 DEF Sweeping
      <3>6. Sweeping(j) => ~j.calibrated
        BY <1>2 DEF Sweeping
      <3>7. Tells(s, t)
        BY <3>2 DEF Tells
      <3>8. Sweeping(j) => HeadedFor(s, t)
        BY <1>2, <3>2 DEF Sweeping, HeadedFor
      <3>9. QED
        BY <3>2, <3>3, <3>5, <3>6, <3>7, <3>8 DEF OnTarget
    <2>3. QED
      BY <2>1, <2>2
  <1>3. CASE ~(j.left > 0) /\ (fired \/ ~j.cmd.action)
    <2>1. s = j
      BY <1>3, <1>b
    <2>2. QED
      BY <1>1, <1>3, <2>1 DEF JawsQuiet, Sweeping, NextOnTarget, OnTarget, HeadedFor, Tells
  <1>4. CASE ~(j.left > 0) /\ ~fired /\ j.cmd.action
    <2>1. s = Jaws!MoveStep(j)
      BY <1>4, <1>b
    <2> DEFINE closing == j.cmd.pos > j.pos
               block == IF closing THEN j.close >= 0 /\ j.close < j.cmd.pos
                        ELSE j.open >= 0 /\ j.open > j.cmd.pos
               stop == IF ~block THEN j.cmd.pos ELSE IF closing THEN j.close ELSE j.open
               pos == IF stop > j.pos THEN j.pos + 1
                      ELSE IF stop < j.pos THEN j.pos - 1 ELSE j.pos
               latched == j.latched \/ pos = j.cmd.pos
               code == IF latched THEN "reached" ELSE IF ~block THEN "moving"
                       ELSE IF closing THEN "closing" ELSE "opening"
    <2>2. s = [j EXCEPT !.pos = pos, !.latched = latched, !.judged = j.cmd.pos, !.code = code]
      BY <2>1 DEF Jaws!MoveStep
    <2>3. stop \in Int /\ code \in JawCodes
      BY <1>d DEF JawCodes
    <2>4. pos \in Int
      <3> HIDE DEF stop
      <3>1. QED
        BY <1>d, <2>3
    <2> HIDE DEF pos, code, block, closing, stop
    <2>5. /\ s.cmd = j.cmd /\ s.left = j.left /\ s.judged = j.cmd.pos
          /\ s.calibrated = j.calibrated
      BY <2>2 DEF JawStates
    <2>6. s \in JawStates
      <3>1. CASE latched
        <4>1. s = [j EXCEPT !.pos = pos, !.latched = TRUE, !.judged = j.cmd.pos, !.code = code]
          BY <2>2, <3>1
        <4> HIDE DEF latched
        <4>2. QED
          BY <1>d, <2>3, <2>4, <4>1 DEF JawStates
      <3>2. CASE ~latched
        <4>1. s = [j EXCEPT !.pos = pos, !.latched = FALSE, !.judged = j.cmd.pos, !.code = code]
          BY <2>2, <3>2
        <4> HIDE DEF latched
        <4>2. QED
          BY <1>d, <2>3, <2>4, <4>1 DEF JawStates
      <3>3. QED
        BY <3>1, <3>2
    <2>7. j.left = 0
      BY <1>4, <1>d
    <2>8. QED
      BY <1>4, <2>5, <2>6, <2>7 DEF JawsQuiet, Sweeping, NextOnTarget, OnTarget, HeadedFor, Tells
  <1>5. QED
    BY <1>2, <1>3, <1>4

JawsPoll == [kind |-> "poll"]
JawsCalibrate == [kind |-> "calibrate"]

\* A command frame is neither a poll nor a calibration.
LEMMA JawFrames == \A c \in JawCommands : c # JawsPoll /\ c # JawsCalibrate
  BY DEF JawCommands, JawsPoll, JawsCalibrate

\* A poll is no calibration.
LEMMA PollIsNoCalibration == JawsPoll # JawsCalibrate
  <1>1. JawsPoll.kind = "poll" /\ JawsCalibrate.kind = "calibrate"
    BY DEF JawsPoll, JawsCalibrate
  <1>2. QED
    BY <1>1

\* What a frame does to the jaws.
LEMMA JawTakesFrame ==
  ASSUME NEW j \in JawStates, NEW f \in JawCommands \cup {JawsPoll, JawsCalibrate}, NEW s,
         s = Jaws!OnFrame(j, f)
  PROVE  /\ s \in JawStates /\ s.code = j.code /\ s.judged = j.judged
         /\ f \in JawCommands => s.cmd = f /\ s.left = 0 /\ s.calibrated = j.calibrated
         /\ f = JawsPoll => s = j
         /\ f = JawsCalibrate =>
              s.cmd = Jaws!NoCmd /\ s.left = JawsSweep /\ ~s.calibrated
  <1>1. CASE f = JawsCalibrate
    <2>1. s = [j EXCEPT !.calibrated = FALSE, !.left = JawsSweep, !.cmd = Jaws!NoCmd,
                        !.latched = FALSE]
      BY <1>1, PollIsNoCalibration DEF Jaws!OnFrame, JawsPoll, JawsCalibrate
    <2>2. Jaws!NoCmd \in JawCommands /\ JawsSweep \in Nat
      BY JawsAssumption DEF Jaws!NoCmd, JawCommands
    <2>3. s \in JawStates
      BY <2>1, <2>2 DEF JawStates
    <2>4. /\ s.code = j.code /\ s.judged = j.judged /\ s.cmd = Jaws!NoCmd
          /\ s.left = JawsSweep /\ s.calibrated = FALSE
      BY <2>1 DEF JawStates
    <2>5. QED
      BY <1>1, <2>3, <2>4, JawFrames, PollIsNoCalibration
  <1>2. CASE f = JawsPoll
    <2>1. s = j
      BY <1>2, PollIsNoCalibration DEF Jaws!OnFrame, JawsPoll, JawsCalibrate
    <2>2. QED
      BY <1>2, <2>1, JawFrames, PollIsNoCalibration
  <1>3. CASE f \in JawCommands
    <2>1. f # JawsPoll /\ f # JawsCalibrate
      BY <1>3, JawFrames
    <2>2. s = [j EXCEPT !.cmd = f, !.left = 0, !.latched = j.latched /\ f = j.cmd]
      BY <2>1 DEF Jaws!OnFrame, JawsPoll, JawsCalibrate
    <2>3. /\ s.code = j.code /\ s.judged = j.judged /\ s.cmd = f /\ s.left = 0
          /\ s.calibrated = j.calibrated
      BY <2>2 DEF JawStates
    <2> DEFINE b == j.latched /\ f = j.cmd
    <2>4. s \in JawStates
      <3>1. CASE b
        <4> DEFINE z == 0
        <4>1. s = [j EXCEPT !.cmd = f, !.left = z, !.latched = TRUE] /\ z \in Nat
          BY <2>2, <3>1
        <4> HIDE DEF z, b
        <4>2. QED
          BY <1>3, <4>1 DEF JawStates
      <3>2. CASE ~b
        <4> DEFINE z == 0
        <4>1. s = [j EXCEPT !.cmd = f, !.left = z, !.latched = FALSE] /\ z \in Nat
          BY <2>2, <3>2
        <4> HIDE DEF z, b
        <4>2. QED
          BY <1>3, <4>1 DEF JawStates
      <3>3. QED
        BY <3>1, <3>2
    <2>5. QED
      BY <1>3, <2>1, <2>3, <2>4
  <1>4. QED
    BY <1>1, <1>2, <1>3

\* What the jaws answer.
LEMMA JawAnswers ==
  ASSUME NEW j \in JawStates, NEW d \in JawDrives, NEW r, r = Jaws!Answer(j, d)
  PROVE  r \in JawReplies /\ r.code = j.code /\ r.judged = j.judged
         /\ r.calibrated = j.calibrated
  <1>1. r = [pos |-> j.pos, code |-> j.code, calibrated |-> j.calibrated,
             action |-> j.cmd.action /\ j.left = 0, fault |-> d.timeout, judged |-> j.judged]
    BY DEF Jaws!Answer
  <1>2. r.code = j.code /\ r.judged = j.judged /\ r.calibrated = j.calibrated
    BY <1>1
  <1>3. /\ j.pos \in Int /\ j.cmd \in JawCommands /\ j.calibrated \in BOOLEAN /\ j.left \in Nat
        /\ j.code \in JawCodes /\ j.judged \in Int /\ d.timeout \in BOOLEAN
    BY JawFields DEF JawDrives
  <1>4. CASE j.cmd.action /\ j.left = 0
    <2>1. r = [pos |-> j.pos, code |-> j.code, calibrated |-> j.calibrated,
               action |-> TRUE, fault |-> d.timeout, judged |-> j.judged]
      BY <1>1, <1>4
    <2>2. QED
      BY <1>2, <1>3, <2>1 DEF JawReplies
  <1>5. CASE ~(j.cmd.action /\ j.left = 0)
    <2>1. r = [pos |-> j.pos, code |-> j.code, calibrated |-> j.calibrated,
               action |-> FALSE, fault |-> d.timeout, judged |-> j.judged]
      BY <1>1, <1>5
    <2>2. QED
      BY <1>2, <1>3, <2>1 DEF JawReplies
  <1>6. QED
    BY <1>4, <1>5

-----------------------------------------------------------------------------
(* Gate and settle machine. *)

\* The tick's frame.
LEMMA JawsGateTick ==
  ASSUME NEW g \in JawGates, NEW c \in BOOLEAN, NEW f, f = Jaws!GateTick(g, c)
  PROVE  /\ f.gate \in JawGates /\ f.gate.standing = g.standing
         /\ g.standing.action /\ c => f.frame = g.standing
         /\ ~(g.standing.action /\ c) =>
              \/ /\ g.repeats > 0 /\ f.gate.repeats = g.repeats - 1
                 /\ f.frame \in JawCommands /\ ~f.frame.action
              \/ g.repeats = 0 /\ f.gate.repeats = 0 /\ f.frame = JawsPoll
  <1>0. g.standing \in JawCommands /\ g.repeats \in Nat /\ g.standing.action \in BOOLEAN
    BY DEF JawGates, JawCommands
  <1>1. CASE g.standing.action /\ c
    <2>1. f.frame = g.standing /\ f.gate = [g EXCEPT !.repeats = JawsRepeats]
      BY <1>1 DEF Jaws!GateTick, Jaws!Sends
    <2>2. QED
      BY <1>0, <1>1, <2>1, JawsAssumption DEF JawGates
  <1>2. CASE ~(g.standing.action /\ c) /\ g.repeats > 0
    <2>1. /\ f.frame = [g.standing EXCEPT !.action = FALSE, !.live = TRUE]
          /\ f.gate = [g EXCEPT !.repeats = @ - 1]
      BY <1>2 DEF Jaws!GateTick, Jaws!Sends
    <2>2. f.frame \in JawCommands /\ ~f.frame.action
      BY <1>0, <2>1 DEF JawCommands
    <2> DEFINE n == g.repeats - 1
    <2>3. n \in Nat
      BY <1>0, <1>2
    <2>4. f.gate = [g EXCEPT !.repeats = n]
      BY <2>1
    <2> HIDE DEF n
    <2>5. f.gate \in JawGates /\ f.gate.standing = g.standing /\ f.gate.repeats = n
      BY <2>3, <2>4 DEF JawGates
    <2>6. QED
      BY <1>2, <2>2, <2>5 DEF n
  <1>3. CASE ~(g.standing.action /\ c) /\ ~(g.repeats > 0)
    <2>1. f.frame = JawsPoll /\ f.gate = g
      BY <1>3 DEF Jaws!GateTick, Jaws!Sends, JawsPoll
    <2>2. g.repeats = 0
      BY <1>0, <1>3
    <2>3. QED
      BY <1>3, <2>1, <2>2
  <1>4. QED
    BY <1>1, <1>2, <1>3

JawsArmed(s, wait) ==
  /\ s \in JawSettles /\ s.wait = wait /\ s.age = 0 /\ s.verdict = "running"

\* Arming.
LEMMA JawsArm ==
  ASSUME NEW s \in JawSettles, NEW wait \in {"move", "calibrate", "hold", "idle"},
         NEW closing \in BOOLEAN, NEW a, a = Jaws!Arm(s, wait, closing)
  PROVE  JawsArmed(a, wait) /\ a.epoch = s.epoch + 1
  <1>1. s.epoch \in Nat
    BY DEF JawSettles
  <1> DEFINE e == s.epoch + 1  z == 0
  <1>2. e \in Nat /\ z \in Nat
    BY <1>1
  <1>3. a = [s EXCEPT !.wait = wait, !.age = z, !.streak = z, !.verdict = "running",
                      !.epoch = e, !.closing = closing]
    BY DEF Jaws!Arm
  <1> HIDE DEF e, z
  <1>4. a \in JawSettles
    BY <1>2, <1>3 DEF JawSettles
  <1>5. a.wait = wait /\ a.age = z /\ a.verdict = "running" /\ a.epoch = e
    BY <1>3 DEF JawSettles
  <1>6. QED
    BY <1>4, <1>5 DEF JawsArmed, e, z

(* Command c was applied to gate g and settle machine s, with reply r, and left a: the settle
   machine is armed for it, and the gate holds what it says. *)
JawsTook(c, g, s, r, a) ==
  /\ a.gate \in JawGates /\ a.settle.epoch = s.epoch + 1
  /\ c.kind = "move" => /\ JawsArmed(a.settle, "move") /\ a.pending = FALSE
                        /\ a.gate.standing = Jaws!Cmd(c.target, TRUE)
  /\ c.kind = "calibrate" => JawsArmed(a.settle, "calibrate") /\ a.pending = TRUE
  /\ c.kind \in {"stop", "idle"} =>
       /\ a.pending = FALSE
       /\ \/ JawsArmed(a.settle, "hold") /\ a.gate.standing.action /\ g.standing.live
          \/ /\ JawsArmed(a.settle, "idle") /\ ~a.gate.standing.action
             /\ a.gate.repeats = JawsRepeats /\ a.gate.standing.live = g.standing.live

\* What applying a command leaves.
LEMMA JawsApply ==
  ASSUME NEW c \in JawRequests, NEW g \in JawGates, NEW s \in JawSettles, NEW r \in JawReplies
  PROVE  \A a : a = Jaws!ApplyGripper(c, g, s, r, FALSE) => JawsTook(c, g, s, r, a)
  <1>a. SUFFICES ASSUME NEW a, a = Jaws!ApplyGripper(c, g, s, r, FALSE)
                 PROVE  JawsTook(c, g, s, r, a)
    OBVIOUS
  <1>0. /\ c.kind \in JawVerbs /\ c.target \in Int /\ g.standing \in JawCommands /\ g.repeats \in Nat
        /\ r.pos \in Int /\ r.calibrated \in BOOLEAN /\ g.standing.live \in BOOLEAN
        /\ JawsRepeats \in Nat
    BY JawsAssumption DEF JawRequests, JawGates, JawReplies, JawCommands
  <1>i. ASSUME NEW i, i = Jaws!Idled(g)
        PROVE  /\ i \in JawGates /\ ~i.standing.action /\ i.repeats = JawsRepeats
               /\ i.standing.live = g.standing.live
    <2>1. i = [standing |-> [g.standing EXCEPT !.action = FALSE], repeats |-> JawsRepeats]
      BY <1>i DEF Jaws!Idled
    <2> DEFINE n == [g.standing EXCEPT !.action = FALSE]
    <2>2. n \in JawCommands /\ ~n.action /\ n.live = g.standing.live
      BY <1>0 DEF JawCommands
    <2>3. i = [standing |-> n, repeats |-> JawsRepeats]
      BY <2>1
    <2> HIDE DEF n
    <2>4. QED
      BY <1>0, <2>2, <2>3 DEF JawGates
  <1>1. CASE c.kind = "move"
    <2> DEFINE k == Jaws!Cmd(c.target, TRUE)
               h == [g EXCEPT !.standing = k]
    <2>1. a = Jaws!Applied(h, Jaws!Arm(s, "move", c.target > r.pos), FALSE)
      BY <1>1, <1>a DEF Jaws!ApplyGripper
    <2>2. k \in JawCommands
      BY <1>0 DEF Jaws!Cmd, JawCommands
    <2> HIDE DEF k
    <2>3. h \in JawGates /\ h.standing = k /\ h.repeats = g.repeats
      BY <2>2 DEF JawGates
    <2> HIDE DEF h
    <2>4. PICK m : a = Jaws!Applied(h, m, FALSE) /\ JawsArmed(m, "move") /\ m.epoch = s.epoch + 1
      <3>1. CASE c.target > r.pos
        <4> DEFINE m == Jaws!Arm(s, "move", TRUE)
        <4>1. a = Jaws!Applied(h, m, FALSE)
          BY <2>1, <3>1
        <4>2. JawsArmed(m, "move") /\ m.epoch = s.epoch + 1
          BY JawsArm
        <4> HIDE DEF m
        <4>3. QED
          BY <4>1, <4>2
      <3>2. CASE ~(c.target > r.pos)
        <4> DEFINE m == Jaws!Arm(s, "move", FALSE)
        <4>0. (c.target > r.pos) = FALSE
          BY <3>2
        <4>1. a = Jaws!Applied(h, m, FALSE)
          BY <2>1, <4>0, Zenon
        <4>2. JawsArmed(m, "move") /\ m.epoch = s.epoch + 1
          BY JawsArm
        <4> HIDE DEF m
        <4>3. QED
          BY <4>1, <4>2
      <3>3. QED
        BY <3>1, <3>2
    <2>5. a.gate = h /\ a.settle = m /\ a.pending = FALSE
      BY <2>4 DEF Jaws!Applied
    <2>6. QED
      BY <1>1, <2>3, <2>4, <2>5 DEF k, JawsTook
  <1>2. CASE c.kind = "calibrate"
    <2> DEFINE h == [standing |-> Jaws!NoCmd, repeats |-> 0]
               m == Jaws!Arm(s, "calibrate", FALSE)
    <2>1. a = Jaws!Applied(h, m, TRUE)
      BY <1>2, <1>a DEF Jaws!ApplyGripper
    <2>2. JawsArmed(m, "calibrate") /\ m.epoch = s.epoch + 1
      BY JawsArm
    <2>3. h \in JawGates
      <3>1. Jaws!NoCmd \in JawCommands
        BY DEF Jaws!NoCmd, JawCommands
      <3>2. QED
        BY <3>1 DEF JawGates
    <2> HIDE DEF h, m
    <2>4. a.gate = h /\ a.settle = m /\ a.pending = TRUE
      BY <2>1 DEF Jaws!Applied
    <2>5. QED
      BY <1>2, <2>2, <2>3, <2>4 DEF JawsTook
  <1>3. CASE c.kind \in {"stop", "idle"}
    <2>1. CASE c.kind = "stop" /\ r.calibrated /\ g.standing.live
      <3>1. a = Jaws!Applied([g EXCEPT !.standing = Jaws!Cmd(r.pos, TRUE)],
                           Jaws!Arm(s, "hold", FALSE), FALSE)
        BY <2>1, <1>a DEF Jaws!ApplyGripper, Jaws!HaltInPlace
      <3> DEFINE k == Jaws!Cmd(r.pos, TRUE)
                 h == [g EXCEPT !.standing = k]
                 m == Jaws!Arm(s, "hold", FALSE)
      <3>2. k \in JawCommands /\ k.action /\ k.live
        BY <1>0 DEF Jaws!Cmd, JawCommands
      <3>3. a = Jaws!Applied(h, m, FALSE)
        BY <3>1
      <3>4. JawsArmed(m, "hold") /\ m.epoch = s.epoch + 1
        BY JawsArm
      <3> HIDE DEF k
      <3>5. h \in JawGates /\ h.standing = k
        BY <3>2 DEF JawGates
      <3> HIDE DEF h, m
      <3>6. a.gate = h /\ a.settle = m /\ a.pending = FALSE
        BY <3>3 DEF Jaws!Applied
      <3>7. QED
        BY <2>1, <3>2, <3>4, <3>5, <3>6 DEF JawsTook
    <2>2. CASE c.kind = "stop" /\ ~(r.calibrated /\ g.standing.live)
      <3>1. a = Jaws!Applied(Jaws!Idled(g), Jaws!Arm(s, "idle", FALSE), FALSE)
        BY <2>2, <1>a DEF Jaws!ApplyGripper, Jaws!HaltInPlace
      <3> DEFINE h == Jaws!Idled(g)
                 m == Jaws!Arm(s, "idle", FALSE)
      <3>2. JawsArmed(m, "idle") /\ m.epoch = s.epoch + 1
        BY JawsArm
      <3>3. /\ h \in JawGates /\ ~h.standing.action /\ h.repeats = JawsRepeats
            /\ h.standing.live = g.standing.live
        BY <1>i
      <3>4. a = Jaws!Applied(h, m, FALSE)
        BY <3>1
      <3> HIDE DEF h, m
      <3>5. a.gate = h /\ a.settle = m /\ a.pending = FALSE
        BY <3>4 DEF Jaws!Applied
      <3>6. QED
        BY <2>2, <3>2, <3>3, <3>5 DEF JawsTook
    <2>3. CASE c.kind = "idle"
      <3>1. a = Jaws!Applied(Jaws!Idled(g), Jaws!Arm(s, "idle", FALSE), FALSE)
        BY <2>3, <1>a DEF Jaws!ApplyGripper
      <3> DEFINE h == Jaws!Idled(g)
                 m == Jaws!Arm(s, "idle", FALSE)
      <3>2. JawsArmed(m, "idle") /\ m.epoch = s.epoch + 1
        BY JawsArm
      <3>3. /\ h \in JawGates /\ ~h.standing.action /\ h.repeats = JawsRepeats
            /\ h.standing.live = g.standing.live
        BY <1>i
      <3>4. a = Jaws!Applied(h, m, FALSE)
        BY <3>1
      <3> HIDE DEF h, m
      <3>5. a.gate = h /\ a.settle = m /\ a.pending = FALSE
        BY <3>4 DEF Jaws!Applied
      <3>6. QED
        BY <2>3, <3>2, <3>3, <3>5 DEF JawsTook
    <2>4. QED
      BY <1>3, <2>1, <2>2, <2>3
  <1>4. QED
    BY <1>0, <1>1, <1>2, <1>3 DEF JawVerbs

JawsLimit(wait) == IF wait = "calibrate" THEN JawsCalTimeout ELSE JawsMoveTimeout

\* A reply to a move is judged.
LEMMA JawsTickMove ==
  ASSUME NEW s \in JawSettles, NEW r \in JawReplies, s.verdict = "running",
         NEW x, x = Jaws!TickMove(s, r)
  PROVE  /\ x \in JawSettles /\ x.wait = s.wait /\ x.epoch = s.epoch /\ x.age = s.age
         /\ x.verdict = "settled" => r.code # "moving" /\ x.on = r.judged
  <1> DEFINE contact == r.code = (IF s.closing THEN "closing" ELSE "opening")
             streak == IF contact THEN s.streak + 1 ELSE 0
  <1>0. s.streak \in Nat /\ r.judged \in Int
    BY DEF JawSettles, JawReplies
  <1>1. streak \in Nat
    BY <1>0
  <1>2. contact => r.code # "moving"
    BY DEF JawReplies, JawCodes
  <1>3. x = IF r.code = "reached" \/ (contact /\ streak >= JawsDebounce)
            THEN [s EXCEPT !.verdict = "settled", !.on = r.judged]
            ELSE [s EXCEPT !.streak = streak]
    BY DEF Jaws!TickMove
  <1> HIDE DEF contact, streak
  <1>4. CASE r.code = "reached" \/ (contact /\ streak >= JawsDebounce)
    <2>1. x = [s EXCEPT !.verdict = "settled", !.on = r.judged]
      BY <1>3, <1>4
    <2>2. r.code # "moving"
      BY <1>2, <1>4
    <2>3. QED
      BY <1>0, <2>1, <2>2 DEF JawSettles
  <1>5. CASE ~(r.code = "reached" \/ (contact /\ streak >= JawsDebounce))
    <2>1. x = [s EXCEPT !.streak = streak]
      BY <1>3, <1>5
    <2>2. QED
      BY <1>1, <2>1 DEF JawSettles
  <1>6. QED
    BY <1>4, <1>5

\* A verdict other than "settled" is given.
LEMMA JawsVerdict ==
  ASSUME NEW s \in JawSettles, NEW v \in {"done", "timeout", "fault"},
         NEW x, x = [s EXCEPT !.verdict = v]
  PROVE  /\ x \in JawSettles /\ x.wait = s.wait /\ x.epoch = s.epoch /\ x.age = s.age
         /\ x.verdict = v /\ x.verdict # "settled" /\ x.on = s.on
  BY DEF JawSettles

\* What a judged reply may change.
LEMMA JawsJudge ==
  ASSUME NEW s \in JawSettles, NEW r \in JawReplies, s.verdict = "running",
         NEW x, x = Jaws!Judge(s, r)
  PROVE  /\ x \in JawSettles /\ x.wait = s.wait /\ x.epoch = s.epoch /\ x.age = s.age
         /\ x.verdict = "settled" => s.wait = "move" /\ r.code # "moving" /\ x.on = r.judged
  <1>1. CASE r.fault
    <2>1. x = [s EXCEPT !.verdict = "fault"]
      BY <1>1 DEF Jaws!Judge
    <2>2. QED
      BY <2>1, JawsVerdict
  <1>2. CASE ~r.fault /\ s.wait = "move"
    <2>1. x = Jaws!TickMove(s, r)
      BY <1>2 DEF Jaws!Judge
    <2>2. QED
      BY <1>2, <2>1, JawsTickMove
  <1>3. CASE ~r.fault /\ s.wait # "move"
    <2>1. x = [s EXCEPT !.verdict = "done"] \/ x = s
      BY <1>3 DEF Jaws!Judge
    <2>2. CASE x = [s EXCEPT !.verdict = "done"]
      BY <2>2, JawsVerdict
    <2>3. CASE x = s
      BY <2>3
    <2>4. QED
      BY <2>1, <2>2, <2>3
  <1>4. QED
    BY <1>1, <1>2, <1>3

\* One tick of the settle machine: a move is settled only on the judgement of a reply, once the
\* grace is over, and a machine armed in this very tick is still running after it.
LEMMA JawsSettleTick ==
  ASSUME NEW s \in JawSettles, NEW r \in JawReplies, NEW b \in BOOLEAN,
         NEW x, x = Jaws!SettleTick(s, r, b)
  PROVE  /\ x \in JawSettles /\ x.wait = s.wait /\ x.epoch = s.epoch
         /\ s.verdict # "running" => x = s
         /\ s.verdict = "running" => x.age = s.age + 1
         /\ s.verdict = "running" /\ x.verdict = "settled" =>
              s.wait = "move" /\ s.age >= JawsGrace /\ r.code # "moving" /\ x.on = r.judged
         /\ s.verdict = "running" /\ s.age = 0 => x.verdict = "running"
  <1>0. s.age \in Nat /\ JawsGrace \in Nat /\ JawsGrace > 0
    BY JawsAssumption DEF JawSettles
  <1>1. CASE s.verdict # "running"
    BY <1>1 DEF Jaws!SettleTick
  <1>2. CASE s.verdict = "running"
    <2> DEFINE judged == IF Jaws!Settles(s, r) /\ b THEN Jaws!Judge(s, r) ELSE s
               limit == JawsLimit(s.wait)
               ended == IF judged.verdict = "running" /\ s.age >= limit
                        THEN [judged EXCEPT !.verdict = "timeout"] ELSE judged
    <2>1. x = [ended EXCEPT !.age = @ + 1]
      BY <1>2 DEF Jaws!SettleTick, Jaws!TimeoutOf, JawsLimit
    <2>2. limit \in Nat /\ limit > 0
      BY JawsAssumption DEF JawsLimit
    <2>3. /\ judged \in JawSettles /\ judged.wait = s.wait /\ judged.epoch = s.epoch
          /\ judged.age = s.age
          /\ judged.verdict = "settled" =>
               s.wait = "move" /\ s.age >= JawsGrace /\ r.code # "moving" /\ judged.on = r.judged
          /\ s.age = 0 => judged.verdict = "running"
      <3>1. CASE Jaws!Settles(s, r) /\ b
        <4>1. s.age >= JawsGrace
          BY <3>1 DEF Jaws!Settles
        <4>2. judged = Jaws!Judge(s, r)
          BY <3>1
        <4> HIDE DEF judged
        <4>3. /\ judged \in JawSettles /\ judged.wait = s.wait /\ judged.epoch = s.epoch
              /\ judged.age = s.age
              /\ judged.verdict = "settled" =>
                    s.wait = "move" /\ r.code # "moving" /\ judged.on = r.judged
          BY <1>2, <4>2, JawsJudge
        <4>4. s.age # 0
          BY <1>0, <4>1
        <4>5. QED
          BY <4>1, <4>3, <4>4
      <3>2. CASE ~(Jaws!Settles(s, r) /\ b)
        <4>1. judged = s
          BY <3>2
        <4> HIDE DEF judged
        <4>2. QED
          BY <1>2, <4>1
      <3>3. QED
        BY <3>1, <3>2
    <2> HIDE DEF judged, limit
    <2>4. /\ ended \in JawSettles /\ ended.wait = s.wait /\ ended.epoch = s.epoch
          /\ ended.age = s.age
          /\ ended.verdict = "settled" =>
               s.wait = "move" /\ s.age >= JawsGrace /\ r.code # "moving" /\ ended.on = r.judged
          /\ s.age = 0 => ended.verdict = "running"
      <3>1. CASE judged.verdict = "running" /\ s.age >= limit
        <4>1. ended = [judged EXCEPT !.verdict = "timeout"]
          BY <3>1
        <4> HIDE DEF ended
        <4>2. /\ ended \in JawSettles /\ ended.wait = judged.wait /\ ended.epoch = judged.epoch
              /\ ended.age = judged.age /\ ended.verdict # "settled"
          BY <2>3, <4>1, JawsVerdict
        <4>3. s.age # 0
          BY <1>0, <2>2, <3>1
        <4>4. QED
          BY <2>3, <4>2, <4>3
      <3>2. CASE ~(judged.verdict = "running" /\ s.age >= limit)
        <4>1. ended = judged
          BY <3>2
        <4> HIDE DEF ended
        <4>2. QED
          BY <2>3, <4>1
      <3>3. QED
        BY <3>1, <3>2
    <2> HIDE DEF ended
    <2> DEFINE n == s.age + 1
    <2>5. n \in Nat
      BY <1>0
    <2>6. x = [ended EXCEPT !.age = n]
      BY <2>1, <2>4
    <2> HIDE DEF n
    <2>7. /\ x \in JawSettles /\ x.wait = ended.wait /\ x.epoch = ended.epoch /\ x.age = n
          /\ x.verdict = ended.verdict /\ x.on = ended.on
      BY <2>4, <2>5, <2>6 DEF JawSettles
    <2>8. x.age = s.age + 1
      BY <2>7 DEF n
    <2>9. QED
      BY <1>2, <2>4, <2>7, <2>8
  <1>3. QED
    BY <1>1, <1>2

-----------------------------------------------------------------------------
(* How far a move's own code has come, age ticks after it was armed and with n frames or
   answers lost so far: the jaws have not heard of it, or their next cycle is on target t, or
   their answer under way is, or the reply the RT holds is. *)
JawsStage(age, n, j, silent, p, q, t) ==
  \/ n >= age
  \/ NextOnTarget(j, silent, t) /\ n >= age - 1
  \/ OnTarget(j, t) /\ q # <<>> /\ Tells(q[1], t) /\ n >= age - 2
  \/ OnTarget(j, t) /\ q = <<>> /\ n >= age - 1
  \/ OnTarget(j, t) /\ Tells(p, t) /\ (q # <<>> => Tells(q[1], t))

\* What a tick drains: the answer under way, or, if it is lost or there is none, nothing.
JawsDrains(r, p, q, lost) == r = IF q # <<>> /\ ~lost THEN q[1] ELSE p

\* A tick takes the move one stage on, or costs a frame or an answer.
LEMMA JawsStageStep ==
  ASSUME NEW age \in Nat, NEW n \in Nat, NEW n2 \in Nat, NEW t \in Int,
         NEW j, NEW j2, NEW silent, NEW silent2, NEW p, NEW q, NEW r, NEW q2, NEW s,
         NEW lostFrame \in BOOLEAN, NEW lostReply \in BOOLEAN,
         JawsStage(age, n, j, silent, p, q, t), JawsDrains(r, p, q, lostReply),
         n2 >= n, lostFrame \/ lostReply => n2 >= n + 1, lostFrame /\ lostReply => n2 >= n + 2,
         NextOnTarget(j, silent, t) => OnTarget(s, t),
         lostFrame => j2 = s /\ q2 = <<>>,
         ~lostFrame => /\ q2 # <<>> /\ NextOnTarget(j2, silent2, t)
                       /\ OnTarget(s, t) => OnTarget(j2, t)
                       /\ OnTarget(j2, t) => Tells(q2[1], t)
  PROVE  JawsStage(age + 1, n2, j2, silent2, r, q2, t)
  <1>1. OnTarget(j, t) => NextOnTarget(j, silent, t)
    BY DEF OnTarget, NextOnTarget
  <1>2. CASE n >= age
    <2>1. CASE lostFrame
      BY <1>2, <2>1 DEF JawsStage
    <2>2. CASE ~lostFrame
      <3>1. n2 >= age + 1 - 1
        BY <1>2
      <3>2. QED
        BY <2>2, <3>1 DEF JawsStage
    <2>3. QED
      BY <2>1, <2>2
  <1>3. CASE NextOnTarget(j, silent, t) /\ n >= age - 1
    <2>1. CASE lostFrame
      <3>1. n2 >= age + 1 - 1
        BY <1>3, <2>1
      <3>2. QED
        BY <1>3, <2>1, <3>1 DEF JawsStage
    <2>2. CASE ~lostFrame
      <3>1. n2 >= age + 1 - 2
        BY <1>3
      <3>2. QED
        BY <1>3, <2>2, <3>1 DEF JawsStage
    <2>3. QED
      BY <2>1, <2>2
  <1>4. CASE OnTarget(j, t) /\ q # <<>> /\ Tells(q[1], t) /\ n >= age - 2
    <2>0. OnTarget(s, t)
      BY <1>1, <1>4
    <2>1. CASE lostReply
      <3>1. CASE lostFrame
        <4>1. n2 >= age + 1 - 1
          BY <1>4, <2>1, <3>1
        <4>2. QED
          BY <2>0, <3>1, <4>1 DEF JawsStage
      <3>2. CASE ~lostFrame
        <4>1. n2 >= age + 1 - 2
          BY <1>4, <2>1
        <4>2. QED
          BY <2>0, <3>2, <4>1 DEF JawsStage
      <3>3. QED
        BY <3>1, <3>2
    <2>2. CASE ~lostReply
      <3>1. Tells(r, t)
        BY <1>4, <2>2 DEF JawsDrains
      <3>2. QED
        BY <2>0, <3>1 DEF JawsStage
    <2>3. QED
      BY <2>1, <2>2
  <1>5. CASE OnTarget(j, t) /\ q = <<>> /\ n >= age - 1
    BY <1>1, <1>3, <1>5
  <1>6. CASE OnTarget(j, t) /\ Tells(p, t) /\ (q # <<>> => Tells(q[1], t))
    <2>1. OnTarget(s, t)
      BY <1>1, <1>6
    <2>2. Tells(r, t)
      BY <1>6 DEF JawsDrains
    <2>3. QED
      BY <2>1, <2>2 DEF JawsStage
  <1>7. QED
    BY <1>2, <1>3, <1>4, <1>5, <1>6 DEF JawsStage

\* Once the grace is over, no more than the losses allowed leave the reply that is judged on
\* the move's own target.
LEMMA JawsStageJudges ==
  ASSUME NEW age \in Nat, NEW n \in Nat, NEW n2 \in Nat, NEW t \in Int,
         NEW j, NEW silent, NEW p, NEW q, NEW r, NEW lostReply \in BOOLEAN,
         JawsStage(age, n, j, silent, p, q, t), JawsDrains(r, p, q, lostReply),
         n2 >= n, lostReply => n2 >= n + 1, n2 <= JawsLosses, age >= JawsGrace
  PROVE  Tells(r, t)
  <1>0. JawsLosses \in Nat /\ JawsGrace \in Nat /\ JawsGrace >= JawsLosses + 2
    BY JawsAssumption
  <1>1. ~(n >= age) /\ ~(n >= age - 1)
    BY <1>0
  <1>2. CASE OnTarget(j, t) /\ q # <<>> /\ Tells(q[1], t) /\ n >= age - 2
    <2>1. ~lostReply
      BY <1>0, <1>2
    <2>2. QED
      BY <1>2, <2>1 DEF JawsDrains
  <1>3. CASE OnTarget(j, t) /\ Tells(p, t) /\ (q # <<>> => Tells(q[1], t))
    BY <1>3 DEF JawsDrains
  <1>4. QED
    BY <1>1, <1>2, <1>3 DEF JawsStage

-----------------------------------------------------------------------------
(* The inductive invariant. *)

JawsQueued ==
  /\ \A i \in 1..Len(jaws_queue) :
       i + 1 \in 1..Len(jaws_queue) /\ jaws_queue[i].kind = "calibrate"
         => jaws_queue[i + 1].kind = "stop"
  /\ jaws_queue # <<>> /\ jaws_plan.kind = "none" => jaws_queue[Len(jaws_queue)].kind = "stop"
  /\ jaws_queue # <<>> /\ jaws_plan.kind # "none" =>
       /\ jaws_queue[Len(jaws_queue)].kind = jaws_plan.kind
       /\ jaws_queue[Len(jaws_queue)].target = jaws_plan.target
       /\ jaws_settle.epoch # jaws_plan.epoch => jaws_settle.verdict = "running"
  /\ jaws_plan.epoch <= jaws_settle.epoch

(* A move that has left the queue is the one the settle machine waits for. *)
JawsAwaited ==
  jaws_queue = <<>> /\ jaws_plan.kind = "move" =>
    /\ jaws_settle.epoch # jaws_plan.epoch /\ jaws_settle.wait = "move"
    /\ jaws_gate.standing.pos = jaws_plan.target

(* Gripper and RT on the calibration: what is uncalibrated is not driven, and while only the
   RT still takes it for calibrated nothing stands. *)
JawsCalibrated ==
  /\ Sweeping(jaws_jaw)
  /\ jaws_rx # <<>> => jaws_rx[1].calibrated = jaws_jaw.calibrated
  /\ ~jaws_jaw.calibrated \/ ~jaws_reply.calibrated => JawsQuiet(jaws_jaw, jaws_drive.since)
  /\ ~jaws_jaw.calibrated /\ jaws_reply.calibrated =>
       /\ jaws_rx # <<>> /\ ~jaws_gate.standing.action /\ ~jaws_gate.standing.live
       /\ \/ jaws_losses >= 1
          \/ /\ jaws_settle.verdict = "running"
             /\ jaws_queue # <<>> => Head(jaws_queue).kind # "move"
             /\ jaws_queue = <<>> => jaws_plan.kind # "none"

(* The settle machine, the gate and the jaws on the move in hand. *)
JawsSettling ==
  /\ jaws_settle.wait = "move" => jaws_gate.standing.action /\ jaws_gate.standing.live
  /\ jaws_settle.wait = "move" /\ jaws_settle.verdict = "running" =>
       JawsStage(jaws_settle.age, jaws_losses, jaws_jaw, jaws_drive.since, jaws_reply, jaws_rx,
                 jaws_gate.standing.pos)
  /\ jaws_settle.verdict = "settled" =>
       jaws_settle.wait = "move" /\ jaws_settle.on = jaws_gate.standing.pos

(* A release not yet heard has cost a frame for every repeat it has used. *)
JawsReleasing ==
  jaws_gate.standing.live /\ ~jaws_gate.standing.action /\ jaws_jaw.cmd.action =>
    jaws_losses >= JawsRepeats - jaws_gate.repeats

JawsInv ==
  JawsTyped /\ JawsQueued /\ JawsAwaited /\ JawsCalibrated /\ JawsSettling /\ JawsReleasing
    /\ Jaws!SettledOnOwnTarget

-----------------------------------------------------------------------------
(* The tick, by its parts: the jaws after their cycle, the reply drained, what the command
   leaves, what is sent. *)

TickJaw == Jaws!FirmwareStep(jaws_jaw, Jaws!Aged(jaws_drive))

TickLeaves ==
  IF jaws_queue = <<>> THEN Jaws!Applied(jaws_gate, jaws_settle, FALSE)
  ELSE Jaws!ApplyGripper(Head(jaws_queue), jaws_gate, jaws_settle, jaws_reply, FALSE)

TickSends(r) ==
  IF TickLeaves.pending
  THEN Jaws!Sends([kind |-> "calibrate"], [standing |-> Jaws!NoCmd, repeats |-> 0])
  ELSE Jaws!GateTick(TickLeaves.gate, r.calibrated)

\* What a tick loses is counted, within the bound.
LEMMA JawsTickLosses ==
  ASSUME JawsTyped, NEW lf \in BOOLEAN, NEW lr \in BOOLEAN, Jaws!Tick(lf, lr)
  PROVE  /\ jaws_losses' \in Nat /\ jaws_losses' <= JawsLosses /\ jaws_losses' >= jaws_losses
         /\ lf \/ lr => jaws_losses' >= jaws_losses + 1
         /\ lf /\ lr => jaws_losses' >= jaws_losses + 2
         /\ lr => jaws_rx # <<>>
  <1>0. jaws_losses \in Nat /\ JawsLosses \in Nat
    BY JawsAssumption DEF JawsTyped
  <1>1. /\ jaws_losses' = jaws_losses + (IF lf THEN 1 ELSE 0) + (IF lr THEN 1 ELSE 0)
        /\ jaws_losses + (IF lf THEN 1 ELSE 0) + (IF lr THEN 1 ELSE 0) <= JawsLosses
        /\ lr => jaws_rx # <<>>
    BY DEF Jaws!Tick
  <1>2. QED
    BY <1>0, <1>1

\* What else a tick writes.
LEMMA JawsTickWrites ==
  ASSUME JawsTyped, NEW lf \in BOOLEAN, NEW lr \in BOOLEAN, Jaws!Tick(lf, lr)
  PROVE  /\ JawsDrains(jaws_reply', jaws_reply, jaws_rx, lr)
         /\ jaws_gate' = TickSends(jaws_reply').gate /\ jaws_pending' = FALSE
         /\ \E b \in BOOLEAN : jaws_settle' = Jaws!SettleTick(TickLeaves.settle, jaws_reply', b)
         /\ jaws_queue' = IF jaws_queue = <<>> THEN jaws_queue ELSE Tail(jaws_queue)
         /\ jaws_plan' = jaws_plan /\ jaws_done' = jaws_done
         /\ lf => /\ jaws_jaw' = TickJaw /\ jaws_rx' = <<>>
                  /\ jaws_drive' = Jaws!Aged(jaws_drive)
         /\ ~lf => /\ jaws_jaw' = Jaws!OnFrame(TickJaw, TickSends(jaws_reply').frame)
                   /\ jaws_drive' = [Jaws!Aged(jaws_drive) EXCEPT !.since = 0]
                   /\ jaws_rx' = <<Jaws!Answer(jaws_jaw', Jaws!Aged(jaws_drive))>>
  <1>0. jaws_pending = FALSE
    BY DEF JawsTyped
  <1> DEFINE r == IF jaws_rx # <<>> /\ ~lr THEN jaws_rx[1] ELSE jaws_reply
             heard == jaws_reply # Jaws!NoReply \/ r # Jaws!NoReply
             a == IF jaws_queue = <<>> THEN Jaws!Applied(jaws_gate, jaws_settle, jaws_pending)
                  ELSE Jaws!ApplyGripper(Head(jaws_queue), jaws_gate, jaws_settle, jaws_reply,
                                         jaws_pending)
             g == IF a.pending
                  THEN Jaws!Sends([kind |-> "calibrate"], [standing |-> Jaws!NoCmd, repeats |-> 0])
                  ELSE Jaws!GateTick(a.gate, r.calibrated)
             d == Jaws!Aged(jaws_drive)
             s == Jaws!FirmwareStep(jaws_jaw, d)
  <1>1. /\ jaws_reply' = r /\ jaws_gate' = g.gate /\ jaws_pending' = FALSE
        /\ jaws_settle' = Jaws!SettleTick(a.settle, r, heard)
        /\ jaws_queue' = IF jaws_queue = <<>> THEN jaws_queue ELSE Tail(jaws_queue)
        /\ jaws_plan' = jaws_plan /\ jaws_done' = jaws_done
    BY DEF Jaws!Tick
  <1>2. /\ lf => jaws_jaw' = s /\ jaws_rx' = <<>> /\ jaws_drive' = d
        /\ ~lf => /\ jaws_jaw' = Jaws!OnFrame(s, g.frame) /\ jaws_drive' = [d EXCEPT !.since = 0]
                  /\ jaws_rx' = <<Jaws!Answer(jaws_jaw', d)>>
    BY DEF Jaws!Tick
  <1>3. a = TickLeaves
    BY <1>0 DEF TickLeaves
  <1>4. g = TickSends(r)
    BY <1>3 DEF TickSends
  <1>5. JawsDrains(r, jaws_reply, jaws_rx, lr)
    BY DEF JawsDrains
  <1>6. s = TickJaw
    BY DEF TickJaw
  <1> HIDE DEF r, a, g, s
  <1>7. \E b \in BOOLEAN : jaws_settle' = Jaws!SettleTick(a.settle, r, b)
    <2>1. CASE heard
      <3>1. jaws_settle' = Jaws!SettleTick(a.settle, r, TRUE)
        BY <1>1, <2>1
      <3>2. QED
        BY <3>1
    <2>2. CASE ~heard
      <3>1. jaws_settle' = Jaws!SettleTick(a.settle, r, FALSE)
        <4>1. heard = FALSE
          BY <2>2
        <4>2. jaws_settle' = Jaws!SettleTick(a.settle, r, heard)
          BY <1>1
        <4> HIDE DEF heard
        <4>3. QED
          BY <4>1, <4>2, Zenon
      <3>2. QED
        BY <3>1
    <2>3. QED
      BY <2>1, <2>2
  <1> HIDE DEF heard, d
  <1>8. QED
    BY <1>1, <1>2, <1>3, <1>4, <1>5, <1>6, <1>7 DEF d

\* What the tick's command leaves.
LEMMA JawsTickLeaves ==
  ASSUME JawsTyped
  PROVE  /\ TickLeaves.gate \in JawGates /\ TickLeaves.settle \in JawSettles
         /\ TickLeaves.pending \in BOOLEAN
         /\ jaws_queue = <<>> => /\ TickLeaves.gate = jaws_gate /\ TickLeaves.pending = FALSE
                                 /\ TickLeaves.settle = jaws_settle
         /\ jaws_queue # <<>> =>
              /\ TickLeaves.settle.epoch = jaws_settle.epoch + 1
              /\ TickLeaves.settle.age = 0 /\ TickLeaves.settle.verdict = "running"
              /\ TickLeaves.settle.wait = "move" <=> Head(jaws_queue).kind = "move"
              /\ TickLeaves.pending <=> Head(jaws_queue).kind = "calibrate"
              /\ Head(jaws_queue).kind = "move" =>
                   /\ TickLeaves.gate.standing.action /\ TickLeaves.gate.standing.live
                   /\ TickLeaves.gate.standing.pos = Head(jaws_queue).target
              /\ Head(jaws_queue).kind \in {"stop", "idle"} =>
                   \/ TickLeaves.gate.standing.action /\ jaws_gate.standing.live
                   \/ /\ ~TickLeaves.gate.standing.action /\ TickLeaves.gate.repeats = JawsRepeats
                      /\ TickLeaves.gate.standing.live = jaws_gate.standing.live
  <1>0. /\ jaws_gate \in JawGates /\ jaws_settle \in JawSettles /\ jaws_reply \in JawReplies
        /\ jaws_queue \in Seq(JawRequests)
    BY DEF JawsTyped
  <1>1. CASE jaws_queue = <<>>
    <2>1. TickLeaves = Jaws!Applied(jaws_gate, jaws_settle, FALSE)
      BY <1>1 DEF TickLeaves
    <2>2. /\ TickLeaves.gate = jaws_gate /\ TickLeaves.pending = FALSE
          /\ TickLeaves.settle = jaws_settle
      BY <2>1 DEF Jaws!Applied
    <2>3. QED
      BY <1>0, <1>1, <2>2
  <1>2. CASE jaws_queue # <<>>
    <2> DEFINE c == Head(jaws_queue)
    <2>1. c \in JawRequests /\ c.kind \in JawVerbs /\ c.target \in Int
      <3>1. c \in JawRequests
        BY <1>0, <1>2
      <3> HIDE DEF c
      <3>2. QED
        BY <3>1 DEF JawRequests
    <2>2. TickLeaves = Jaws!ApplyGripper(c, jaws_gate, jaws_settle, jaws_reply, FALSE)
      BY <1>2 DEF TickLeaves
    <2> HIDE DEF c
    <2> DEFINE a == TickLeaves
    <2>3. a = Jaws!ApplyGripper(c, jaws_gate, jaws_settle, jaws_reply, FALSE)
      BY <2>2
    <2> HIDE DEF a
    <2>4. /\ a.gate \in JawGates /\ a.settle.epoch = jaws_settle.epoch + 1
          /\ c.kind = "move" => /\ JawsArmed(a.settle, "move") /\ a.pending = FALSE
                                /\ a.gate.standing = Jaws!Cmd(c.target, TRUE)
          /\ c.kind = "calibrate" => JawsArmed(a.settle, "calibrate") /\ a.pending = TRUE
          /\ c.kind \in {"stop", "idle"} =>
               /\ a.pending = FALSE
               /\ \/ /\ JawsArmed(a.settle, "hold") /\ a.gate.standing.action
                     /\ jaws_gate.standing.live
                  \/ /\ JawsArmed(a.settle, "idle") /\ ~a.gate.standing.action
                     /\ a.gate.repeats = JawsRepeats
                     /\ a.gate.standing.live = jaws_gate.standing.live
      <3>1. \A b : b = Jaws!ApplyGripper(c, jaws_gate, jaws_settle, jaws_reply, FALSE) =>
              JawsTook(c, jaws_gate, jaws_settle, jaws_reply, b)
        BY <1>0, <2>1, JawsApply
      <3>2. JawsTook(c, jaws_gate, jaws_settle, jaws_reply, a)
        BY <2>3, <3>1
      <3>3. QED
        BY <3>2 DEF JawsTook
    <2>5. CASE c.kind = "move"
      <3>1. /\ a.gate.standing.action /\ a.gate.standing.live
            /\ a.gate.standing.pos = c.target
        BY <2>4, <2>5 DEF Jaws!Cmd
      <3>2. QED
        BY <1>2, <2>4, <2>5, <3>1 DEF JawsArmed, a, c
    <2>6. CASE c.kind = "calibrate"
      BY <1>2, <2>4, <2>6 DEF JawsArmed, a, c
    <2>7. CASE c.kind \in {"stop", "idle"}
      <3>1. /\ a.settle \in JawSettles /\ a.settle.age = 0 /\ a.settle.verdict = "running"
            /\ a.settle.wait # "move" /\ a.pending = FALSE
        BY <2>4, <2>7 DEF JawsArmed
      <3>2. \/ a.gate.standing.action /\ jaws_gate.standing.live
            \/ /\ ~a.gate.standing.action /\ a.gate.repeats = JawsRepeats
               /\ a.gate.standing.live = jaws_gate.standing.live
        BY <2>4, <2>7
      <3>3. QED
        BY <1>2, <2>4, <2>7, <3>1, <3>2 DEF a, c
    <2>8. QED
      BY <2>1, <2>5, <2>6, <2>7 DEF JawVerbs
  <1>3. QED
    BY <1>1, <1>2

\* What the tick sends.
LEMMA JawsTickSends ==
  ASSUME JawsTyped, NEW r \in JawReplies
  PROVE  /\ TickSends(r).gate \in JawGates
         /\ TickSends(r).frame \in JawCommands \cup {JawsPoll, JawsCalibrate}
         /\ TickLeaves.pending => /\ TickSends(r).frame = JawsCalibrate
                                  /\ ~TickSends(r).gate.standing.action
                                  /\ ~TickSends(r).gate.standing.live
         /\ ~TickLeaves.pending =>
              /\ TickSends(r).gate.standing = TickLeaves.gate.standing
              /\ TickSends(r).frame # JawsCalibrate
              /\ TickLeaves.gate.standing.action /\ r.calibrated =>
                   TickSends(r).frame = TickLeaves.gate.standing
              /\ ~(TickLeaves.gate.standing.action /\ r.calibrated) =>
                   \/ /\ TickLeaves.gate.repeats > 0
                      /\ TickSends(r).gate.repeats = TickLeaves.gate.repeats - 1
                      /\ TickSends(r).frame \in JawCommands /\ ~TickSends(r).frame.action
                   \/ /\ TickLeaves.gate.repeats = 0 /\ TickSends(r).gate.repeats = 0
                      /\ TickSends(r).frame = JawsPoll
  <1>0. TickLeaves.gate \in JawGates /\ TickLeaves.pending \in BOOLEAN /\ r.calibrated \in BOOLEAN
    BY JawsTickLeaves DEF JawReplies
  <1>1. CASE TickLeaves.pending
    <2> DEFINE h == [standing |-> Jaws!NoCmd, repeats |-> 0]
    <2>1. TickSends(r) = Jaws!Sends(JawsCalibrate, h)
      BY <1>1 DEF TickSends, JawsCalibrate
    <2>2. h \in JawGates /\ ~h.standing.action /\ ~h.standing.live
      <3>1. Jaws!NoCmd \in JawCommands /\ ~Jaws!NoCmd.action /\ ~Jaws!NoCmd.live
        BY DEF Jaws!NoCmd, JawCommands
      <3>2. QED
        BY <3>1 DEF JawGates
    <2> HIDE DEF h
    <2>3. TickSends(r).frame = JawsCalibrate /\ TickSends(r).gate = h
      BY <2>1 DEF Jaws!Sends
    <2>4. QED
      BY <1>1, <2>2, <2>3
  <1>2. CASE ~TickLeaves.pending
    <2> DEFINE g == TickLeaves.gate  c == r.calibrated  f == TickSends(r)
    <2>1. f = Jaws!GateTick(g, c)
      BY <1>2 DEF TickSends
    <2>2. g \in JawGates /\ c \in BOOLEAN
      BY <1>0
    <2> HIDE DEF g, c, f
    <2>3. /\ f.gate \in JawGates /\ f.gate.standing = g.standing
          /\ g.standing.action /\ c => f.frame = g.standing
          /\ ~(g.standing.action /\ c) =>
               \/ /\ g.repeats > 0 /\ f.gate.repeats = g.repeats - 1
                  /\ f.frame \in JawCommands /\ ~f.frame.action
               \/ g.repeats = 0 /\ f.gate.repeats = 0 /\ f.frame = JawsPoll
      BY <2>1, <2>2, JawsGateTick
    <2>4. g.standing \in JawCommands
      BY <2>2 DEF JawGates
    <2>5. f.frame \in JawCommands \cup {JawsPoll} /\ f.frame # JawsCalibrate
      BY <2>3, <2>4, JawFrames, PollIsNoCalibration
    <2>6. QED
      BY <1>2, <2>3, <2>5 DEF g, c, f
  <1>3. QED
    BY <1>0, <1>1, <1>2

\* The gripper over a tick: one control cycle, then the tick's frame, if it arrives.
LEMMA JawsTickJaw ==
  ASSUME JawsInv, NEW lf \in BOOLEAN, NEW lr \in BOOLEAN, Jaws!Tick(lf, lr)
  PROVE  /\ TickJaw \in JawStates /\ TickJaw.cmd = jaws_jaw.cmd /\ Sweeping(TickJaw)
         /\ jaws_jaw.calibrated => TickJaw.calibrated
         /\ JawsQuiet(jaws_jaw, jaws_drive.since) => TickJaw.code = "moving"
         /\ jaws_reply' \in JawReplies /\ jaws_jaw' \in JawStates /\ jaws_drive' \in JawDrives
         /\ jaws_rx' \in Seq(JawReplies) /\ Len(jaws_rx') <= 1
         /\ jaws_jaw'.code = TickJaw.code /\ jaws_jaw'.judged = TickJaw.judged
         /\ lf => jaws_jaw' = TickJaw /\ jaws_rx' = <<>>
         /\ ~lf =>
              /\ jaws_drive'.since = 0 /\ jaws_rx' # <<>>
              /\ jaws_rx'[1].code = jaws_jaw'.code /\ jaws_rx'[1].judged = jaws_jaw'.judged
              /\ jaws_rx'[1].calibrated = jaws_jaw'.calibrated
              /\ TickSends(jaws_reply').frame \in JawCommands =>
                   /\ jaws_jaw'.cmd = TickSends(jaws_reply').frame /\ jaws_jaw'.left = 0
                   /\ jaws_jaw'.calibrated = TickJaw.calibrated
              /\ TickSends(jaws_reply').frame = JawsPoll => jaws_jaw' = TickJaw
              /\ TickSends(jaws_reply').frame = JawsCalibrate =>
                   /\ ~jaws_jaw'.cmd.action /\ jaws_jaw'.left > 0 /\ ~jaws_jaw'.calibrated
  <1>0. /\ jaws_jaw \in JawStates /\ jaws_drive \in JawDrives /\ jaws_rx \in Seq(JawReplies)
        /\ jaws_reply \in JawReplies /\ JawsTyped /\ Sweeping(jaws_jaw)
    BY DEF JawsInv, JawsTyped, JawsCalibrated
  <1>1. /\ JawsDrains(jaws_reply', jaws_reply, jaws_rx, lr)
        /\ lf => /\ jaws_jaw' = TickJaw /\ jaws_rx' = <<>>
                 /\ jaws_drive' = Jaws!Aged(jaws_drive)
        /\ ~lf => /\ jaws_jaw' = Jaws!OnFrame(TickJaw, TickSends(jaws_reply').frame)
                  /\ jaws_drive' = [Jaws!Aged(jaws_drive) EXCEPT !.since = 0]
                  /\ jaws_rx' = <<Jaws!Answer(jaws_jaw', Jaws!Aged(jaws_drive))>>
    BY <1>0, JawsTickWrites
  <1>2. jaws_reply' \in JawReplies
    <2>1. jaws_rx # <<>> => jaws_rx[1] \in JawReplies
      BY <1>0
    <2>2. QED
      BY <1>0, <1>1, <2>1 DEF JawsDrains
  <1>3. Jaws!Aged(jaws_drive) \in JawDrives
    <2> DEFINE d == jaws_drive
               n == IF d.since < JawsWatchdog THEN d.since + 1 ELSE d.since
               b == d.timeout \/ d.since + 1 = JawsWatchdog
    <2>1. Jaws!Aged(d) = [since |-> n, timeout |-> b]
      BY DEF Jaws!Aged
    <2>2. n \in Nat
      BY <1>0 DEF JawDrives
    <2> HIDE DEF n
    <2>3. CASE b
      <3>1. Jaws!Aged(d) = [since |-> n, timeout |-> TRUE]
        BY <2>1, <2>3
      <3>2. QED
        BY <2>2, <3>1 DEF JawDrives
    <2>4. CASE ~b
      <3>1. b = FALSE
        BY <2>4
      <3>2. Jaws!Aged(d) = [since |-> n, timeout |-> FALSE]
        BY <2>1, <3>1, Zenon
      <3>3. QED
        BY <2>2, <3>2 DEF JawDrives
    <2>5. QED
      BY <2>3, <2>4
  <1>4. /\ TickJaw \in JawStates /\ TickJaw.cmd = jaws_jaw.cmd /\ Sweeping(TickJaw)
        /\ jaws_jaw.calibrated => TickJaw.calibrated
        /\ JawsQuiet(jaws_jaw, jaws_drive.since) => TickJaw.code = "moving"
    <2>1. 0 \in Int
      OBVIOUS
    <2> DEFINE s == TickJaw
    <2>2. s = Jaws!FirmwareStep(jaws_jaw, Jaws!Aged(jaws_drive))
      BY DEF TickJaw
    <2> HIDE DEF s
    <2>3. /\ s \in JawStates /\ s.cmd = jaws_jaw.cmd
          /\ Sweeping(jaws_jaw) => Sweeping(s)
          /\ Sweeping(jaws_jaw) /\ jaws_jaw.calibrated => s.calibrated
          /\ JawsQuiet(jaws_jaw, jaws_drive.since) => s.code = "moving"
      BY <1>0, <2>1, <2>2, JawCycle
    <2>4. QED
      BY <1>0, <2>3 DEF s
  <1>5. CASE lf
    <2>1. jaws_drive' \in JawDrives
      BY <1>1, <1>3, <1>5
    <2>2. jaws_rx' \in Seq(JawReplies) /\ Len(jaws_rx') <= 1
      BY <1>1, <1>5
    <2>3. QED
      BY <1>1, <1>2, <1>4, <1>5, <2>1, <2>2
  <1>6. CASE ~lf
    <2> DEFINE d == Jaws!Aged(jaws_drive)
               f == TickSends(jaws_reply').frame
               s == TickJaw
               j == jaws_jaw'
               x == Jaws!Answer(j, d)
    <2>1. f \in JawCommands \cup {JawsPoll, JawsCalibrate}
      BY <1>0, <1>2, JawsTickSends
    <2>2. j = Jaws!OnFrame(s, f) /\ s \in JawStates /\ d \in JawDrives
      BY <1>1, <1>3, <1>4, <1>6
    <2>3. jaws_drive' \in JawDrives /\ jaws_drive'.since = 0
      <3>1. jaws_drive' = [d EXCEPT !.since = 0]
        BY <1>1, <1>6
      <3> HIDE DEF d
      <3>2. QED
        BY <2>2, <3>1 DEF JawDrives
    <2> HIDE DEF f, s, j, d
    <2>4. /\ j \in JawStates /\ j.code = s.code /\ j.judged = s.judged
          /\ f \in JawCommands => j.cmd = f /\ j.left = 0 /\ j.calibrated = s.calibrated
          /\ f = JawsPoll => j = s
          /\ f = JawsCalibrate =>
               j.cmd = Jaws!NoCmd /\ j.left = JawsSweep /\ ~j.calibrated
      BY <2>1, <2>2, JawTakesFrame
    <2>5. x \in JawReplies /\ x.code = j.code /\ x.judged = j.judged /\ x.calibrated = j.calibrated
      BY <2>2, <2>4, JawAnswers
    <2>6. jaws_rx' = <<x>>
      BY <1>1, <1>6 DEF j, d
    <2> HIDE DEF x
    <2>7. jaws_rx' \in Seq(JawReplies) /\ Len(jaws_rx') <= 1 /\ jaws_rx' # <<>> /\ jaws_rx'[1] = x
      BY <2>5, <2>6
    <2>8. f = JawsCalibrate => ~j.cmd.action /\ j.left > 0 /\ ~j.calibrated
      <3>1. ~Jaws!NoCmd.action /\ JawsSweep > 0
        BY JawsAssumption DEF Jaws!NoCmd
      <3>2. QED
        BY <2>4, <3>1
    <2>9. QED
      BY <1>2, <1>4, <1>6, <2>3, <2>4, <2>5, <2>7, <2>8 DEF f, s, j
  <1>7. QED
    BY <1>5, <1>6

\* The settle machine over a tick.
LEMMA JawsTickSettle ==
  ASSUME JawsInv, NEW lf \in BOOLEAN, NEW lr \in BOOLEAN, Jaws!Tick(lf, lr)
  PROVE  /\ jaws_settle' \in JawSettles /\ jaws_settle'.wait = TickLeaves.settle.wait
         /\ jaws_settle'.epoch = TickLeaves.settle.epoch
         /\ TickLeaves.settle.verdict # "running" => jaws_settle' = TickLeaves.settle
         /\ TickLeaves.settle.verdict = "running" => jaws_settle'.age = TickLeaves.settle.age + 1
         /\ TickLeaves.settle.verdict = "running" /\ jaws_settle'.verdict = "settled" =>
              /\ TickLeaves.settle.wait = "move" /\ TickLeaves.settle.age >= JawsGrace
              /\ jaws_reply'.code # "moving" /\ jaws_settle'.on = jaws_reply'.judged
         /\ jaws_queue # <<>> => jaws_settle'.verdict = "running"
  <1> DEFINE s == TickLeaves.settle  r == jaws_reply'  x == jaws_settle'
  <1>0. JawsTyped
    BY DEF JawsInv
  <1>1. s \in JawSettles /\ (jaws_queue # <<>> => s.age = 0 /\ s.verdict = "running")
    BY <1>0, JawsTickLeaves
  <1>2. r \in JawReplies
    BY JawsTickJaw
  <1>3. PICK b \in BOOLEAN : x = Jaws!SettleTick(s, r, b)
    BY <1>0, JawsTickWrites
  <1> HIDE DEF s, r, x
  <1>4. /\ x \in JawSettles /\ x.wait = s.wait /\ x.epoch = s.epoch
        /\ s.verdict # "running" => x = s
        /\ s.verdict = "running" => x.age = s.age + 1
        /\ s.verdict = "running" /\ x.verdict = "settled" =>
             s.wait = "move" /\ s.age >= JawsGrace /\ r.code # "moving" /\ x.on = r.judged
        /\ s.verdict = "running" /\ s.age = 0 => x.verdict = "running"
    BY <1>1, <1>2, <1>3, JawsSettleTick
  <1>5. QED
    BY <1>1, <1>4 DEF s, r, x

\* The queue loses its head.
LEMMA JawsTickQueue ==
  ASSUME JawsInv, NEW lf \in BOOLEAN, NEW lr \in BOOLEAN, Jaws!Tick(lf, lr)
  PROVE  JawsQueued'
  <1>0. JawsTyped /\ JawsQueued /\ jaws_queue \in Seq(JawRequests) /\ jaws_settle.epoch \in Nat
        /\ jaws_plan.epoch \in Nat
    BY DEF JawsInv, JawsTyped, JawSettles, JawPlans
  <1>1. /\ jaws_queue' = IF jaws_queue = <<>> THEN jaws_queue ELSE Tail(jaws_queue)
        /\ jaws_plan' = jaws_plan
    BY <1>0, JawsTickWrites
  <1>2. /\ jaws_settle'.epoch = TickLeaves.settle.epoch
        /\ jaws_queue # <<>> => jaws_settle'.verdict = "running"
    BY JawsTickSettle
  <1>3. CASE jaws_queue = <<>>
    <2>1. TickLeaves.settle = jaws_settle
      BY <1>0, <1>3, JawsTickLeaves
    <2>2. jaws_queue' = <<>> /\ jaws_settle'.epoch = jaws_settle.epoch
      BY <1>1, <1>2, <1>3, <2>1
    <2>3. QED
      BY <1>0, <1>1, <2>2 DEF JawsQueued
  <1>4. CASE jaws_queue # <<>>
    <2> DEFINE q == jaws_queue  w == jaws_queue'  n == Len(q)
    <2>1. w = Tail(q) /\ n \in Nat /\ n > 0
      BY <1>0, <1>1, <1>4
    <2>2. Len(w) = n - 1 /\ w \in Seq(JawRequests) /\ \A i \in 1..Len(w) : w[i] = q[i + 1]
      BY <1>0, <1>4, <2>1
    <2>3. TickLeaves.settle.epoch = jaws_settle.epoch + 1
      BY <1>0, <1>4, JawsTickLeaves
    <2>4. jaws_plan'.epoch <= jaws_settle'.epoch
      <3>1. jaws_plan.epoch <= jaws_settle.epoch
        BY <1>0 DEF JawsQueued
      <3>2. QED
        BY <1>0, <1>1, <1>2, <2>3, <3>1
    <2>5. \A i \in 1..Len(w) :
            i + 1 \in 1..Len(w) /\ w[i].kind = "calibrate" => w[i + 1].kind = "stop"
      <3>1. SUFFICES ASSUME NEW i \in 1..Len(w), i + 1 \in 1..Len(w), w[i].kind = "calibrate"
                     PROVE  w[i + 1].kind = "stop"
        OBVIOUS
      <3>2. w[i] = q[i + 1] /\ w[i + 1] = q[i + 1 + 1]
        BY <2>2, <3>1
      <3>3. i + 1 \in 1..n /\ i + 1 + 1 \in 1..n
        BY <2>1, <2>2, <3>1
      <3>4. \A k \in 1..Len(q) : k + 1 \in 1..Len(q) /\ q[k].kind = "calibrate" => q[k + 1].kind = "stop"
        BY <1>0 DEF JawsQueued
      <3>5. QED
        BY <3>1, <3>2, <3>3, <3>4
    <2>6. w # <<>> => w[Len(w)] = q[Len(q)]
      <3>1. w # <<>> => Len(w) \in 1..Len(w)
        BY <2>2
      <3>2. Len(w) + 1 = Len(q)
        BY <2>1, <2>2
      <3>3. QED
        BY <2>2, <3>1, <3>2
    <2> HIDE DEF q, w, n
    <2>7. /\ w # <<>> /\ jaws_plan.kind = "none" => w[Len(w)].kind = "stop"
          /\ w # <<>> /\ jaws_plan.kind # "none" =>
               w[Len(w)].kind = jaws_plan.kind /\ w[Len(w)].target = jaws_plan.target
      <3>1. /\ jaws_plan.kind = "none" => q[Len(q)].kind = "stop"
            /\ jaws_plan.kind # "none" =>
                 q[Len(q)].kind = jaws_plan.kind /\ q[Len(q)].target = jaws_plan.target
        BY <1>0, <1>4 DEF JawsQueued, q
      <3>2. QED
        BY <2>6, <3>1
    <2>8. QED
      BY <1>1, <1>2, <1>4, <2>4, <2>5, <2>7 DEF JawsQueued, w
  <1>5. QED
    BY <1>3, <1>4

\* A move that leaves the queue is the one the settle machine is armed for.
LEMMA JawsTickAwaits ==
  ASSUME JawsInv, NEW lf \in BOOLEAN, NEW lr \in BOOLEAN, Jaws!Tick(lf, lr)
  PROVE  JawsAwaited'
  <1>0. /\ JawsTyped /\ JawsQueued /\ JawsAwaited /\ jaws_queue \in Seq(JawRequests)
        /\ jaws_settle.epoch \in Nat /\ jaws_plan.epoch \in Nat
    BY DEF JawsInv, JawsTyped, JawSettles, JawPlans
  <1>1. /\ jaws_queue' = IF jaws_queue = <<>> THEN jaws_queue ELSE Tail(jaws_queue)
        /\ jaws_plan' = jaws_plan /\ jaws_gate' = TickSends(jaws_reply').gate
    BY <1>0, JawsTickWrites
  <1>2. /\ jaws_settle'.epoch = TickLeaves.settle.epoch
        /\ jaws_settle'.wait = TickLeaves.settle.wait
    BY JawsTickSettle
  <1>3. SUFFICES ASSUME jaws_queue' = <<>>, jaws_plan.kind = "move"
                 PROVE  /\ jaws_settle'.epoch # jaws_plan.epoch /\ jaws_settle'.wait = "move"
                        /\ jaws_gate'.standing.pos = jaws_plan.target
    BY <1>1 DEF JawsAwaited
  <1>4. jaws_reply' \in JawReplies
    BY JawsTickJaw
  <1>5. ~TickLeaves.pending => jaws_gate'.standing = TickLeaves.gate.standing
    BY <1>0, <1>1, <1>4, JawsTickSends
  <1>6. CASE jaws_queue = <<>>
    <2>1. TickLeaves.gate = jaws_gate /\ TickLeaves.pending = FALSE /\ TickLeaves.settle = jaws_settle
      BY <1>0, <1>6, JawsTickLeaves
    <2>2. QED
      BY <1>0, <1>2, <1>3, <1>5, <1>6, <2>1 DEF JawsAwaited
  <1>7. CASE jaws_queue # <<>>
    <2>1. Tail(jaws_queue) = <<>>
      BY <1>1, <1>3, <1>7
    <2>2. Len(jaws_queue) = 1 /\ Head(jaws_queue) = jaws_queue[1]
      <3>1. Len(Tail(jaws_queue)) = Len(jaws_queue) - 1 /\ Len(jaws_queue) \in Nat
        BY <1>0, <1>7
      <3>2. Len(Tail(jaws_queue)) = 0
        <4>1. Len(<<>>) = 0
          OBVIOUS
        <4>2. QED
          BY <2>1, <4>1, Zenon
      <3>3. Head(jaws_queue) = jaws_queue[1]
        BY <1>0, <1>7
      <3>4. QED
        BY <3>1, <3>2, <3>3
    <2>3. Head(jaws_queue).kind = "move" /\ Head(jaws_queue).target = jaws_plan.target
      <3>1. /\ jaws_queue[Len(jaws_queue)].kind = "move"
            /\ jaws_queue[Len(jaws_queue)].target = jaws_plan.target
        BY <1>0, <1>3, <1>7 DEF JawsQueued
      <3>2. QED
        BY <2>2, <3>1
    <2>4. /\ TickLeaves.settle.epoch = jaws_settle.epoch + 1 /\ TickLeaves.settle.wait = "move"
          /\ ~TickLeaves.pending /\ TickLeaves.gate.standing.pos = Head(jaws_queue).target
      BY <1>0, <1>7, <2>3, JawsTickLeaves
    <2>5. jaws_plan.epoch <= jaws_settle.epoch
      BY <1>0 DEF JawsQueued
    <2>6. jaws_settle'.epoch # jaws_plan.epoch
      BY <1>0, <1>2, <2>4, <2>5
    <2>7. QED
      BY <1>2, <1>5, <2>3, <2>4, <2>6
  <1>8. QED
    BY <1>6, <1>7

\* While only the RT takes the gripper for calibrated, no tick tells it to act: the answer that
\* says otherwise is due, and one loss is all there may be.
LEMMA JawsUncalibratedIdle ==
  ASSUME JawsInv, NEW lf \in BOOLEAN, NEW lr \in BOOLEAN, Jaws!Tick(lf, lr),
         ~jaws_jaw.calibrated, jaws_reply'.calibrated
  PROVE  /\ jaws_losses' >= 1 /\ ~lf
         /\ ~jaws_gate'.standing.action /\ ~jaws_gate'.standing.live
         /\ ~TickLeaves.pending => ~TickLeaves.gate.standing.action
  <1>0. /\ JawsTyped /\ JawsCalibrated /\ jaws_queue \in Seq(JawRequests) /\ jaws_losses \in Nat
        /\ JawsLosses \in 0..1
    BY JawsAssumption DEF JawsInv, JawsTyped
  <1>1. JawsDrains(jaws_reply', jaws_reply, jaws_rx, lr) /\ jaws_gate' = TickSends(jaws_reply').gate
    BY <1>0, JawsTickWrites
  <1>2. jaws_rx # <<>> => ~jaws_rx[1].calibrated
    BY <1>0 DEF JawsCalibrated
  <1>3. jaws_reply' = jaws_reply /\ (jaws_rx # <<>> => lr)
    BY <1>1, <1>2 DEF JawsDrains
  <1>4. /\ jaws_rx # <<>> /\ ~jaws_gate.standing.action /\ ~jaws_gate.standing.live
        /\ \/ jaws_losses >= 1
           \/ jaws_queue # <<>> => Head(jaws_queue).kind # "move"
    BY <1>0, <1>3 DEF JawsCalibrated
  <1>5. /\ jaws_losses' \in Nat /\ jaws_losses' <= JawsLosses
        /\ lr => jaws_losses' >= jaws_losses + 1
        /\ lf /\ lr => jaws_losses' >= jaws_losses + 2
    BY <1>0, JawsTickLosses
  <1>6. lr
    BY <1>3, <1>4
  <1>7. jaws_losses' >= 1 /\ ~lf /\ ~(jaws_losses >= 1)
    BY <1>0, <1>5, <1>6
  <1>8. jaws_queue # <<>> => Head(jaws_queue).kind # "move"
    BY <1>4, <1>7
  <1>9. ~TickLeaves.pending => ~TickLeaves.gate.standing.action /\ ~TickLeaves.gate.standing.live
    <2>1. CASE jaws_queue = <<>>
      <3>1. TickLeaves.gate = jaws_gate
        BY <1>0, <2>1, JawsTickLeaves
      <3>2. QED
        BY <1>4, <3>1
    <2>2. CASE jaws_queue # <<>>
      <3>1. Head(jaws_queue).kind \in JawVerbs
        <4>1. Head(jaws_queue) \in JawRequests
          BY <1>0, <2>2
        <4>2. QED
          BY <4>1 DEF JawRequests
      <3>2. ~TickLeaves.pending => Head(jaws_queue).kind # "calibrate"
        BY <1>0, <2>2, JawsTickLeaves
      <3>3. ~TickLeaves.pending => Head(jaws_queue).kind \in {"stop", "idle"}
        BY <1>8, <2>2, <3>1, <3>2 DEF JawVerbs
      <3>4. Head(jaws_queue).kind \in {"stop", "idle"} =>
                   \/ TickLeaves.gate.standing.action /\ jaws_gate.standing.live
                   \/ /\ ~TickLeaves.gate.standing.action
                      /\ TickLeaves.gate.standing.live = jaws_gate.standing.live
        BY <1>0, <2>2, JawsTickLeaves
      <3>5. QED
        BY <1>4, <3>3, <3>4
    <2>3. QED
      BY <2>1, <2>2
  <1>10. ~jaws_gate'.standing.action /\ ~jaws_gate'.standing.live
    <2>1. jaws_reply' \in JawReplies
      BY JawsTickJaw
    <2>2. /\ TickLeaves.pending => ~jaws_gate'.standing.action /\ ~jaws_gate'.standing.live
          /\ ~TickLeaves.pending => jaws_gate'.standing = TickLeaves.gate.standing
      BY <1>0, <1>1, <2>1, JawsTickSends
    <2>3. QED
      BY <1>9, <2>2
  <1>11. QED
    BY <1>7, <1>9, <1>10

\* Gripper and RT stay of one mind on the calibration, or nothing is driven.
LEMMA JawsTickCalibrated ==
  ASSUME JawsInv, NEW lf \in BOOLEAN, NEW lr \in BOOLEAN, Jaws!Tick(lf, lr)
  PROVE  JawsCalibrated'
  <1>0. /\ JawsTyped /\ JawsCalibrated /\ JawsQueued /\ jaws_queue \in Seq(JawRequests)
        /\ jaws_jaw \in JawStates /\ jaws_reply \in JawReplies
    BY DEF JawsInv, JawsTyped
  <1>1. /\ JawsDrains(jaws_reply', jaws_reply, jaws_rx, lr)
        /\ jaws_gate' = TickSends(jaws_reply').gate
        /\ jaws_queue' = IF jaws_queue = <<>> THEN jaws_queue ELSE Tail(jaws_queue)
        /\ jaws_plan' = jaws_plan
    BY <1>0, JawsTickWrites
  <1> DEFINE f == TickSends(jaws_reply').frame
  <1>2. /\ TickJaw \in JawStates /\ TickJaw.cmd = jaws_jaw.cmd /\ Sweeping(TickJaw)
        /\ jaws_jaw.calibrated => TickJaw.calibrated
        /\ JawsQuiet(jaws_jaw, jaws_drive.since) => TickJaw.code = "moving"
        /\ jaws_reply' \in JawReplies /\ jaws_jaw'.code = TickJaw.code
        /\ lf => jaws_jaw' = TickJaw /\ jaws_rx' = <<>>
        /\ ~lf =>
              /\ jaws_drive'.since = 0 /\ jaws_rx' # <<>>
              /\ jaws_rx'[1].calibrated = jaws_jaw'.calibrated
              /\ f \in JawCommands => /\ jaws_jaw'.cmd = f /\ jaws_jaw'.left = 0
                                      /\ jaws_jaw'.calibrated = TickJaw.calibrated
              /\ f = JawsPoll => jaws_jaw' = TickJaw
              /\ f = JawsCalibrate =>
                   /\ ~jaws_jaw'.cmd.action /\ jaws_jaw'.left > 0 /\ ~jaws_jaw'.calibrated
    BY JawsTickJaw
  <1>3. /\ f \in JawCommands \cup {JawsPoll, JawsCalibrate}
        /\ f = JawsCalibrate => TickLeaves.pending
        /\ TickLeaves.pending => /\ f = JawsCalibrate /\ ~jaws_gate'.standing.action
                                 /\ ~jaws_gate'.standing.live
        /\ ~TickLeaves.pending /\ ~(TickLeaves.gate.standing.action /\ jaws_reply'.calibrated) =>
             f = JawsPoll \/ (f \in JawCommands /\ ~f.action)
    BY <1>0, <1>1, <1>2, JawsTickSends
  <1> HIDE DEF f
  <1>4. Sweeping(jaws_jaw)'
    <2>1. Sweeping(jaws_jaw')
      BY <1>2, <1>3 DEF Sweeping
    <2>2. QED
      BY <2>1 DEF Sweeping
  <1>5. jaws_rx' # <<>> => jaws_rx'[1].calibrated = jaws_jaw'.calibrated
    BY <1>2
  <1>6. ASSUME ~jaws_jaw'.calibrated \/ ~jaws_reply'.calibrated
        PROVE  JawsQuiet(jaws_jaw', jaws_drive'.since)
    <2>1. CASE ~lf /\ f = JawsCalibrate
      BY <1>2, <2>1 DEF JawsQuiet
    <2>2. CASE ~(~lf /\ f = JawsCalibrate)
      <3>1. jaws_jaw'.calibrated = TickJaw.calibrated
        BY <1>2, <1>3, <2>2
      <3>2. JawsQuiet(jaws_jaw, jaws_drive.since)
        <4>1. ~jaws_reply'.calibrated => ~jaws_jaw.calibrated \/ ~jaws_reply.calibrated
          BY <1>0, <1>1 DEF JawsCalibrated, JawsDrains
        <4>2. ~jaws_jaw'.calibrated => ~jaws_jaw.calibrated
          BY <1>2, <3>1
        <4>3. QED
          BY <1>0, <1>6, <4>1, <4>2 DEF JawsCalibrated
      <3>3. TickJaw.code = "moving" /\ ~TickJaw.cmd.action
        BY <1>2, <3>2 DEF JawsQuiet
      <3>4. CASE lf
        BY <1>2, <3>3, <3>4 DEF JawsQuiet
      <3>5. CASE ~lf
        <4>1. ~TickLeaves.pending
          BY <1>3, <2>2, <3>5
        <4>2. ~(TickLeaves.gate.standing.action /\ jaws_reply'.calibrated)
          <5>1. CASE ~jaws_reply'.calibrated
            BY <5>1
          <5>2. CASE jaws_reply'.calibrated
            <6>1. ~jaws_jaw.calibrated
              BY <1>2, <1>6, <3>1, <5>2
            <6>2. QED
              BY <4>1, <5>2, <6>1, JawsUncalibratedIdle
          <5>3. QED
            BY <5>1, <5>2
        <4>3. f = JawsPoll \/ (f \in JawCommands /\ ~f.action)
          BY <1>3, <4>1, <4>2
        <4>4. ~jaws_jaw'.cmd.action
          BY <1>2, <3>3, <3>5, <4>3
        <4>5. QED
          BY <1>2, <3>3, <4>4 DEF JawsQuiet
      <3>6. QED
        BY <3>4, <3>5
    <2>3. QED
      BY <2>1, <2>2
  <1>7. ASSUME ~jaws_jaw'.calibrated, jaws_reply'.calibrated
        PROVE  /\ jaws_rx' # <<>> /\ ~jaws_gate'.standing.action /\ ~jaws_gate'.standing.live
               /\ \/ jaws_losses' >= 1
                  \/ /\ jaws_settle'.verdict = "running"
                     /\ jaws_queue' # <<>> => Head(jaws_queue').kind # "move"
                     /\ jaws_queue' = <<>> => jaws_plan'.kind # "none"
    <2>1. CASE ~jaws_jaw.calibrated
      <3>1. /\ jaws_losses' >= 1 /\ ~lf
            /\ ~jaws_gate'.standing.action /\ ~jaws_gate'.standing.live
        BY <1>7, <2>1, JawsUncalibratedIdle
      <3>2. QED
        BY <1>2, <3>1
    <2>2. CASE jaws_jaw.calibrated
      <3>1. ~lf /\ f = JawsCalibrate
        <4>1. TickJaw.calibrated
          BY <1>2, <2>2
        <4>2. ~lf
          BY <1>2, <1>7, <4>1
        <4>3. QED
          BY <1>2, <1>3, <1>7, <4>1, <4>2
      <3>2. TickLeaves.pending
        BY <1>3, <3>1
      <3>3. jaws_queue # <<>>
        BY <1>0, <3>2, JawsTickLeaves
      <3>4. Head(jaws_queue).kind = "calibrate"
        BY <1>0, <3>2, <3>3, JawsTickLeaves
      <3>5. jaws_settle'.verdict = "running"
        BY <3>3, JawsTickSettle
      <3>6. /\ Head(jaws_queue) = jaws_queue[1] /\ jaws_queue' = Tail(jaws_queue)
            /\ Len(jaws_queue) \in Nat /\ Len(jaws_queue) > 0
        BY <1>0, <1>1, <3>3
      <3>7. CASE jaws_queue' = <<>>
        <4>1. Len(jaws_queue) = 1
          <5>1. Len(Tail(jaws_queue)) = Len(jaws_queue) - 1
            BY <1>0, <3>3
          <5>2. Len(Tail(jaws_queue)) = 0
            <6>1. Len(<<>>) = 0 /\ Tail(jaws_queue) = <<>>
              BY <3>6, <3>7
            <6>2. QED
              BY <6>1, Zenon
          <5>3. QED
            BY <3>6, <5>1, <5>2
        <4>2. jaws_queue[Len(jaws_queue)].kind = "calibrate"
          BY <3>4, <3>6, <4>1
        <4>3. jaws_plan.kind # "none"
          BY <1>0, <3>3, <4>2 DEF JawsQueued
        <4>4. QED
          BY <1>1, <1>2, <1>3, <3>1, <3>2, <3>5, <3>7, <4>3
      <3>8. CASE jaws_queue' # <<>>
        <4>1. Len(jaws_queue) > 1 /\ Head(Tail(jaws_queue)) = jaws_queue[1 + 1]
          BY <1>0, <3>3, <3>6, <3>8
        <4>2. 1 \in 1..Len(jaws_queue) /\ 1 + 1 \in 1..Len(jaws_queue)
          BY <3>6, <4>1
        <4>3. jaws_queue[1].kind = "calibrate"
          BY <3>4, <3>6
        <4>4. \A i \in 1..Len(jaws_queue) :
                i + 1 \in 1..Len(jaws_queue) /\ jaws_queue[i].kind = "calibrate"
                  => jaws_queue[i + 1].kind = "stop"
          BY <1>0 DEF JawsQueued
        <4>5. jaws_queue[1 + 1].kind = "stop"
          BY <4>2, <4>3, <4>4
        <4>6. Head(jaws_queue').kind # "move"
          BY <3>6, <4>1, <4>5
        <4>7. QED
          BY <1>1, <1>2, <1>3, <3>1, <3>2, <3>5, <3>8, <4>6
      <3>9. QED
        BY <3>7, <3>8
    <2>3. QED
      BY <2>1, <2>2
  <1>8. QED
    BY <1>4, <1>5, <1>6, <1>7 DEF JawsCalibrated, Sweeping, JawsQuiet

\* The move in hand comes one stage nearer, and is settled on its own target only.
LEMMA JawsTickSettles ==
  ASSUME JawsInv, NEW lf \in BOOLEAN, NEW lr \in BOOLEAN, Jaws!Tick(lf, lr)
  PROVE  JawsSettling'
  <1>0. /\ JawsTyped /\ JawsCalibrated /\ JawsSettling /\ jaws_queue \in Seq(JawRequests)
        /\ jaws_jaw \in JawStates /\ jaws_reply \in JawReplies /\ jaws_losses \in Nat
        /\ jaws_drive \in JawDrives
    BY DEF JawsInv, JawsTyped
  <1>1. /\ JawsDrains(jaws_reply', jaws_reply, jaws_rx, lr)
        /\ jaws_gate' = TickSends(jaws_reply').gate
    BY <1>0, JawsTickWrites
  <1> DEFINE f == TickSends(jaws_reply').frame
             m == TickLeaves.settle
             h == TickLeaves.gate
             t == TickLeaves.gate.standing.pos
  <1>2. /\ TickJaw \in JawStates /\ TickJaw.cmd = jaws_jaw.cmd
        /\ JawsQuiet(jaws_jaw, jaws_drive.since) => TickJaw.code = "moving"
        /\ jaws_reply' \in JawReplies
        /\ jaws_jaw' \in JawStates /\ jaws_jaw'.code = TickJaw.code
        /\ jaws_jaw'.judged = TickJaw.judged
        /\ lf => jaws_jaw' = TickJaw /\ jaws_rx' = <<>>
        /\ ~lf =>
              /\ jaws_drive'.since = 0 /\ jaws_rx' # <<>>
              /\ jaws_rx'[1].code = jaws_jaw'.code /\ jaws_rx'[1].judged = jaws_jaw'.judged
              /\ f \in JawCommands => jaws_jaw'.cmd = f /\ jaws_jaw'.left = 0
              /\ f = JawsPoll => jaws_jaw' = TickJaw
    BY JawsTickJaw
  <1>3. /\ ~TickLeaves.pending => jaws_gate'.standing = h.standing
        /\ ~TickLeaves.pending /\ h.standing.action /\ jaws_reply'.calibrated => f = h.standing
        /\ ~TickLeaves.pending /\ ~(h.standing.action /\ jaws_reply'.calibrated) =>
             f = JawsPoll \/ (f \in JawCommands /\ ~f.action)
    BY <1>0, <1>1, <1>2, JawsTickSends
  <1>4. /\ h \in JawGates /\ m \in JawSettles
        /\ jaws_queue = <<>> => h = jaws_gate /\ TickLeaves.pending = FALSE /\ m = jaws_settle
        /\ jaws_queue # <<>> =>
             /\ m.age = 0 /\ m.verdict = "running"
             /\ m.wait = "move" <=> Head(jaws_queue).kind = "move"
             /\ TickLeaves.pending <=> Head(jaws_queue).kind = "calibrate"
             /\ Head(jaws_queue).kind = "move" => h.standing.action /\ h.standing.live
    BY <1>0, JawsTickLeaves
  <1>5. /\ jaws_settle'.wait = m.wait
        /\ m.verdict # "running" => jaws_settle' = m
        /\ m.verdict = "running" => jaws_settle'.age = m.age + 1
        /\ m.verdict = "running" /\ jaws_settle'.verdict = "settled" =>
             /\ m.wait = "move" /\ m.age >= JawsGrace
             /\ jaws_reply'.code # "moving" /\ jaws_settle'.on = jaws_reply'.judged
    BY JawsTickSettle
  <1>6. h.standing \in JawCommands /\ t \in Int /\ h.standing.pos = t /\ m.age \in Nat
    <2>1. h.standing \in JawCommands
      BY <1>4 DEF JawGates
    <2>2. QED
      BY <1>4, <2>1 DEF JawCommands, JawSettles
  <1> HIDE DEF f, m, h, t
  <1>7. m.wait = "move" => ~TickLeaves.pending /\ h.standing.action /\ h.standing.live
    <2>1. CASE jaws_queue = <<>>
      BY <1>0, <1>4, <2>1 DEF JawsSettling
    <2>2. CASE jaws_queue # <<>>
      BY <1>4, <2>2
    <2>3. QED
      BY <2>1, <2>2
  <1>8. /\ jaws_losses' \in Nat /\ jaws_losses' <= JawsLosses /\ jaws_losses' >= jaws_losses
        /\ lf \/ lr => jaws_losses' >= jaws_losses + 1
        /\ lf /\ lr => jaws_losses' >= jaws_losses + 2
    BY <1>0, JawsTickLosses
  <1>9. ASSUME m.wait = "move", m.verdict = "running"
        PROVE  JawsStage(m.age, jaws_losses, jaws_jaw, jaws_drive.since, jaws_reply, jaws_rx, t)
    <2>1. CASE jaws_queue = <<>>
      <3>1. m = jaws_settle /\ t = jaws_gate.standing.pos
        BY <1>4, <1>6, <2>1
      <3>2. QED
        BY <1>0, <1>9, <3>1 DEF JawsSettling
    <2>2. CASE jaws_queue # <<>>
      <3>1. jaws_losses >= m.age
        BY <1>0, <1>4, <2>2
      <3>2. QED
        BY <3>1 DEF JawsStage
    <2>3. QED
      BY <2>1, <2>2
  <1>10. ASSUME m.wait = "move", m.verdict = "running"
         PROVE  JawsStage(m.age + 1, jaws_losses', jaws_jaw', jaws_drive'.since, jaws_reply',
                          jaws_rx', t)
    <2>1. NextOnTarget(jaws_jaw, jaws_drive.since, t) => OnTarget(TickJaw, t)
      <3>1. Sweeping(jaws_jaw)
        BY <1>0 DEF JawsCalibrated
      <3> DEFINE s == TickJaw
      <3>2. s = Jaws!FirmwareStep(jaws_jaw, Jaws!Aged(jaws_drive))
        BY DEF TickJaw
      <3> HIDE DEF s
      <3>3. Sweeping(jaws_jaw) /\ NextOnTarget(jaws_jaw, jaws_drive.since, t) => OnTarget(s, t)
        BY <1>0, <1>6, <3>2, JawCycle
      <3>4. QED
        BY <3>1, <3>3 DEF s
    <2>2. ~TickLeaves.pending /\ h.standing.action
      BY <1>7, <1>10
    <2>3. ~lf => /\ NextOnTarget(jaws_jaw', jaws_drive'.since, t)
                 /\ OnTarget(TickJaw, t) => OnTarget(jaws_jaw', t)
      <3>1. SUFFICES ASSUME ~lf
                     PROVE  /\ NextOnTarget(jaws_jaw', jaws_drive'.since, t)
                            /\ OnTarget(TickJaw, t) => OnTarget(jaws_jaw', t)
        OBVIOUS
      <3>2. CASE jaws_reply'.calibrated
        <4>1. f = h.standing
          BY <1>3, <2>2, <3>2
        <4>2. /\ jaws_jaw'.cmd = h.standing /\ jaws_jaw'.left = 0
              /\ jaws_drive'.since = 0
          BY <1>2, <1>6, <3>1, <4>1
        <4>3. HeadedFor(jaws_jaw', t)
          BY <1>6, <4>2 DEF HeadedFor
        <4>4. QED
          BY <1>2, <2>2, <4>2, <4>3 DEF NextOnTarget, OnTarget, Tells
      <3>3. CASE ~jaws_reply'.calibrated
        <4>1. ~jaws_jaw.calibrated \/ ~jaws_reply.calibrated
          BY <1>0, <1>1, <3>3 DEF JawsCalibrated, JawsDrains
        <4>2. JawsQuiet(jaws_jaw, jaws_drive.since)
          BY <1>0, <4>1 DEF JawsCalibrated
        <4>3. jaws_jaw'.code = "moving" /\ ~TickJaw.cmd.action
          BY <1>2, <4>2 DEF JawsQuiet
        <4>4. f = JawsPoll \/ (f \in JawCommands /\ ~f.action)
          BY <1>3, <2>2, <3>3
        <4>5. ~jaws_jaw'.cmd.action
          BY <1>2, <3>1, <4>3, <4>4
        <4>6. QED
          BY <4>3, <4>5 DEF NextOnTarget, OnTarget, Tells, HeadedFor
      <3>4. QED
        BY <3>2, <3>3
    <2>4. ~lf => jaws_rx' # <<>> /\ (OnTarget(jaws_jaw', t) => Tells(jaws_rx'[1], t))
      BY <1>2 DEF OnTarget, Tells
    <2>5. JawsStage(m.age, jaws_losses, jaws_jaw, jaws_drive.since, jaws_reply, jaws_rx, t)
      BY <1>9, <1>10
    <2>6. lf => jaws_jaw' = TickJaw /\ jaws_rx' = <<>>
      BY <1>2
    <2> DEFINE n == jaws_losses  n2 == jaws_losses'  j == jaws_jaw  j2 == jaws_jaw'
               silent == jaws_drive.since  silent2 == jaws_drive'.since  p == jaws_reply
               r == jaws_reply'  q == jaws_rx  q2 == jaws_rx'  s == TickJaw  age == m.age
    <2>7. /\ age \in Nat /\ n \in Nat /\ n2 \in Nat /\ t \in Int
          /\ JawsStage(age, n, j, silent, p, q, t) /\ JawsDrains(r, p, q, lr)
          /\ n2 >= n /\ (lf \/ lr => n2 >= n + 1) /\ (lf /\ lr => n2 >= n + 2)
          /\ NextOnTarget(j, silent, t) => OnTarget(s, t)
          /\ lf => j2 = s /\ q2 = <<>>
          /\ ~lf => /\ q2 # <<>> /\ NextOnTarget(j2, silent2, t)
                    /\ OnTarget(s, t) => OnTarget(j2, t)
                    /\ OnTarget(j2, t) => Tells(q2[1], t)
      BY <1>0, <1>1, <1>6, <1>8, <2>1, <2>3, <2>4, <2>5, <2>6
    <2> HIDE DEF n, n2, j, j2, silent, silent2, p, r, q, q2, s, age
    <2>8. JawsStage(age + 1, n2, j2, silent2, r, q2, t)
      BY <2>7, JawsStageStep
    <2>9. QED
      BY <2>8 DEF n2, j2, silent2, r, q2, age
  <1>11. ASSUME jaws_settle'.verdict = "settled"
         PROVE  jaws_settle'.wait = "move" /\ jaws_settle'.on = jaws_gate'.standing.pos
    <2>1. CASE m.verdict # "running"
      <3>1. jaws_queue = <<>> /\ jaws_settle' = jaws_settle
        BY <1>4, <1>5, <2>1
      <3>2. jaws_settle.wait = "move" /\ jaws_settle.on = jaws_gate.standing.pos
        BY <1>0, <1>11, <3>1 DEF JawsSettling
      <3>3. jaws_gate'.standing = jaws_gate.standing
        BY <1>3, <1>4, <3>1
      <3>4. QED
        BY <3>1, <3>2, <3>3
    <2>2. CASE m.verdict = "running"
      <3>1. /\ m.wait = "move" /\ m.age >= JawsGrace
            /\ jaws_reply'.code # "moving" /\ jaws_settle'.on = jaws_reply'.judged
        BY <1>5, <1>11, <2>2
      <3>2. JawsStage(m.age, jaws_losses, jaws_jaw, jaws_drive.since, jaws_reply, jaws_rx, t)
        BY <1>9, <2>2, <3>1
      <3> DEFINE n == jaws_losses  n2 == jaws_losses'  j == jaws_jaw
                 silent == jaws_drive.since  p == jaws_reply
                 r == jaws_reply'  q == jaws_rx  age == m.age
      <3>3. /\ age \in Nat /\ n \in Nat /\ n2 \in Nat /\ t \in Int
            /\ JawsStage(age, n, j, silent, p, q, t) /\ JawsDrains(r, p, q, lr)
            /\ n2 >= n /\ (lr => n2 >= n + 1) /\ n2 <= JawsLosses /\ age >= JawsGrace
        BY <1>0, <1>1, <1>6, <1>8, <3>1, <3>2
      <3> HIDE DEF n, n2, j, silent, p, r, q, age
      <3>4. Tells(r, t)
        BY <3>3, JawsStageJudges
      <3>5. jaws_reply'.judged = t
        BY <3>1, <3>4 DEF Tells, r
      <3>6. jaws_gate'.standing.pos = t
        BY <1>3, <1>6, <1>7, <3>1
      <3>7. QED
        BY <1>5, <3>1, <3>5, <3>6
    <2>3. QED
      BY <2>1, <2>2
  <1>12. ASSUME jaws_settle'.wait = "move", jaws_settle'.verdict = "running"
         PROVE  JawsStage(jaws_settle'.age, jaws_losses', jaws_jaw', jaws_drive'.since,
                          jaws_reply', jaws_rx', jaws_gate'.standing.pos)
    <2>1. m.wait = "move" /\ m.verdict = "running"
      BY <1>5, <1>12
    <2>2. jaws_settle'.age = m.age + 1 /\ jaws_gate'.standing.pos = t
      BY <1>3, <1>5, <1>6, <1>7, <2>1
    <2>3. JawsStage(m.age + 1, jaws_losses', jaws_jaw', jaws_drive'.since, jaws_reply',
                          jaws_rx', t)
      BY <1>10, <2>1
    <2>4. QED
      BY <2>2, <2>3
  <1>13. jaws_settle'.wait = "move" => jaws_gate'.standing.action /\ jaws_gate'.standing.live
    BY <1>3, <1>5, <1>7
  <1>14. QED
    BY <1>11, <1>12, <1>13 DEF JawsSettling, JawsStage, NextOnTarget, OnTarget, HeadedFor, Tells

\* A release that is not heard costs a frame.
LEMMA JawsTickReleases ==
  ASSUME JawsInv, NEW lf \in BOOLEAN, NEW lr \in BOOLEAN, Jaws!Tick(lf, lr)
  PROVE  JawsReleasing'
  <1>0. /\ JawsTyped /\ JawsReleasing /\ jaws_queue \in Seq(JawRequests) /\ jaws_losses \in Nat
        /\ JawsRepeats \in Nat /\ JawsRepeats > 0
    BY JawsAssumption DEF JawsInv, JawsTyped
  <1>1. jaws_gate' = TickSends(jaws_reply').gate
    BY <1>0, JawsTickWrites
  <1> DEFINE f == TickSends(jaws_reply').frame
             h == TickLeaves.gate
             k == jaws_gate'
  <1>2. /\ TickJaw.cmd = jaws_jaw.cmd /\ jaws_reply' \in JawReplies
        /\ lf => jaws_jaw' = TickJaw
        /\ ~lf => /\ f \in JawCommands => jaws_jaw'.cmd = f
                  /\ f = JawsPoll => jaws_jaw' = TickJaw
    BY JawsTickJaw
  <1>3. /\ TickLeaves.pending => ~k.standing.live
        /\ ~TickLeaves.pending => k.standing = h.standing
        /\ ~TickLeaves.pending /\ ~(h.standing.action /\ jaws_reply'.calibrated) =>
             \/ /\ h.repeats > 0 /\ k.repeats = h.repeats - 1
                /\ f \in JawCommands /\ ~f.action
             \/ h.repeats = 0 /\ k.repeats = 0 /\ f = JawsPoll
    BY <1>0, <1>1, <1>2, JawsTickSends
  <1>4. /\ h \in JawGates
        /\ jaws_queue = <<>> => h = jaws_gate
        /\ jaws_queue # <<>> =>
             /\ TickLeaves.pending <=> Head(jaws_queue).kind = "calibrate"
             /\ Head(jaws_queue).kind = "move" => h.standing.action
             /\ Head(jaws_queue).kind \in {"stop", "idle"} =>
                   h.standing.action \/ h.repeats = JawsRepeats
    BY <1>0, JawsTickLeaves
  <1>5. /\ jaws_losses' \in Nat /\ jaws_losses' >= jaws_losses
        /\ lf => jaws_losses' >= jaws_losses + 1
    BY <1>0, JawsTickLosses
  <1>6. h.repeats \in Nat
    BY <1>4 DEF JawGates
  <1> HIDE DEF f, h, k
  <1>7. SUFFICES ASSUME k.standing.live, ~k.standing.action, jaws_jaw'.cmd.action
                 PROVE  jaws_losses' >= JawsRepeats - k.repeats
    BY DEF JawsReleasing, k
  <1>8. ~TickLeaves.pending /\ h.standing = k.standing
    BY <1>3, <1>7
  <1>9. \/ h.repeats > 0 /\ k.repeats = h.repeats - 1 /\ f \in JawCommands /\ ~f.action
        \/ h.repeats = 0 /\ k.repeats = 0 /\ f = JawsPoll
    BY <1>3, <1>7, <1>8
  <1>10. jaws_jaw.cmd.action /\ (h.repeats > 0 => lf)
    BY <1>2, <1>7, <1>9
  <1>11. jaws_losses >= JawsRepeats - h.repeats
    <2>1. CASE jaws_queue = <<>>
      <3>1. h = jaws_gate
        BY <1>4, <2>1
      <3>2. QED
        BY <1>0, <1>7, <1>8, <1>10, <3>1 DEF JawsReleasing
    <2>2. CASE jaws_queue # <<>>
      <3>1. Head(jaws_queue).kind \in JawVerbs
        <4>1. Head(jaws_queue) \in JawRequests
          BY <1>0, <2>2
        <4>2. QED
          BY <4>1 DEF JawRequests
      <3>2. h.repeats = JawsRepeats
        BY <1>4, <1>7, <1>8, <2>2, <3>1 DEF JawVerbs
      <3>3. QED
        BY <1>0, <3>2
    <2>3. QED
      BY <2>1, <2>2
  <1>12. CASE h.repeats > 0
    <2>1. k.repeats = h.repeats - 1 /\ jaws_losses' >= jaws_losses + 1
      BY <1>5, <1>9, <1>10, <1>12
    <2>2. QED
      BY <1>0, <1>5, <1>6, <1>11, <2>1
  <1>13. CASE h.repeats = 0
    <2>1. k.repeats = 0
      BY <1>9, <1>13
    <2>2. QED
      BY <1>0, <1>5, <1>11, <1>13, <2>1
  <1>14. QED
    BY <1>6, <1>12, <1>13

\* The tick keeps the invariant.
LEMMA JawsTickStep ==
  ASSUME JawsInv, NEW lf \in BOOLEAN, NEW lr \in BOOLEAN, Jaws!Tick(lf, lr)
  PROVE  JawsInv'
  <1>0. JawsTyped /\ jaws_queue \in Seq(JawRequests) /\ jaws_plan \in JawPlans
    BY DEF JawsInv, JawsTyped
  <1>1. /\ jaws_queue' = IF jaws_queue = <<>> THEN jaws_queue ELSE Tail(jaws_queue)
        /\ jaws_plan' = jaws_plan /\ jaws_done' = jaws_done /\ jaws_pending' = FALSE
        /\ jaws_gate' = TickSends(jaws_reply').gate
    BY <1>0, JawsTickWrites
  <1>2. jaws_queue' \in Seq(JawRequests)
    BY <1>0, <1>1
  <1>3. /\ jaws_reply' \in JawReplies /\ jaws_jaw' \in JawStates /\ jaws_drive' \in JawDrives
        /\ jaws_rx' \in Seq(JawReplies) /\ Len(jaws_rx') <= 1
    BY JawsTickJaw
  <1>4. jaws_gate' \in JawGates
    BY <1>0, <1>1, <1>3, JawsTickSends
  <1>5. jaws_settle' \in JawSettles
    BY JawsTickSettle
  <1>6. jaws_losses' \in Nat /\ jaws_losses' <= JawsLosses
    BY <1>0, JawsTickLosses
  <1>7. JawsTyped'
    BY <1>0, <1>1, <1>2, <1>3, <1>4, <1>5, <1>6 DEF JawsTyped
  <1>8. Jaws!SettledOnOwnTarget'
    BY <1>1 DEF JawsInv, Jaws!SettledOnOwnTarget
  <1>9. QED
    BY <1>7, <1>8, JawsTickQueue, JawsTickAwaits, JawsTickCalibrated, JawsTickSettles,
       JawsTickReleases DEF JawsInv

\* A command is appended to the queue.
LEMMA JawsAppends ==
  ASSUME NEW q \in Seq(JawRequests), NEW c \in JawRequests, NEW w, w = Append(q, c)
  PROVE  /\ w \in Seq(JawRequests) /\ w # <<>> /\ Len(w) = Len(q) + 1 /\ w[Len(w)] = c
         /\ \A i \in 1..Len(q) : w[i] = q[i]
         /\ Head(w) = IF q = <<>> THEN c ELSE Head(q)
  <1>1. /\ w \in Seq(JawRequests) /\ w # <<>> /\ Len(w) = Len(q) + 1 /\ w[Len(w)] = c
        /\ \A i \in 1..Len(q) : w[i] = q[i]
    OBVIOUS
  <1>2. Head(w) = w[1]
    BY <1>1
  <1>3. CASE q = <<>>
    <2>1. Len(q) = 0
      BY <1>3
    <2>2. QED
      BY <1>1, <1>2, <1>3, <2>1
  <1>4. CASE q # <<>>
    <2>1. 1 \in 1..Len(q) /\ Head(q) = q[1]
      BY <1>4
    <2>2. QED
      BY <1>1, <1>2, <1>4, <2>1
  <1>5. QED
    BY <1>1, <1>3, <1>4

\* The calibrations of a queue that grows by one are still followed by a stop.
LEMMA JawsOrderKept ==
  ASSUME NEW q \in Seq(JawRequests), NEW c \in JawRequests, NEW w, w = Append(q, c),
         \A i \in 1..Len(q) :
           i + 1 \in 1..Len(q) /\ q[i].kind = "calibrate" => q[i + 1].kind = "stop",
         q # <<>> => q[Len(q)].kind # "calibrate" \/ c.kind = "stop"
  PROVE  \A i \in 1..Len(w) :
           i + 1 \in 1..Len(w) /\ w[i].kind = "calibrate" => w[i + 1].kind = "stop"
  <1>1. SUFFICES ASSUME NEW i \in 1..Len(w), i + 1 \in 1..Len(w), w[i].kind = "calibrate"
                 PROVE  w[i + 1].kind = "stop"
    OBVIOUS
  <1>2. /\ Len(w) = Len(q) + 1 /\ w[Len(w)] = c /\ \A k \in 1..Len(q) : w[k] = q[k]
        /\ Len(q) \in Nat
    BY JawsAppends
  <1>3. i \in 1..Len(q) /\ w[i] = q[i] /\ q # <<>>
    <2>1. i \in 1..Len(q)
      BY <1>1, <1>2
    <2>2. QED
      BY <1>2, <2>1
  <1>4. CASE i = Len(q)
    BY <1>1, <1>2, <1>3, <1>4
  <1>5. CASE i # Len(q)
    <2>1. i + 1 \in 1..Len(q)
      BY <1>2, <1>3, <1>5
    <2>2. w[i + 1] = q[i + 1]
      BY <1>2, <2>1
    <2>3. QED
      BY <1>1, <1>3, <2>1, <2>2
  <1>6. QED
    BY <1>4, <1>5

\* What the planner's actions leave alone keeps its part of the invariant.
LEMMA JawsPlannerKeeps ==
  ASSUME JawsInv,
         /\ jaws_gate' = jaws_gate /\ jaws_settle' = jaws_settle /\ jaws_pending' = jaws_pending
         /\ jaws_reply' = jaws_reply /\ jaws_rx' = jaws_rx /\ jaws_jaw' = jaws_jaw
         /\ jaws_drive' = jaws_drive /\ jaws_losses' = jaws_losses
  PROVE  /\ JawsSettling' /\ JawsReleasing'
         /\ jaws_plan' \in JawPlans /\ jaws_queue' \in Seq(JawRequests) => JawsTyped'
         /\ ((~jaws_jaw.calibrated /\ jaws_reply.calibrated /\ ~(jaws_losses >= 1)
               /\ jaws_settle.verdict = "running"
               /\ (jaws_queue # <<>> => Head(jaws_queue).kind # "move")
               /\ (jaws_queue = <<>> => jaws_plan.kind # "none")) =>
              /\ jaws_queue' # <<>> => Head(jaws_queue').kind # "move"
              /\ jaws_queue' = <<>> => jaws_plan'.kind # "none")
              => JawsCalibrated'
  <1>1. JawsSettling' /\ JawsReleasing'
    BY DEF JawsInv, JawsSettling, JawsReleasing, JawsStage, NextOnTarget, OnTarget, HeadedFor, Tells
  <1>2. jaws_plan' \in JawPlans /\ jaws_queue' \in Seq(JawRequests) => JawsTyped'
    BY DEF JawsInv, JawsTyped
  <1>3. Sweeping(jaws_jaw)' /\ (JawsQuiet(jaws_jaw, jaws_drive.since) => JawsQuiet(jaws_jaw, jaws_drive.since)')
    BY DEF JawsInv, JawsCalibrated, Sweeping, JawsQuiet
  <1>4. JawsCalibrated
    BY DEF JawsInv
  <1>5. QED
    BY <1>1, <1>2, <1>3, <1>4 DEF JawsCalibrated

\* An action is started.
LEMMA JawsStart ==
  ASSUME JawsInv, NEW kind \in JawVerbs, NEW target \in Jaws!Bytes \cup {-1},
         Jaws!StartAction(kind, target)
  PROVE  JawsInv'
  <1>0. /\ JawsTyped /\ JawsQueued /\ jaws_queue \in Seq(JawRequests) /\ jaws_settle \in JawSettles
        /\ jaws_settle.epoch \in Nat
    BY DEF JawsInv, JawsTyped, JawSettles
  <1> DEFINE c == [kind |-> kind, target |-> target]
  <1>1. /\ jaws_plan.kind = "none"
        /\ jaws_plan' = [kind |-> kind, target |-> target, epoch |-> jaws_settle.epoch]
        /\ jaws_queue' = Append(jaws_queue, c)
        /\ jaws_gate' = jaws_gate /\ jaws_settle' = jaws_settle /\ jaws_pending' = jaws_pending
        /\ jaws_reply' = jaws_reply /\ jaws_rx' = jaws_rx /\ jaws_jaw' = jaws_jaw
        /\ jaws_drive' = jaws_drive /\ jaws_losses' = jaws_losses /\ jaws_done' = jaws_done
    BY DEF Jaws!StartAction
  <1>2. target \in Int
    BY JawsAssumption DEF Jaws!Bytes
  <1>3. /\ c \in JawRequests /\ c.kind = kind /\ c.target = target
        /\ jaws_plan' \in JawPlans /\ jaws_plan'.kind = kind /\ jaws_plan'.target = target
        /\ jaws_plan'.epoch = jaws_settle.epoch
    BY <1>0, <1>1, <1>2 DEF JawRequests, JawPlans
  <1> HIDE DEF c
  <1> DEFINE q == jaws_queue  w == jaws_queue'
  <1>4. w = Append(q, c) /\ q \in Seq(JawRequests)
    BY <1>0, <1>1
  <1>5. /\ \A i \in 1..Len(q) :
             i + 1 \in 1..Len(q) /\ q[i].kind = "calibrate" => q[i + 1].kind = "stop"
        /\ q # <<>> => q[Len(q)].kind = "stop"
    BY <1>0, <1>1 DEF JawsQueued
  <1>d. kind # "none"
    BY DEF JawVerbs
  <1> HIDE DEF q, w
  <1>6. /\ w \in Seq(JawRequests) /\ w # <<>> /\ w[Len(w)] = c
        /\ Head(w) = IF q = <<>> THEN c ELSE Head(q)
    BY <1>3, <1>4, JawsAppends
  <1>7. \A i \in 1..Len(w) :
          i + 1 \in 1..Len(w) /\ w[i].kind = "calibrate" => w[i + 1].kind = "stop"
    <2>1. q # <<>> => q[Len(q)].kind # "calibrate" \/ c.kind = "stop"
      BY <1>5
    <2>2. QED
      BY <1>3, <1>4, <1>5, <2>1, JawsOrderKept
  <1>8. JawsQueued'
    <2>1. jaws_plan'.epoch <= jaws_settle'.epoch /\ jaws_settle'.epoch = jaws_plan'.epoch
      BY <1>0, <1>1, <1>3
    <2>2. QED
      BY <1>3, <1>d, <1>6, <1>7, <2>1 DEF JawsQueued, w
  <1>9. JawsAwaited'
    BY <1>6 DEF JawsAwaited, w
  <1>10. /\ JawsSettling' /\ JawsReleasing' /\ JawsTyped'
    BY <1>1, <1>3, <1>6, JawsPlannerKeeps DEF w
  <1>11. JawsCalibrated'
    <2>1. q # <<>> => Head(w) = Head(q)
      BY <1>6
    <2>2. (~jaws_jaw.calibrated /\ jaws_reply.calibrated /\ ~(jaws_losses >= 1)
               /\ jaws_settle.verdict = "running"
               /\ (jaws_queue # <<>> => Head(jaws_queue).kind # "move")
               /\ (jaws_queue = <<>> => jaws_plan.kind # "none")) =>
              /\ jaws_queue' # <<>> => Head(jaws_queue').kind # "move"
              /\ jaws_queue' = <<>> => jaws_plan'.kind # "none"
      BY <1>1, <1>6, <2>1 DEF q, w
    <2>3. QED
      BY <1>1, <2>2, JawsPlannerKeeps
  <1>12. Jaws!SettledOnOwnTarget'
    BY <1>1 DEF JawsInv, Jaws!SettledOnOwnTarget
  <1>13. QED
    BY <1>8, <1>9, <1>10, <1>11, <1>12 DEF JawsInv

\* An action is cancelled.
LEMMA JawsCancel ==
  ASSUME JawsInv, Jaws!CancelAction
  PROVE  JawsInv'
  <1>0. /\ JawsTyped /\ JawsQueued /\ jaws_queue \in Seq(JawRequests) /\ jaws_settle \in JawSettles
        /\ jaws_settle.epoch \in Nat
    BY DEF JawsInv, JawsTyped, JawSettles
  <1> DEFINE c == [kind |-> "stop", target |-> -1]
  <1>1. /\ jaws_plan' = Jaws!NoPlan /\ jaws_queue' = Append(jaws_queue, c)
        /\ jaws_gate' = jaws_gate /\ jaws_settle' = jaws_settle /\ jaws_pending' = jaws_pending
        /\ jaws_reply' = jaws_reply /\ jaws_rx' = jaws_rx /\ jaws_jaw' = jaws_jaw
        /\ jaws_drive' = jaws_drive /\ jaws_losses' = jaws_losses /\ jaws_done' = jaws_done
    BY DEF Jaws!CancelAction
  <1>2. c \in JawRequests /\ c.kind = "stop"
    BY DEF JawRequests, JawVerbs
  <1>3. jaws_plan' \in JawPlans /\ jaws_plan'.kind = "none" /\ jaws_plan'.epoch = 0
    BY <1>1 DEF JawPlans, Jaws!NoPlan
  <1> HIDE DEF c
  <1> DEFINE q == jaws_queue  w == jaws_queue'
  <1>4. w = Append(q, c) /\ q \in Seq(JawRequests)
    BY <1>0, <1>1
  <1>5. \A i \in 1..Len(q) :
             i + 1 \in 1..Len(q) /\ q[i].kind = "calibrate" => q[i + 1].kind = "stop"
    BY <1>0 DEF JawsQueued
  <1> HIDE DEF q, w
  <1>6. /\ w \in Seq(JawRequests) /\ w # <<>> /\ w[Len(w)] = c
        /\ Head(w) = IF q = <<>> THEN c ELSE Head(q)
    BY <1>2, <1>4, JawsAppends
  <1>7. \A i \in 1..Len(w) :
          i + 1 \in 1..Len(w) /\ w[i].kind = "calibrate" => w[i + 1].kind = "stop"
    <2>1. q # <<>> => q[Len(q)].kind # "calibrate" \/ c.kind = "stop"
      BY <1>2
    <2>2. QED
      BY <1>2, <1>4, <1>5, <2>1, JawsOrderKept
  <1>8. JawsQueued'
    <2>1. jaws_plan'.epoch <= jaws_settle'.epoch
      BY <1>0, <1>1, <1>3
    <2>2. QED
      BY <1>2, <1>3, <1>6, <1>7, <2>1 DEF JawsQueued, w
  <1>9. JawsAwaited'
    BY <1>6 DEF JawsAwaited, w
  <1>10. /\ JawsSettling' /\ JawsReleasing' /\ JawsTyped'
    BY <1>1, <1>3, <1>6, JawsPlannerKeeps DEF w
  <1>11. JawsCalibrated'
    <2>1. (~jaws_jaw.calibrated /\ jaws_reply.calibrated /\ ~(jaws_losses >= 1)
               /\ jaws_settle.verdict = "running"
               /\ (jaws_queue # <<>> => Head(jaws_queue).kind # "move")
               /\ (jaws_queue = <<>> => jaws_plan.kind # "none")) =>
              /\ jaws_queue' # <<>> => Head(jaws_queue').kind # "move"
              /\ jaws_queue' = <<>> => jaws_plan'.kind # "none"
      BY <1>2, <1>6 DEF q, w
    <2>2. QED
      BY <1>1, <2>1, JawsPlannerKeeps
  <1>12. Jaws!SettledOnOwnTarget'
    BY <1>1 DEF JawsInv, Jaws!SettledOnOwnTarget
  <1>13. QED
    BY <1>8, <1>9, <1>10, <1>11, <1>12 DEF JawsInv

\* A verdict is polled: the queue is empty by then, and the verdict is on this action.
LEMMA JawsPolls ==
  ASSUME JawsInv, Jaws!PollAction
  PROVE  JawsInv'
  <1>0. /\ JawsTyped /\ JawsQueued /\ JawsAwaited /\ JawsSettling /\ Jaws!SettledOnOwnTarget
        /\ jaws_settle.epoch \in Nat
    BY DEF JawsInv, JawsTyped, JawSettles
  <1>1. /\ jaws_plan.kind # "none" /\ jaws_settle.epoch # jaws_plan.epoch
        /\ jaws_settle.verdict # "running" /\ jaws_plan' = Jaws!NoPlan /\ jaws_queue' = jaws_queue
        /\ jaws_done' = IF jaws_plan.kind = "move" /\ jaws_settle.verdict = "settled"
                        THEN [target |-> jaws_plan.target, on |-> jaws_settle.on] ELSE jaws_done
        /\ jaws_gate' = jaws_gate /\ jaws_settle' = jaws_settle /\ jaws_pending' = jaws_pending
        /\ jaws_reply' = jaws_reply /\ jaws_rx' = jaws_rx /\ jaws_jaw' = jaws_jaw
        /\ jaws_drive' = jaws_drive /\ jaws_losses' = jaws_losses
    BY DEF Jaws!PollAction
  <1>2. jaws_queue = <<>>
    BY <1>0, <1>1 DEF JawsQueued
  <1>3. jaws_plan' \in JawPlans /\ jaws_plan'.kind = "none" /\ jaws_plan'.epoch = 0
    BY <1>1 DEF JawPlans, Jaws!NoPlan
  <1>4. JawsQueued'
    <2>1. jaws_plan'.epoch <= jaws_settle'.epoch
      BY <1>0, <1>1, <1>3
    <2>2. jaws_queue' = <<>>
      BY <1>1, <1>2
    <2>3. QED
      BY <1>3, <2>1, <2>2 DEF JawsQueued
  <1>5. JawsAwaited'
    BY <1>3 DEF JawsAwaited
  <1>6. JawsSettling' /\ JawsReleasing' /\ JawsTyped'
    <2>1. jaws_queue' \in Seq(JawRequests)
      BY <1>0, <1>1 DEF JawsTyped
    <2>2. QED
      BY <1>1, <1>3, <2>1, JawsPlannerKeeps
  <1>7. JawsCalibrated'
    BY <1>1, JawsPlannerKeeps
  <1>8. Jaws!SettledOnOwnTarget'
    <2>1. CASE jaws_plan.kind = "move" /\ jaws_settle.verdict = "settled"
      <3>1. jaws_settle.on = jaws_plan.target
        BY <1>0, <1>2, <2>1 DEF JawsAwaited, JawsSettling
      <3>2. jaws_done' = [target |-> jaws_plan.target, on |-> jaws_settle.on]
        BY <1>1, <2>1
      <3>3. QED
        BY <3>1, <3>2 DEF Jaws!SettledOnOwnTarget
    <2>2. CASE ~(jaws_plan.kind = "move" /\ jaws_settle.verdict = "settled")
      BY <1>0, <1>1, <2>2 DEF Jaws!SettledOnOwnTarget
    <2>3. QED
      BY <2>1, <2>2
  <1>9. QED
    BY <1>4, <1>5, <1>6, <1>7, <1>8 DEF JawsInv

\* A watchdog fault is cleared.
LEMMA JawsClears ==
  ASSUME JawsInv, Jaws!ClearError
  PROVE  JawsInv'
  <1>1. /\ jaws_drive' = [jaws_drive EXCEPT !.timeout = FALSE] /\ jaws_plan' = jaws_plan
        /\ jaws_queue' = jaws_queue /\ jaws_gate' = jaws_gate /\ jaws_settle' = jaws_settle
        /\ jaws_pending' = jaws_pending /\ jaws_reply' = jaws_reply /\ jaws_rx' = jaws_rx
        /\ jaws_jaw' = jaws_jaw /\ jaws_losses' = jaws_losses /\ jaws_done' = jaws_done
    BY DEF Jaws!ClearError
  <1>2. jaws_drive' \in JawDrives /\ jaws_drive'.since = jaws_drive.since
    BY <1>1 DEF JawsInv, JawsTyped, JawDrives
  <1>3. JawsTyped'
    BY <1>1, <1>2 DEF JawsInv, JawsTyped
  <1>4. JawsQueued' /\ JawsAwaited' /\ JawsReleasing' /\ Jaws!SettledOnOwnTarget'
    BY <1>1 DEF JawsInv, JawsQueued, JawsAwaited, JawsReleasing, Jaws!SettledOnOwnTarget
  <1>5. JawsCalibrated'
    BY <1>1, <1>2 DEF JawsInv, JawsCalibrated, Sweeping, JawsQuiet
  <1>6. JawsSettling'
    BY <1>1, <1>2
    DEF JawsInv, JawsSettling, JawsStage, NextOnTarget, OnTarget, HeadedFor, Tells
  <1>7. QED
    BY <1>3, <1>4, <1>5, <1>6 DEF JawsInv

\* The invariant holds at first.
LEMMA JawsInitially ==
  ASSUME Jaws!Init
  PROVE  JawsInv
  <1>1. /\ jaws_plan = Jaws!NoPlan /\ jaws_queue = <<>> /\ jaws_pending = FALSE
        /\ jaws_gate = [standing |-> Jaws!NoCmd, repeats |-> 0]
        /\ jaws_settle = [wait |-> "none", age |-> 0, closing |-> FALSE, streak |-> 0,
                          verdict |-> "unarmed", epoch |-> 0, on |-> -1]
        /\ jaws_reply = Jaws!NoReply /\ jaws_rx = <<>>
        /\ jaws_drive = [since |-> 0, timeout |-> FALSE]
        /\ jaws_losses = 0 /\ jaws_done = [target |-> -1, on |-> -1]
    BY DEF Jaws!Init
  <1>2. jaws_jaw \in [pos : {0, JawsClosed}, cmd : {Jaws!NoCmd}, calibrated : BOOLEAN, left : {0},
              code : {"moving"}, latched : {FALSE}, judged : {-1},
              close : {o[1] : o \in JawsObstacles}, open : {o[2] : o \in JawsObstacles}]
    BY DEF Jaws!Init
  <1>3. Jaws!NoCmd \in JawCommands /\ ~Jaws!NoCmd.action /\ ~Jaws!NoCmd.live
    BY DEF Jaws!NoCmd, JawCommands
  <1>4. /\ jaws_jaw \in JawStates /\ ~jaws_jaw.cmd.action /\ jaws_jaw.left = 0
        /\ jaws_jaw.code = "moving"
    <2> DEFINE closes == {o[1] : o \in JawsObstacles}
               opens == {o[2] : o \in JawsObstacles}
               at == {0, JawsClosed}
               m == -1
               z == 0
    <2>1. closes \subseteq Int /\ opens \subseteq Int /\ at \subseteq Int /\ m \in Int /\ z \in Nat
      BY JawsAssumption
    <2>2. jaws_jaw \in [pos : at, cmd : {Jaws!NoCmd}, calibrated : BOOLEAN, left : {z},
              code : {"moving"}, latched : {FALSE}, judged : {m}, close : closes, open : opens]
      BY <1>2
    <2> HIDE DEF closes, opens, at, m, z
    <2>3. /\ jaws_jaw.cmd = Jaws!NoCmd /\ jaws_jaw.left = z /\ jaws_jaw.code = "moving"
          /\ jaws_jaw.judged = m /\ jaws_jaw.pos \in at /\ jaws_jaw.close \in closes
          /\ jaws_jaw.open \in opens /\ jaws_jaw.calibrated \in BOOLEAN
          /\ jaws_jaw.latched \in BOOLEAN
      BY <2>2
    <2>4. jaws_jaw \in JawStates
      <3>1. jaws_jaw = [pos |-> jaws_jaw.pos, cmd |-> jaws_jaw.cmd,
              calibrated |-> jaws_jaw.calibrated, left |-> jaws_jaw.left, code |-> jaws_jaw.code,
              latched |-> jaws_jaw.latched, judged |-> jaws_jaw.judged,
              close |-> jaws_jaw.close, open |-> jaws_jaw.open]
        BY <2>2
      <3>2. QED
        BY <1>3, <2>1, <2>3, <3>1 DEF JawStates, JawCodes
    <2>5. QED
      BY <1>3, <2>3, <2>4 DEF z
  <1>5. jaws_gate \in JawGates /\ ~jaws_gate.standing.live
    BY <1>1, <1>3 DEF JawGates
  <1>6. /\ jaws_plan \in JawPlans /\ jaws_plan.kind = "none" /\ jaws_plan.epoch = 0
    BY <1>1 DEF JawPlans, Jaws!NoPlan
  <1>7. jaws_settle \in JawSettles /\ jaws_settle.wait = "none" /\ jaws_settle.epoch = 0
        /\ jaws_settle.verdict = "unarmed"
    BY <1>1 DEF JawSettles
  <1>8. jaws_reply \in JawReplies /\ ~jaws_reply.calibrated
    BY <1>1 DEF JawReplies, JawCodes, Jaws!NoReply
  <1>9. jaws_drive \in JawDrives
    BY <1>1 DEF JawDrives
  <1>10. JawsTyped
    BY <1>1, <1>4, <1>5, <1>6, <1>7, <1>8, <1>9, JawsAssumption DEF JawsTyped
  <1>11. JawsQueued /\ JawsAwaited
    BY <1>1, <1>6, <1>7 DEF JawsQueued, JawsAwaited
  <1>12. JawsCalibrated
    BY <1>1, <1>4, <1>8 DEF JawsCalibrated, Sweeping, JawsQuiet
  <1>13. JawsSettling /\ JawsReleasing
    BY <1>5, <1>7 DEF JawsSettling, JawsReleasing
  <1>14. Jaws!SettledOnOwnTarget
    BY <1>1 DEF Jaws!SettledOnOwnTarget
  <1>15. QED
    BY <1>10, <1>11, <1>12, <1>13, <1>14 DEF JawsInv

\* Every step keeps the invariant.
LEMMA JawsStep ==
  ASSUME JawsInv, [Jaws!Next]_(Jaws!vars)
  PROVE  JawsInv'
  <1>1. CASE UNCHANGED Jaws!vars
    BY <1>1
    DEF Jaws!vars, JawsInv, JawsTyped, JawsQueued, JawsAwaited, JawsCalibrated, JawsSettling,
        JawsReleasing, JawsStage, NextOnTarget, OnTarget, HeadedFor, Tells, Sweeping, JawsQuiet,
        Jaws!SettledOnOwnTarget
  <1>2. CASE Jaws!Next
    <2>1. CASE \E k \in {"move", "calibrate", "stop", "idle"}, t \in Jaws!Bytes \cup {-1} :
                 Jaws!StartAction(k, t)
      BY <2>1, JawsStart DEF JawVerbs
    <2>2. CASE Jaws!PollAction
      BY <2>2, JawsPolls
    <2>3. CASE Jaws!CancelAction
      BY <2>3, JawsCancel
    <2>4. CASE \E lf, lr \in BOOLEAN : Jaws!Tick(lf, lr)
      BY <2>4, JawsTickStep
    <2>5. CASE Jaws!ClearError
      BY <2>5, JawsClears
    <2>6. QED
      BY <1>2, <2>1, <2>2, <2>3, <2>4, <2>5 DEF Jaws!Next
  <1>3. QED
    BY <1>1, <1>2

\* For every choice of bounds, grace and repeats that waits out the losses the wire may have: a
\* move the planner reports settled was judged against its own target, and a release outlives
\* fewer losses than its repeats (gripper_settle.rs, gripper_gate.rs).
THEOREM JawsStayHeard == Jaws!Spec => []JawsAreHeard
  <1>1. JawsInv => JawsAreHeard
    <2>1. SUFFICES ASSUME JawsInv
                   PROVE  Jaws!SettledOnOwnTarget /\ Jaws!ReleaseReaches
      BY DEF JawsAreHeard
    <2>2. /\ jaws_losses \in Nat /\ JawsRepeats \in Nat /\ Jaws!SettledOnOwnTarget /\ JawsReleasing
      BY <2>1, JawsAssumption DEF JawsInv, JawsTyped
    <2>3. Jaws!ReleaseReaches
      BY <2>2 DEF Jaws!ReleaseReaches, JawsReleasing
    <2>4. QED
      BY <2>2, <2>3
  <1>2. QED
    BY <1>1, JawsInitially, JawsStep, PTL DEF Jaws!Spec

-----------------------------------------------------------------------------
(* The simulated drive.  Two facts carry the proof: every reply in the queue was measured  *)
(* under the seed in force, because a teleport voids the queue; and an edge of the any-    *)
(* edge trigger is latched by the sample that crossed the band and by no other.            *)

SimDriveFields ==
  {"mode", "goal", "trig", "armed", "since", "fault", "configured", "inBand", "trigger",
   "edge", "needs", "latched", "on", "crossed"}

SimBusFields ==
  {"id", "power", "silent", "deaf", "dead", "landed", "gripper", "connected", "cursor",
   "slot", "info", "override"}

\* A reply measured under seed s.
RepliesOf(s) ==
  [node : SimIds, placed : BOOLEAN, pos : 0..SimSpan, age : Nat, seed : {s}]

\* An edge on either side of the band is of the seek that reports it.
EdgeOwn(d) == (d.mode = "hall" /\ d.edge /\ d.on = 2) => d.crossed

SimDriveSound(d) == DOMAIN d = SimDriveFields /\ EdgeOwn(d)

SimBusSound(b) == DOMAIN b = SimBusFields /\ b.id \in SimIds

SimInv ==
  /\ SimDriveSound(sim_drive) /\ SimBusSound(sim_bus) /\ sim_q \in 0..SimSpan
  /\ sim_rx \in Seq(RepliesOf(sim_seed))

\* The drive's and the bus's first state; a simulated drive has an id.
LEMMA SimInitially == Sim!Init => SimInv
<1> SUFFICES ASSUME Sim!Init PROVE SimInv
  OBVIOUS
<1>1. SimDriveSound(sim_drive)
  BY DEF Sim!Init, SimDriveSound, SimDriveFields, EdgeOwn
<1>2. PICK j \in SimIds : \A k \in SimIds : j <= k
  BY LeastOf, SimAssumption
<1>3. (CHOOSE i \in SimIds : \A k \in SimIds : i <= k) \in SimIds
  BY <1>2
<1>4. SimBusSound(sim_bus)
  BY <1>3 DEF Sim!Init, SimBusSound, SimBusFields
<1> QED
  BY <1>1, <1>4 DEF Sim!Init, SimInv

\* What the clock, a frame and a poll do to the drive.
LEMMA SimDriveKeeps ==
  ASSUME NEW d, SimDriveSound(d)
  PROVE  /\ SimDriveSound(Sim!AgeWatchdog(d)) /\ SimDriveSound(Sim!Controlled(d))
         /\ SimDriveSound(Sim!FeedPoll(d)) /\ SimDriveSound(Sim!ClearFaults(d))
<1>1. SimDriveSound(Sim!AgeWatchdog(d))
  BY DEF SimDriveSound, SimDriveFields, EdgeOwn, Sim!AgeWatchdog
<1>2. SimDriveSound(Sim!Controlled(d)) /\ SimDriveSound(Sim!ClearFaults(d))
  BY DEF SimDriveSound, SimDriveFields, EdgeOwn, Sim!Controlled, Sim!ClearFaults
<1>3. SimDriveSound(Sim!FeedPoll(d))
  BY DEF SimDriveSound, SimDriveFields, EdgeOwn, Sim!FeedPoll
<1> QED
  BY <1>1, <1>2, <1>3

\* A frame leaves an edge of this seek, or none: entering the mode forgets the last one.
LEMMA SimFrameKeeps ==
  ASSUME NEW d, SimDriveSound(d), NEW c
  PROVE  SimDriveSound(Sim!OnDataFrame(d, c))
<1> DEFINE fed == [d EXCEPT !.armed = TRUE, !.since = 0]
<1>1. SimDriveSound(fed)
  BY DEF SimDriveSound, SimDriveFields, EdgeOwn
<1> HIDE DEF fed
<1>2. SimDriveSound(Sim!EnterHall(fed, c.arg))
  BY <1>1 DEF SimDriveSound, SimDriveFields, EdgeOwn, Sim!EnterHall
<1>3. /\ SimDriveSound([fed EXCEPT !.mode = "pos", !.goal = c.arg])
      /\ c.kind # "hall" => SimDriveSound([fed EXCEPT !.mode = c.kind])
  BY <1>1 DEF SimDriveSound, SimDriveFields, EdgeOwn
<1>4. /\ SimDriveSound([d EXCEPT !.mode = "idle"])
      /\ SimDriveSound([d EXCEPT !.mode = "idle", !.fault = TRUE])
      /\ SimDriveSound([d EXCEPT !.configured = TRUE])
  BY DEF SimDriveSound, SimDriveFields, EdgeOwn
<1>5. SimDriveSound(Sim!ClearFaults(d))
  BY SimDriveKeeps
<1> HIDE DEF SimDriveSound
<1> QED
  BY <1>2, <1>3, <1>4, <1>5 DEF Sim!OnDataFrame, fed

\* A sample that latches an edge on the any-edge trigger is one that crossed the band.
LEMMA SimSampleKeeps ==
  ASSUME NEW d, SimDriveSound(d), NEW p
  PROVE  SimDriveSound(Sim!SampleHall(d, p))
<1> DEFINE changed == d.inBand # Sim!InBand(p)
           e == [d EXCEPT !.inBand = Sim!InBand(p)]
           f == [e EXCEPT !.needs = FALSE, !.crossed = @ \/ (changed /\ ~d.needs)]
           g == [f EXCEPT !.latched = p, !.trigger = FALSE, !.edge = TRUE, !.on = d.trig]
           h == [f EXCEPT !.trigger = TRUE]
<1>1. SimDriveSound(e) /\ e.mode = d.mode /\ e.trig = d.trig
  BY DEF SimDriveSound, SimDriveFields, EdgeOwn
<1>2. SimDriveSound(f) /\ (changed /\ ~d.needs => f.crossed)
  BY <1>1 DEF SimDriveSound, SimDriveFields, EdgeOwn
<1>3. SimDriveSound(h)
  <2> HIDE DEF f
  <2> QED BY <1>2 DEF SimDriveSound, SimDriveFields, EdgeOwn
<1>4. (d.trig = 2 => changed /\ ~d.needs) => SimDriveSound(g)
  <2> HIDE DEF f, changed
  <2> QED BY <1>2 DEF SimDriveSound, SimDriveFields, EdgeOwn
<1> HIDE DEF SimDriveSound
<1> QED
  BY <1>1, <1>2, <1>3, <1>4 DEF Sim!SampleHall

\* A reply is added to the queue of its seed, or lost.
LEMMA SimEnqueues ==
  ASSUME SimInv, NEW s \in Seq(RepliesOf(sim_seed)), NEW p \in 0..SimSpan, NEW kind, NEW drop
  PROVE  Sim!Enqueue(s, Sim!Reply(kind, p), drop) \in Seq(RepliesOf(sim_seed))
<1>1. Sim!Reply(kind, p) \in RepliesOf(sim_seed)
  BY DEF SimInv, SimBusSound, RepliesOf, Sim!Reply
<1> QED
  BY <1>1 DEF Sim!Enqueue

\* What a delivery leaves: <<drive, replies, ...>>.
SimDelivered(x) == SimDriveSound(x[1]) /\ x[2] \in Seq(RepliesOf(sim_seed))

LEMMA SimDelivers ==
  ASSUME SimInv, NEW d, SimDriveSound(d), NEW s \in Seq(RepliesOf(sim_seed)),
         NEW p \in 0..SimSpan, NEW drop, NEW c, NEW kind
  PROVE  /\ SimDelivered(Sim!DeliverData(d, s, c, p, drop))
         /\ SimDelivered(Sim!DeliverRtr(d, s, kind, p, drop))
<1>1. SimDriveSound(Sim!OnDataFrame(d, c)) /\ SimDriveSound(Sim!FeedPoll(d))
  BY SimFrameKeeps, SimDriveKeeps
<1>2. /\ Sim!Enqueue(s, Sim!Reply(kind, p), drop) \in Seq(RepliesOf(sim_seed))
      /\ Sim!Enqueue(s, Sim!Reply(Sim!ReplyKind(c), p), drop) \in Seq(RepliesOf(sim_seed))
  BY SimEnqueues
<1> HIDE DEF SimDriveSound, RepliesOf
<1> QED
  BY <1>1, <1>2 DEF SimDelivered, Sim!DeliverData, Sim!DeliverRtr

\* A pair with one more.
LEMMA PairThenOne ==
  ASSUME NEW u, NEW v, NEW b
  PROVE  /\ (<<u, v>> \o <<b>>)[1] = u /\ (<<u, v>> \o <<b>>)[2] = v
         /\ (<<u, v>> \o <<b>>)[3] = b
<1> DEFINE T == {u, v, b}
           x == <<u, v>>
           y == <<b>>
<1>1. x \in Seq(T) /\ Len(x) = 2 /\ x[1] = u /\ x[2] = v
  OBVIOUS
<1>2. y \in Seq(T) /\ Len(y) = 1 /\ y[1] = b
  OBVIOUS
<1> HIDE DEF x, y, T
<1>3. \A i \in 1..(Len(x) + Len(y)) :
        (x \o y)[i] = IF i <= Len(x) THEN x[i] ELSE y[i - Len(x)]
  BY <1>1, <1>2, ConcatProperties
<1>4. PICK z : z = x \o y
  OBVIOUS
<1>5. \A i \in 1..(Len(x) + Len(y)) : z[i] = IF i <= Len(x) THEN x[i] ELSE y[i - Len(x)]
  BY <1>3, <1>4
<1>6. \A i \in 1..3 : z[i] = IF i <= 2 THEN x[i] ELSE y[i - 2]
  <2>1. Len(x) + Len(y) = 3
    BY <1>1, <1>2
  <2> QED
    BY <1>1, <1>5, <2>1, Zenon
<1>7. 3 - 2 = 1 /\ 1 \in 1..3 /\ 2 \in 1..3 /\ 3 \in 1..3 /\ 1 <= 2 /\ 2 <= 2 /\ ~(3 <= 2)
  OBVIOUS
<1>8. z[1] = x[1] /\ z[2] = x[2]
  BY <1>6, <1>7
<1>9. z[3] = y[1]
  <2>1. z[3] = y[3 - 2]
    BY <1>6, <1>7
  <2> QED
    BY <1>7, <2>1
<1> QED
  BY <1>1, <1>2, <1>4, <1>8, <1>9 DEF x, y

\* A poll slot is a delivery, and moves the schedule only.
LEMMA SimPolls ==
  ASSUME SimInv, NEW d, SimDriveSound(d), NEW s \in Seq(RepliesOf(sim_seed)),
         NEW p \in 0..SimSpan, NEW drop
  PROVE  /\ SimDelivered(Sim!PollStep(d, s, p, drop))
         /\ SimBusSound(Sim!PollStep(d, s, p, drop)[3])
<1> DEFINE o == sim_bus.override
           x1 == IF o.kind = "poll" THEN Sim!DeliverRtr(d, s, "encoder", p, drop)
                 ELSE Sim!DeliverData(d, s, o, p, drop)
           ask(t, kind) == IF t = 0 THEN Sim!DeliverRtr(d, s, kind, p, drop) ELSE <<d, s>>
<1>0. \A b, c : /\ \E u, v : Sim!DeliverRtr(d, s, b, p, drop) = <<u, v>>
                /\ \E u, v : Sim!DeliverData(d, s, c, p, drop) = <<u, v>>
  BY DEF Sim!DeliverRtr, Sim!DeliverData
<1>1. SimDelivered(x1) /\ \E u, v : x1 = <<u, v>>
  BY <1>0, SimDelivers
<1>2. \A t, kind : SimDelivered(ask(t, kind)) /\ \E u, v : ask(t, kind) = <<u, v>>
  <2> TAKE t, kind
  <2>1. SimDelivered(Sim!DeliverRtr(d, s, kind, p, drop)) /\ SimDelivered(<<d, s>>)
    BY SimDelivers DEF SimDelivered
  <2> QED
    BY <2>1, <1>0
<1>3. /\ \A u, v : SimBusSound([sim_bus EXCEPT !.override = u])
      /\ \A u, v : SimBusSound([sim_bus EXCEPT !.info = u, !.slot = v])
      /\ \A u, v, w : SimBusSound([sim_bus EXCEPT !.cursor = u, !.slot = v, !.info = w])
  BY DEF SimInv, SimBusSound, SimBusFields
<1>4. ASSUME NEW x, NEW b, SimDelivered(x), \E u, v : x = <<u, v>>, SimBusSound(b)
      PROVE  SimDelivered(x \o <<b>>) /\ SimBusSound((x \o <<b>>)[3])
  <2>1. PICK u, v : x = <<u, v>>
    BY <1>4
  <2>2. (x \o <<b>>)[1] = x[1] /\ (x \o <<b>>)[2] = x[2] /\ (x \o <<b>>)[3] = b
    BY <2>1, PairThenOne
  <2> QED
    BY <1>4, <2>1, <2>2 DEF SimDelivered
<1> DEFINE slot == (sim_bus.slot + 1) % SimInfoPeriod
           b1 == [sim_bus EXCEPT !.override =
                    IF o.repeats > 1 THEN [o EXCEPT !.repeats = @ - 1] ELSE Sim!Nothing]
           b2 == [sim_bus EXCEPT !.info = @ - 1, !.slot = slot]
           b3 == [sim_bus EXCEPT !.cursor = (@ + 1) % Sim!Targets, !.slot = slot,
                                 !.info = IF slot = 0 THEN Sim!Targets ELSE 0]
<1>5. SimBusSound(b1) /\ SimBusSound(b2) /\ SimBusSound(b3)
  BY <1>3
<1>6. \/ Sim!PollStep(d, s, p, drop) = x1 \o <<b1>>
      \/ Sim!PollStep(d, s, p, drop) = ask(Sim!Targets - sim_bus.info, "info") \o <<b2>>
      \/ Sim!PollStep(d, s, p, drop) = ask(sim_bus.cursor, "telemetry") \o <<b3>>
  BY DEF Sim!PollStep
<1> HIDE DEF x1, ask, b1, b2, b3
<1> QED
  BY <1>1, <1>2, <1>4, <1>5, <1>6

\* The greatest of some of the first n numbers.
LEMMA GreatestOf ==
  ASSUME NEW n \in Nat, NEW S \in SUBSET (1..n), S # {}
  PROVE  \E m \in S : \A k \in S : k <= m
<1> DEFINE D == {n - k : k \in S}
<1>0. \A k \in S : k \in Nat /\ k <= n
  OBVIOUS
<1>1. D \subseteq Nat /\ D # {}
  <2>1. \A k \in S : n - k \in Nat
    BY <1>0
  <2> QED
    BY <2>1
<1>2. PICK m \in D : \A k \in D : m <= k
  BY <1>1, LeastOf
<1>3. PICK j \in S : m = n - j
  BY <1>2
<1>4. \A k \in S : n - j <= n - k
  BY <1>2, <1>3
<1>5. \A k \in S : k <= j
  BY <1>0, <1>4
<1> QED
  BY <1>5

\* Cardinality is the same in the module of the simulated bus as here.
LEMMA SimCardinality ==
  ASSUME NEW S
  PROVE  Sim!Cardinality(S) = Cardinality(S)
BY DEF Sim!Cardinality, Cardinality

\* What is drained is taken from the front of the queue, and a pose that changes is the
\* pose of one of the replies.
LEMMA SimDrains ==
  ASSUME SimInv
  PROVE  /\ Sim!Drain(sim_seen, Sim!Aged(sim_rx))[2] \in Seq(RepliesOf(sim_seed))
         /\ \A i \in SimIds :
              LET new == Sim!Drain(sim_seen, Sim!Aged(sim_rx))[1]
              IN  new[i].pos # sim_seen[i].pos => new[i].seed = sim_seed
<1> DEFINE s == Sim!Aged(sim_rx)
           R == RepliesOf(sim_seed)
           n == Sim!Cardinality(Sim!Ripe(s))
<1>1. s \in Seq(R)
  <2>0. sim_rx \in Seq(R) /\ Len(sim_rx) \in Nat
    BY DEF SimInv
  <2>1. ASSUME NEW k \in 1..Len(sim_rx)
        PROVE  [sim_rx[k] EXCEPT !.age = IF @ < SimDelay THEN @ + 1 ELSE @] \in R
    <3>1. sim_rx[k] \in R
      BY <2>0
    <3> QED
      BY <3>1, SimAssumption DEF RepliesOf
  <2>2. s \in [1..Len(sim_rx) -> R]
    BY <2>1 DEF Sim!Aged
  <2> QED
    BY <2>0, <2>2
<1>2. n \in 0..Len(s)
  <2>1. Len(s) \in Nat /\ Sim!Ripe(s) \in SUBSET (1..Len(s))
    BY <1>1 DEF Sim!Ripe
  <2>0. IsFiniteSet(1..Len(s))
    BY <2>1, FS_Interval
  <2>2. Cardinality(1..Len(s)) = Len(s)
    <3>1. Len(s) \in Int /\ 1 \in Int
      BY <2>1
    <3>2. Cardinality(1..Len(s)) = IF 1 > Len(s) THEN 0 ELSE Len(s) - 1 + 1
      BY <3>1, FS_Interval
    <3> QED
      BY <2>1, <3>2
  <2>3. /\ IsFiniteSet(Sim!Ripe(s)) /\ Cardinality(Sim!Ripe(s)) <= Cardinality(1..Len(s))
    BY <2>0, <2>1, <2>2, FS_Subset
  <2>4. Cardinality(Sim!Ripe(s)) \in Nat
    BY <2>3, FS_CardinalityType
  <2> QED
    BY <2>1, <2>2, <2>3, <2>4, SimCardinality
<1> HIDE DEF s, n, R
<1>3. SubSeq(s, n + 1, Len(s)) \in Seq(R)
  BY <1>1, <1>2
<1>4. ASSUME NEW i \in SimIds, Sim!Apply(sim_seen, s, n, i).pos # sim_seen[i].pos
      PROVE  Sim!Apply(sim_seen, s, n, i).seed = sim_seed
  <2> DEFINE at == {k \in 1..n : s[k].node = i /\ s[k].placed}
             k0 == CHOOSE k \in at : \A m \in at : m <= k
  <2>1. at # {}
    BY <1>4 DEF Sim!Apply
  <2>2. \E m \in at : \A k \in at : k <= m
    <3>1. n \in Nat /\ at \in SUBSET (1..n)
      BY <1>1, <1>2
    <3> HIDE DEF at
    <3> QED
      BY <2>1, <3>1, GreatestOf
  <2>3. k0 \in at
    BY <2>2
  <2>4. s[k0] \in R
    BY <1>1, <1>2, <2>3
  <2>5. s[k0].seed = sim_seed
    BY <2>4 DEF R, RepliesOf
  <2>6. Sim!Apply(sim_seen, s, n, i) = [pos |-> s[k0].pos, seed |-> s[k0].seed]
    BY <2>1 DEF Sim!Apply
  <2> QED
    BY <2>5, <2>6
<1>5. Sim!Drain(sim_seen, s) =
        <<IF sim_bus.silent \/ sim_bus.deaf THEN sim_seen
          ELSE [i \in SimIds |-> Sim!Apply(sim_seen, s, n, i)], SubSeq(s, n + 1, Len(s))>>
  BY DEF Sim!Drain, n
<1> QED
  BY <1>3, <1>4, <1>5 DEF s, R

\* A tick.
LEMMA SimTicks ==
  ASSUME SimInv, NEW c, NEW drop, Sim!Tick(c, drop)
  PROVE  SimInv' /\ Sim!PoseIsMeasuredHere
<1> DEFINE d == Sim!Controlled(Sim!AgeWatchdog(sim_drive))
           got == Sim!Drain(sim_seen, Sim!Aged(sim_rx))
           h == Sim!SampleHall(d, sim_q')
           sent == Sim!DeliverData(h, got[2], c, sim_q', drop)
           polled == IF sim_bus.silent THEN <<h, got[2], sim_bus>>
                     ELSE Sim!PollStep(sent[1], sent[2], sim_q', FALSE)
<1>1. sim_q' \in 0..SimSpan
  BY DEF Sim!Tick, Sim!Moves
<1>2. SimDriveSound(d)
  BY SimDriveKeeps DEF SimInv
<1>3. SimDriveSound(h)
  BY <1>2, SimSampleKeeps
<1>4. got[2] \in Seq(RepliesOf(sim_seed))
  BY SimDrains
<1>5. SimDelivered(sent)
  BY <1>1, <1>3, <1>4, SimDelivers
<1>6. SimDelivered(polled) /\ SimBusSound(polled[3])
  <2>1. CASE sim_bus.silent
    <3> HIDE DEF h, got
    <3>1. polled[1] = h /\ polled[2] = got[2] /\ polled[3] = sim_bus
      BY <2>1
    <3> HIDE DEF polled
    <3> QED
      BY <3>1, <1>3, <1>4 DEF SimInv, SimDelivered
  <2>2. CASE ~sim_bus.silent
    <3>1. SimDriveSound(sent[1]) /\ sent[2] \in Seq(RepliesOf(sim_seed))
      BY <1>5 DEF SimDelivered
    <3> HIDE DEF sent
    <3>2. /\ SimDelivered(Sim!PollStep(sent[1], sent[2], sim_q', FALSE))
          /\ SimBusSound(Sim!PollStep(sent[1], sent[2], sim_q', FALSE)[3])
      BY <3>1, <1>1, SimPolls
    <3> QED
      BY <2>2, <3>2
  <2> QED
    BY <2>1, <2>2
<1>7. /\ sim_seen' = got[1] /\ sim_drive' = polled[1] /\ sim_rx' = polled[2]
      /\ sim_bus' = [polled[3] EXCEPT !.landed = sim_bus.landed /\ sim_bus.silent]
      /\ sim_seed' = sim_seed
  BY DEF Sim!Tick, Sim!Served, Sim!Drained
<1>8. Sim!PoseIsMeasuredHere
  <2>1. \A i \in SimIds : got[1][i].pos # sim_seen[i].pos => got[1][i].seed = sim_seed
    BY SimDrains
  <2> HIDE DEF got
  <2> QED
    BY <1>7, <2>1 DEF Sim!PoseIsMeasuredHere
<1> HIDE DEF polled
<1>9. SimBusSound(sim_bus')
  BY <1>6, <1>7 DEF SimBusSound, SimBusFields
<1> QED
  BY <1>1, <1>6, <1>7, <1>8, <1>9 DEF SimInv, SimDelivered

\* What happens between two ticks.
LEMMA SimBetween ==
  ASSUME SimInv, Sim!Next,
         ~ \E c \in SimCommands, drop \in BOOLEAN : Sim!Tick(c, drop)
  PROVE  SimInv' /\ Sim!PoseIsMeasuredHere
<1>1. CASE \E p \in 0..SimSpan : Sim!Teleport(p)
  <2>1. PICK p \in 0..SimSpan : Sim!Teleport(p)
    BY <1>1
  <2>2. /\ sim_q' = p /\ sim_seen' = sim_seen /\ sim_rx' = <<>>
        /\ sim_drive' = [sim_drive EXCEPT !.mode = "pos", !.goal = p]
        /\ sim_bus' = [sim_bus EXCEPT !.landed = TRUE]
    BY <2>1 DEF Sim!Teleport, Sim!Voided
  <2>3. SimDriveSound(sim_drive')
    BY <2>2 DEF SimInv, SimDriveSound, SimDriveFields, EdgeOwn
  <2>4. SimBusSound(sim_bus')
    BY <2>2 DEF SimInv, SimBusSound, SimBusFields
  <2> QED
    BY <2>2, <2>3, <2>4 DEF SimInv, Sim!PoseIsMeasuredHere
<1>2. CASE ~ \E p \in 0..SimSpan : Sim!Teleport(p)
  <2>1. UNCHANGED <<sim_q, sim_rx, sim_seen, sim_seed>>
    BY <1>2 DEF Sim!Next, Sim!InjectFault, Sim!SwitchPower, Sim!RecoverLink, Sim!SetSilent,
                Sim!FitTool, Sim!SetDeaf, Sim!QueuePollOverride, Sim!SendFrame, Sim!SetCanId
  <2>2. SimDriveSound(sim_drive')
    <3>1. SimDriveSound([sim_drive EXCEPT !.fault = TRUE])
      BY DEF SimInv, SimDriveSound, SimDriveFields, EdgeOwn
    <3>2. \A c : SimDriveSound(Sim!DeliverData(sim_drive, sim_rx, c, sim_q, FALSE)[1])
      BY SimDelivers DEF SimInv, SimDelivered
    <3>3. \/ sim_drive' = sim_drive \/ sim_drive' = [sim_drive EXCEPT !.fault = TRUE]
          \/ \E c : sim_drive' = Sim!DeliverData(sim_drive, sim_rx, c, sim_q, FALSE)[1]
      BY <1>2 DEF Sim!Next, Sim!InjectFault, Sim!SwitchPower, Sim!RecoverLink, Sim!SetSilent,
                  Sim!FitTool, Sim!SetDeaf, Sim!QueuePollOverride, Sim!SendFrame, Sim!SetCanId
    <3> QED
      BY <3>1, <3>2, <3>3 DEF SimInv
  <2>3. SimBusSound(sim_bus')
    <3>1. SimBusSound(sim_bus)
      BY DEF SimInv
    <3>2. CASE Sim!InjectFault \/ \E kind \in {"clear", "config"} : Sim!SendFrame(kind)
      BY <3>1, <3>2 DEF Sim!InjectFault, Sim!SendFrame
    <3>3. CASE Sim!SwitchPower \/ Sim!SetSilent \/ Sim!FitTool
      BY <3>1, <3>3 DEF Sim!SwitchPower, Sim!SetSilent, Sim!FitTool, SimBusSound, SimBusFields
    <3>4. CASE Sim!RecoverLink
      BY <3>1, <3>4 DEF Sim!RecoverLink, SimBusSound, SimBusFields
    <3>5. CASE \E dead \in BOOLEAN : Sim!SetDeaf(dead)
      BY <3>1, <3>5 DEF Sim!SetDeaf, SimBusSound, SimBusFields
    <3>6. CASE \E kind \in {"poll", "clear", "config"} : Sim!QueuePollOverride(kind, 2)
      BY <3>1, <3>6 DEF Sim!QueuePollOverride, SimBusSound, SimBusFields
    <3>7. CASE \E i \in SimIds : Sim!SetCanId(i)
      BY <3>1, <3>7 DEF Sim!SetCanId, SimBusSound, SimBusFields
    <3> QED
      BY <1>2, <3>2, <3>3, <3>4, <3>5, <3>6, <3>7 DEF Sim!Next
  <2> QED
    BY <2>1, <2>2, <2>3 DEF SimInv, Sim!PoseIsMeasuredHere
<1> QED
  BY <1>1, <1>2

LEMMA SimStep ==
  SimInv /\ [Sim!Next]_(Sim!vars) => SimInv' /\ [Sim!PoseIsMeasuredHere]_simVars
<1> SUFFICES ASSUME SimInv, [Sim!Next]_(Sim!vars)
             PROVE  SimInv' /\ [Sim!PoseIsMeasuredHere]_simVars
  OBVIOUS
<1>1. CASE UNCHANGED Sim!vars
  BY <1>1 DEF Sim!vars, simVars, SimInv
<1>2. CASE \E c \in SimCommands, drop \in BOOLEAN : Sim!Tick(c, drop)
  BY <1>2, SimTicks
<1>3. CASE Sim!Next /\ ~ \E c \in SimCommands, drop \in BOOLEAN : Sim!Tick(c, drop)
  BY <1>3, SimBetween
<1> QED
  BY <1>1, <1>2, <1>3

(* What the runtime records of a simulated joint was measured under the reference in force,
   and an edge a hall seek reports is of that seek, for any joint, delay, queue, drop-outs
   and number of teleports, power cuts, faults and id changes (par6-bus sim/mod.rs
   teleport_joint_rad, drain_rx; sim/driver.rs sample_hall). *)
THEOREM SimStaysCurrent == Sim!Spec => SimIsCurrent
<1>1. SimInv => (part = "sim" => Sim!EdgeIsThisSeeks)
  BY DEF SimInv, SimDriveSound, EdgeOwn, Sim!EdgeIsThisSeeks
<1>2. SimInv /\ [Sim!Next]_(Sim!vars) => [part = "sim" => Sim!PoseIsMeasuredHere]_simVars
  BY SimStep
<1>3. SimInv /\ [Sim!Next]_(Sim!vars) => SimInv'
  BY SimStep
<1> QED
  BY <1>1, <1>2, <1>3, SimInitially, PTL DEF Sim!Spec, SimIsCurrent

-----------------------------------------------------------------------------
(* The drives' configuration.  The tick is a pipeline; what is proved of a stage is what it *)
(* leaves of the fields below.  A drive that was cut is either still down, its silence as   *)
(* old as its outage, or up and unheard, and then its first frame is a reconnect, or it is  *)
(* served by a retry or a shot to come.                                                     *)

\* What the bus holds, as a tick passes it on.
BusHere == [bus |-> bus_bus, core |-> bus_core, drives |-> bus_drives, seen |-> bus_seen]

\* The fields of the stages' record.
BusShape(x) ==
  /\ DOMAIN x = {"bus", "core", "drives", "seen"}
  /\ DOMAIN x.bus = {"clock", "connected", "stored", "silent", "override", "edges"}
  /\ DOMAIN x.bus.clock = {"age", "latched"}
  /\ DOMAIN x.core = {"armed", "pending", "sinceArm", "scan", "sinceBoot", "recovered",
                      "rescan", "reconfigured"}
  /\ DOMAIN x.drives = {"up", "configured", "down", "cuts"}
  /\ DOMAIN x.seen = {"heard", "masked", "shot", "cmds", "quiet"}

BusTyped(x) ==
  /\ x.bus.clock.age \in [BusNodes -> Nat] /\ x.seen.quiet \in [BusNodes -> Nat]
  /\ x.drives.down \in [BusNodes -> Nat] /\ \A n \in BusNodes : x.drives.down[n] <= BusStale
  /\ x.core.sinceArm \in Nat /\ x.core.rescan \in Nat
  /\ x.drives.up \subseteq BusNodes /\ x.seen.heard \subseteq x.drives.up
  /\ x.bus.stored \subseteq Bus!Range(BusTargets) \cup {BusGripper}
  /\ \A n \in BusNodes : x.bus.clock.age[n] <= BusLost + 1 /\ x.seen.quiet[n] <= BusLost + 1

\* Clock and history agree on the silence of a node.
HushSound(x, n) ==
  /\ x.seen.quiet[n] # BusLost + 1 =>
       x.bus.clock.age[n] # BusLost + 1 /\ x.bus.clock.age[n] >= x.seen.quiet[n]
  /\ n \in x.bus.connected => x.bus.clock.age[n] # BusLost + 1

\* The next frame of the node is a reconnect.
WillEdge(x, n) == x.bus.clock.age[n] = BusLost + 1 \/ x.bus.clock.age[n] >= BusStale

\* A configuration reaches the node without its help, or it was the operator who hid it;
\* a shot may be due `late` ticks after its time.
Served(x, n, late) ==
  \/ n \in x.drives.configured \/ n \in x.core.pending
  \/ x.core.sinceArm < Bus!LastShot + late
  \/ x.bus.silent \/ n \in x.seen.masked

\* A drive that is up is served, or its first frame will see to it.
UpSound(x, n, late) == Served(x, n, late) \/ (n \notin x.seen.heard /\ WillEdge(x, n))

\* The silence of a drive that is down is as old as its outage or as the shots to come.
DownSound(x, n) ==
  \/ n \in x.seen.masked \/ x.bus.silent \/ WillEdge(x, n)
  \/ x.bus.clock.age[n] >= x.core.sinceArm \/ x.bus.clock.age[n] >= x.drives.down[n]

ServiceSound(x, n, late) ==
  /\ n \in x.bus.stored /\ n \in x.drives.up => UpSound(x, n, late)
  /\ n \in x.bus.stored /\ n \notin x.drives.up => DownSound(x, n)

NodeSound(x, n, late) == HushSound(x, n) /\ ServiceSound(x, n, late)

\* The bring-up after a cycled link falls before the last of the shots it re-armed.
SettleSound(x, late) ==
  x.core.rescan > 0 /\ ~x.core.reconfigured => x.core.sinceArm + x.core.rescan <= BusSettle + late

BusSound(x, late) ==
  /\ BusShape(x) /\ BusTyped(x) /\ SettleSound(x, late)
  /\ \A n \in BusNodes : NodeSound(x, n, late)

BusInv == BusSound(BusHere, 0) /\ bus_bus.edges = {}

\* The last shot falls after the stale window and after the settle.
LEMMA LastShotIsLate ==
  Bus!LastShot \in BusShots /\ Bus!LastShot \in Nat /\ BusStale <= Bus!LastShot
  /\ BusSettle < Bus!LastShot
<1>1. PICK last \in BusShots : /\ \A k \in BusShots : k <= last
                               /\ BusStale <= last /\ BusSettle < last
  BY BusAssumption
<1>2. last \in Nat /\ \A k \in BusShots : k \in Nat /\ last >= k
  BY <1>1, BusAssumption
<1>3. Bus!LastShot \in BusShots /\ \A k \in BusShots : Bus!LastShot >= k
  BY <1>1, <1>2 DEF Bus!LastShot, Bus!Max
<1>4. Bus!LastShot = last
  BY <1>1, <1>2, <1>3
<1> QED
  BY <1>1, <1>2, <1>4

\* Every field the invariant reads, but the ones a stage names.
SameClock(x, y) == /\ y.bus.clock.age = x.bus.clock.age /\ y.bus.connected = x.bus.connected
                   /\ y.seen.quiet = x.seen.quiet
SameBus(x, y) == y.bus.stored = x.bus.stored /\ y.bus.silent = x.bus.silent
SameEdges(x, y) == y.bus.edges = x.bus.edges
SameDrives(x, y) == y.drives.up = x.drives.up /\ y.drives.down = x.drives.down
SameSeen(x, y) == y.seen.heard = x.seen.heard /\ y.seen.masked = x.seen.masked
SameTimes(x, y) == /\ y.core.sinceArm = x.core.sinceArm /\ y.core.rescan = x.core.rescan
                   /\ y.core.reconfigured = x.core.reconfigured

\* A stage that changes the service of the nodes only.
Serves(x, y) ==
  /\ BusShape(y) /\ SameClock(x, y) /\ SameBus(x, y) /\ SameEdges(x, y) /\ SameDrives(x, y)
  /\ SameSeen(x, y) /\ SameTimes(x, y)
  /\ x.drives.configured \subseteq y.drives.configured
  /\ \A n \in x.drives.up : n \in x.core.pending =>
       n \in y.core.pending \/ n \in y.drives.configured

\* Service that nobody loses keeps the invariant.
LEMMA ServingKeeps ==
  ASSUME NEW x, NEW y, NEW late, BusSound(x, late), Serves(x, y)
  PROVE  BusSound(y, late)
<1>1. BusTyped(y)
  BY DEF BusSound, BusTyped, Serves, SameClock, SameBus, SameDrives, SameSeen, SameTimes
<1>2. SettleSound(y, late)
  BY DEF BusSound, SettleSound, Serves, SameTimes
<1>3. ASSUME NEW n \in BusNodes PROVE NodeSound(y, n, late)
  <2>1. NodeSound(x, n, late)
    BY DEF BusSound
  <2>2. HushSound(y, n)
    BY <2>1 DEF NodeSound, HushSound, Serves, SameClock
  <2>3. CASE n \in x.drives.up
    BY <2>1, <2>2, <2>3 DEF NodeSound, ServiceSound, UpSound, Served, WillEdge, Serves,
       SameClock, SameBus, SameDrives, SameSeen, SameTimes
  <2>4. CASE n \notin x.drives.up
    BY <2>1, <2>2, <2>4 DEF NodeSound, ServiceSound, DownSound, WillEdge, Serves,
       SameClock, SameBus, SameDrives, SameSeen, SameTimes
  <2> QED
    BY <2>3, <2>4
<1> QED
  BY <1>1, <1>2, <1>3 DEF BusSound, Serves

LEMMA ServesOn ==
  ASSUME NEW x, NEW y, NEW z, Serves(x, y), Serves(y, z)
  PROVE  Serves(x, z)
BY DEF Serves, SameClock, SameBus, SameEdges, SameDrives, SameSeen, SameTimes

LEMMA OverrideServes ==
  ASSUME NEW x, BusShape(x), NEW what, NEW n
  PROVE  Serves(x, Bus!QueueOverride(x, what, n))
BY DEF Serves, SameClock, SameBus, SameEdges, SameDrives, SameSeen, SameTimes, BusShape,
       Bus!QueueOverride

LEMMA ConfigureServes ==
  ASSUME NEW x, BusShape(x), NEW S
  PROVE  /\ Serves(x, Bus!Configure(x, S))
         /\ S \cap x.drives.up \subseteq Bus!Configure(x, S).drives.configured
         /\ Bus!Configure(x, S).core = x.core
BY DEF Serves, SameClock, SameBus, SameEdges, SameDrives, SameSeen, SameTimes, BusShape,
       Bus!Configure

\* resend_config: a node that is up gets its configuration or is queued for it.
LEMMA ResendServes ==
  ASSUME NEW x, BusShape(x), NEW S, NEW in
  PROVE  /\ Serves(x, Bus!ResendConfig(x, S, in))
         /\ \A n \in S \cap x.drives.up :
              \/ n \in Bus!ResendConfig(x, S, in).drives.configured
              \/ n \in Bus!ResendConfig(x, S, in).core.pending
<1> DEFINE sent == {n \in S : Bus!ResendAccepted(x, n, in)}
           c == Bus!Configure(x, sent)
           y == Bus!ResendConfig(x, S, in)
<1>1. /\ Serves(x, c) /\ sent \cap x.drives.up \subseteq c.drives.configured
      /\ c.core = x.core
  BY ConfigureServes
<1>2. y = [c EXCEPT !.core.pending = (@ \cup S) \ sent]
  BY DEF Bus!ResendConfig
<1> HIDE DEF c, y, sent
<1>3. /\ BusShape(y) /\ y.core.pending = (c.core.pending \cup S) \ sent
      /\ y.bus = c.bus /\ y.drives = c.drives /\ y.seen = c.seen
      /\ SameTimes(c, y)
  BY <1>1, <1>2 DEF Serves, BusShape, SameTimes
<1>4. Serves(x, y)
  BY <1>1, <1>3 DEF Serves, SameClock, SameBus, SameEdges, SameDrives, SameSeen, SameTimes
<1>5. \A n \in S \cap x.drives.up : n \in y.drives.configured \/ n \in y.core.pending
  BY <1>1, <1>3
<1> QED
  BY <1>4, <1>5 DEF y

\* begin_tick: everything ages together, and a shot may now be due.
LEMMA BeginKeeps ==
  ASSUME NEW x, BusSound(x, 0)
  PROVE  BusSound(Bus!BeginTick(x), 1) /\ SameEdges(x, Bus!BeginTick(x))
         /\ Bus!BeginTick(x).drives.up = x.drives.up
<1> DEFINE y == Bus!BeginTick(x)
           age == [n \in BusNodes |-> IF x.bus.clock.age[n] = BusLost + 1
                                         \/ x.bus.clock.age[n] = BusLost
                                      THEN x.bus.clock.age[n] ELSE x.bus.clock.age[n] + 1]
<1>0. BusStale \in Nat /\ BusLost \in Nat /\ BusStale <= BusLost /\ Bus!LastShot \in Nat
  BY BusAssumption, LastShotIsLate
<1>1. /\ BusShape(y) /\ y.bus.clock.age = age
  BY DEF BusSound, BusShape, Bus!BeginTick, Bus!Aged, Bus!LatchLost, Bus!Never
<1>2. /\ y.bus.connected = x.bus.connected /\ SameBus(x, y) /\ SameEdges(x, y)
      /\ y.drives.up = x.drives.up /\ SameSeen(x, y)
      /\ y.drives.configured = x.drives.configured /\ y.core.pending = x.core.pending
      /\ y.core.rescan = x.core.rescan /\ y.core.reconfigured = x.core.reconfigured
  BY DEF BusSound, BusShape, Bus!BeginTick, SameBus, SameEdges, SameSeen
<1>3. y.core.sinceArm = IF x.core.sinceArm <= Bus!LastShot THEN x.core.sinceArm + 1
                        ELSE x.core.sinceArm
  BY DEF BusSound, BusShape, Bus!BeginTick
<1>4. y.drives.down = [n \in BusNodes |->
        IF n \in x.drives.up \/ x.drives.down[n] = BusStale THEN x.drives.down[n]
        ELSE x.drives.down[n] + 1]
  BY DEF BusSound, BusShape, Bus!BeginTick
<1>5. y.seen.quiet = [n \in BusNodes |->
        IF x.seen.quiet[n] >= BusLost \/ x.bus.silent THEN x.seen.quiet[n]
        ELSE x.seen.quiet[n] + 1]
  BY DEF BusSound, BusShape, Bus!BeginTick
<1> HIDE DEF y
<1>6. \A n \in BusNodes : /\ x.bus.clock.age[n] \in Nat /\ x.bus.clock.age[n] <= BusLost + 1
                          /\ x.seen.quiet[n] \in Nat /\ x.seen.quiet[n] <= BusLost + 1
                          /\ x.drives.down[n] \in Nat /\ x.drives.down[n] <= BusStale
  BY DEF BusSound, BusTyped
<1>7. x.core.sinceArm \in Nat /\ x.core.rescan \in Nat
  BY DEF BusSound, BusTyped
<1>8. BusTyped(y)
  <2>1. y.core.sinceArm \in Nat /\ y.core.rescan \in Nat
    BY <1>0, <1>2, <1>3, <1>7
  <2>2. y.bus.clock.age \in [BusNodes -> Nat]
        /\ \A n \in BusNodes : y.bus.clock.age[n] <= BusLost + 1
    BY <1>0, <1>1, <1>6
  <2>3. y.seen.quiet \in [BusNodes -> Nat] /\ \A n \in BusNodes : y.seen.quiet[n] <= BusLost + 1
    BY <1>0, <1>5, <1>6
  <2>4. y.drives.down \in [BusNodes -> Nat] /\ \A n \in BusNodes : y.drives.down[n] <= BusStale
    BY <1>0, <1>4, <1>6
  <2>5. /\ y.drives.up \subseteq BusNodes /\ y.seen.heard \subseteq y.drives.up
        /\ y.bus.stored \subseteq Bus!Range(BusTargets) \cup {BusGripper}
    BY <1>2 DEF BusSound, BusTyped, SameBus, SameSeen
  <2> QED
    BY <2>1, <2>2, <2>3, <2>4, <2>5 DEF BusTyped
<1>9. SettleSound(y, 1)
  BY <1>0, <1>2, <1>3, <1>7, BusAssumption DEF BusSound, SettleSound
<1>10. ASSUME NEW n \in BusNodes PROVE NodeSound(y, n, 1)
  <2>1. NodeSound(x, n, 0)
    BY DEF BusSound
  <2>2. PICK a, b, p, q : a = x.bus.clock.age[n] /\ b = y.bus.clock.age[n]
                          /\ p = x.seen.quiet[n] /\ q = y.seen.quiet[n]
    OBVIOUS
  <2>3. /\ a \in Nat /\ p \in Nat /\ a <= BusLost + 1 /\ p <= BusLost + 1
        /\ b = IF a = BusLost + 1 \/ a = BusLost THEN a ELSE a + 1
        /\ q = p \/ (p < BusLost /\ q = p + 1)
    <3>1. a \in Nat /\ p \in Nat /\ a <= BusLost + 1 /\ p <= BusLost + 1
      BY <1>6, <2>2
    <3>2. b = IF a = BusLost + 1 \/ a = BusLost THEN a ELSE a + 1
      BY <1>1, <2>2
    <3>3. q = IF p >= BusLost \/ x.bus.silent THEN p ELSE p + 1
      BY <1>5, <2>2
    <3>4. q = p \/ (p < BusLost /\ q = p + 1)
      BY <1>0, <3>1, <3>3
    <3> QED
      BY <3>1, <3>2, <3>4
  <2>4. (a = BusLost + 1 <=> b = BusLost + 1) /\ b >= a /\ (a < BusLost => b = a + 1)
    BY <1>0, <2>3
  <2>5. /\ p # BusLost + 1 => a # BusLost + 1 /\ a >= p
        /\ n \in x.bus.connected => a # BusLost + 1
    BY <2>1, <2>2 DEF NodeSound, HushSound
  <2>6. q # BusLost + 1 => b # BusLost + 1 /\ b >= q
    BY <1>0, <2>3, <2>4, <2>5
  <2>7. HushSound(y, n)
    BY <1>2, <2>2, <2>4, <2>5, <2>6 DEF HushSound
  <2>8. WillEdge(x, n) => WillEdge(y, n)
    BY <1>0, <2>2, <2>3, <2>4 DEF WillEdge
  <2>9. Served(x, n, 0) => Served(y, n, 1)
    BY <1>0, <1>2, <1>3, <1>7 DEF Served, SameBus, SameSeen
  <2>10. CASE n \in x.drives.up
    BY <1>2, <2>1, <2>7, <2>8, <2>9, <2>10 DEF NodeSound, ServiceSound, UpSound, SameBus, SameSeen
  <2>11. CASE n \notin x.drives.up
    <3>1. PICK s, t, d, e : s = x.core.sinceArm /\ t = y.core.sinceArm
                            /\ d = x.drives.down[n] /\ e = y.drives.down[n]
      OBVIOUS
    <3>2. s \in Nat /\ d \in Nat /\ t <= s + 1 /\ e <= d + 1 /\ e <= BusStale /\ t \in Nat /\ e \in Nat
      BY <1>0, <1>3, <1>4, <1>6, <1>7, <3>1, <2>11
    <3>3. a >= s => WillEdge(y, n) \/ b >= t
      BY <1>0, <2>2, <2>3, <2>4, <3>2 DEF WillEdge
    <3>4. a >= d => WillEdge(y, n) \/ b >= e
      BY <1>0, <2>2, <2>3, <2>4, <3>2 DEF WillEdge
    <3>5. n \in x.bus.stored => DownSound(x, n)
      BY <2>1, <2>11 DEF NodeSound, ServiceSound
    <3>6. n \in x.bus.stored => DownSound(y, n)
      BY <1>2, <2>2, <2>8, <3>1, <3>3, <3>4, <3>5 DEF DownSound, SameBus, SameSeen
    <3> QED
      BY <1>2, <2>1, <2>7, <2>11, <3>6 DEF NodeSound, ServiceSound, SameBus, SameSeen
  <2> QED
    BY <2>10, <2>11
<1> QED
  BY <1>1, <1>2, <1>8, <1>9, <1>10 DEF BusSound, y

\* A stage after which the invariant holds again, with the same edges and drives.
BusKeeps(x, y) == BusSound(y, 0) /\ SameEdges(x, y) /\ y.drives.up = x.drives.up

LEMMA ServesIsKept ==
  ASSUME NEW x, NEW y, BusSound(x, 0), Serves(x, y)
  PROVE  BusKeeps(x, y)
BY ServingKeeps DEF BusKeeps, Serves, SameDrives

\* drain_config_resends
LEMMA DrainResendsServes ==
  ASSUME NEW x, BusShape(x), NEW in
  PROVE  Serves(x, Bus!DrainConfigResends(x, in))
<1>1. Serves(x, x)
  BY DEF Serves, SameClock, SameBus, SameEdges, SameDrives, SameSeen, SameTimes
<1>2. Serves(x, Bus!ResendConfig(x, {Bus!Min(x.core.pending)}, in))
  BY ResendServes
<1> QED
  BY <1>1, <1>2 DEF Bus!DrainConfigResends

\* Every stored node is gone through by a push of the whole configuration.
LEMMA StoredAreChecked ==
  ASSUME NEW x
  PROVE  x.bus.stored \subseteq Bus!Range(BusTargets) \cup {BusGripper} =>
           x.bus.stored \subseteq Bus!Checked(x)
BY DEF Bus!Checked, Bus!Arm, Bus!HasCanGripper

\* The bring-up is noted.
LEMMA BroughtUp ==
  ASSUME NEW b, BusShape(b), NEW y,
         y = [b EXCEPT !.core.reconfigured = TRUE, !.core.rescan = 1]
  PROVE  /\ BusShape(y) /\ y.bus = b.bus /\ y.seen = b.seen /\ y.drives = b.drives
         /\ y.core.sinceArm = b.core.sinceArm /\ y.core.rescan = 1 /\ y.core.reconfigured
BY DEF BusShape

\* What boot_configure finds out: nobody it did not hear counts as booted.
LEMMA BringUpKeeps ==
  ASSUME NEW x, BusSound(x, 1), Bus!BringsUpAgain(x), NEW in, in.answers \subseteq x.drives.up,
         NEW y, y = [Bus!BootConfigure(x, in) EXCEPT !.core.reconfigured = TRUE, !.core.rescan = 1]
  PROVE  BusKeeps(x, y)
<1> DEFINE got == IF in.fits THEN in.answers ELSE {}
           heard == [n \in BusNodes |-> IF n \in got THEN 0 ELSE BusLost + 1]
           fresh == [x EXCEPT !.bus.clock = Bus!ClockConfigured,
                              !.bus.override = Bus!NoOverride, !.bus.connected = {},
                              !.seen.quiet = [n \in BusNodes |-> BusLost + 1]]
           b == Bus!BootConfigure(x, in)
<1>0. BusLost \in Nat /\ BusStale \in Nat /\ BusSettle \in Nat
  BY BusAssumption
<1>1. /\ BusShape(fresh) /\ fresh.bus.clock.age = [n \in BusNodes |-> BusLost + 1]
      /\ fresh.bus.connected = {} /\ fresh.seen.quiet = [n \in BusNodes |-> BusLost + 1]
      /\ SameBus(x, fresh) /\ SameEdges(x, fresh) /\ SameSeen(x, fresh)
      /\ fresh.drives = x.drives /\ fresh.core = x.core
  BY DEF BusSound, BusShape, Bus!ClockConfigured, Bus!Never, SameBus, SameEdges, SameSeen
<1>2. b = IF ~in.fits THEN fresh
          ELSE [Bus!Configure(fresh, x.bus.stored) EXCEPT
                  !.bus.clock.age = [n \in BusNodes |-> IF n \in in.answers THEN 0 ELSE Bus!Never],
                  !.bus.connected = in.answers,
                  !.seen.quiet = [n \in BusNodes |-> IF n \in in.answers THEN 0 ELSE Bus!Never]]
  BY DEF Bus!BootConfigure, Bus!Never
<1> HIDE DEF fresh, b
<1>3. /\ BusShape(b) /\ b.bus.clock.age = heard /\ b.bus.connected = got /\ b.seen.quiet = heard
      /\ SameBus(x, b) /\ SameEdges(x, b) /\ SameSeen(x, b) /\ SameDrives(x, b) /\ b.core = x.core
  <2>1. CASE ~in.fits
    BY <1>1, <1>2, <2>1 DEF SameBus, SameEdges, SameSeen, SameDrives
  <2>2. CASE in.fits
    <3> DEFINE c == Bus!Configure(fresh, x.bus.stored)
    <3>1. Serves(fresh, c) /\ c.core = fresh.core
      BY <1>1, ConfigureServes
    <3>2. b = [c EXCEPT !.bus.clock.age = heard, !.bus.connected = got, !.seen.quiet = heard]
      BY <1>2, <2>2 DEF Bus!Never
    <3> HIDE DEF c, heard, got
    <3>3. /\ BusShape(b) /\ b.bus.clock.age = heard /\ b.bus.connected = got
          /\ b.seen.quiet = heard /\ b.drives = c.drives /\ b.core = c.core
          /\ SameBus(c, b) /\ SameEdges(c, b) /\ SameSeen(c, b)
      BY <3>1, <3>2 DEF Serves, BusShape, SameBus, SameEdges, SameSeen
    <3> QED
      BY <1>1, <3>1, <3>3 DEF Serves, SameBus, SameEdges, SameSeen, SameDrives
  <2> QED
    BY <2>1, <2>2
<1>4. /\ BusShape(y) /\ y.bus = b.bus /\ y.seen = b.seen /\ y.drives = b.drives
      /\ y.core.sinceArm = x.core.sinceArm /\ y.core.rescan = 1 /\ y.core.reconfigured
  <2>1. y = [b EXCEPT !.core.reconfigured = TRUE, !.core.rescan = 1]
    BY DEF b
  <2>2. BusShape(b) /\ b.core = x.core
    BY <1>3
  <2>3. /\ BusShape(y) /\ y.bus = b.bus /\ y.seen = b.seen /\ y.drives = b.drives
        /\ y.core.sinceArm = b.core.sinceArm /\ y.core.rescan = 1 /\ y.core.reconfigured
    BY <2>1, <2>2, BroughtUp
  <2> QED
    BY <2>2, <2>3
<1>5. y.core.sinceArm \in Nat /\ y.core.sinceArm < Bus!LastShot
  <2>1. x.core.rescan = 1 /\ ~x.core.reconfigured
    BY DEF Bus!BringsUpAgain, Bus!Rescans
  <2>2. x.core.sinceArm + 1 <= BusSettle + 1 /\ x.core.sinceArm \in Nat
    BY <2>1 DEF BusSound, BusTyped, SettleSound
  <2> QED
    BY <1>0, <1>4, <2>2, LastShotIsLate
<1>6. BusTyped(y)
  <2>1. /\ y.drives.down \in [BusNodes -> Nat] /\ \A n \in BusNodes : y.drives.down[n] <= BusStale
        /\ y.drives.up \subseteq BusNodes /\ y.seen.heard \subseteq y.drives.up
        /\ y.bus.stored \subseteq Bus!Range(BusTargets) \cup {BusGripper}
    BY <1>3, <1>4 DEF BusSound, BusTyped, SameDrives, SameBus, SameSeen
  <2>2. heard \in [BusNodes -> Nat] /\ \A n \in BusNodes : heard[n] <= BusLost + 1
    BY <1>0
  <2> HIDE DEF heard
  <2> QED
    BY <1>3, <1>4, <1>5, <2>1, <2>2 DEF BusTyped
<1>7. ASSUME NEW n \in BusNodes PROVE NodeSound(y, n, 0)
  <2>1. heard[n] = 0 \/ heard[n] = BusLost + 1
    OBVIOUS
  <2>2. n \in got => heard[n] = 0
    OBVIOUS
  <2>3. y.bus.clock.age[n] = heard[n] /\ y.seen.quiet[n] = heard[n] /\ y.bus.connected = got
    BY <1>3, <1>4
  <2>4. HushSound(y, n)
    <3> HIDE DEF heard, got
    <3> QED
      BY <1>0, <2>1, <2>2, <2>3 DEF HushSound
  <2>5. Served(y, n, 0)
    BY <1>5, LastShotIsLate DEF Served
  <2>6. n \in y.bus.stored /\ n \notin y.drives.up => WillEdge(y, n)
    <3>1. n \notin x.drives.up => n \notin got
      OBVIOUS
    <3>2. n \notin x.drives.up => heard[n] = BusLost + 1
      BY <3>1
    <3>3. y.drives.up = x.drives.up
      BY <1>3, <1>4 DEF SameDrives
    <3> QED
      BY <2>3, <3>2, <3>3 DEF WillEdge
  <2> QED
    BY <2>4, <2>5, <2>6 DEF NodeSound, ServiceSound, UpSound, DownSound
<1> QED
  BY <1>3, <1>4, <1>6, <1>7 DEF BusKeeps, BusSound, SettleSound, SameEdges, SameDrives

\* The boot one-shots: a shot that is due is sent, unless the link is being brought up.
LEMMA OneShotsKeep ==
  ASSUME NEW x, BusSound(x, 1), NEW in, in.answers \subseteq x.drives.up
  PROVE  BusKeeps(x, Bus!BootOneShots(x, in))
<1> DEFINE y == Bus!BootOneShots(x, in)
<1>0. BusLost \in Nat /\ BusStale \in Nat /\ BusSettle \in Nat /\ x.core.sinceArm \in Nat
      /\ x.core.rescan \in Nat
  BY BusAssumption DEF BusSound, BusTyped
<1>1. CASE Bus!BringsUpAgain(x)
  <2>1. y = [Bus!BootConfigure(x, in) EXCEPT !.core.reconfigured = TRUE, !.core.rescan = 1]
    BY <1>1 DEF Bus!BootOneShots
  <2> HIDE DEF y
  <2>2. BusKeeps(x, y)
    BY <1>1, <2>1, BringUpKeeps
  <2> QED
    BY <2>2 DEF y
<1>2. CASE ~Bus!BringsUpAgain(x) /\ Bus!CyclesLink(x)
  <2>1. y = [x EXCEPT !.core.recovered = TRUE, !.core.sinceArm = 0, !.core.rescan = BusSettle]
    BY <1>2 DEF Bus!BootOneShots
  <2> HIDE DEF y
  <2>2. /\ BusShape(y) /\ y.bus = x.bus /\ y.drives = x.drives /\ y.seen = x.seen
        /\ y.core.sinceArm = 0 /\ y.core.rescan = BusSettle
    BY <2>1 DEF BusSound, BusShape
  <2>3. BusTyped(y)
    BY <1>0, <2>2 DEF BusSound, BusTyped
  <2>4. SettleSound(y, 0)
    BY <1>0, <2>2 DEF SettleSound
  <2>5. ASSUME NEW n \in BusNodes PROVE NodeSound(y, n, 0)
    <3>1. HushSound(y, n)
      BY <2>2 DEF BusSound, NodeSound, HushSound
    <3>2. Served(y, n, 0)
      BY <1>0, <2>2, LastShotIsLate DEF Served
    <3>3. DownSound(y, n)
      <4>1. y.bus.clock.age[n] \in Nat /\ y.core.sinceArm = 0
        BY <2>2, <2>3 DEF BusTyped
      <4> QED
        BY <4>1 DEF DownSound
    <3> QED
      BY <3>1, <3>2, <3>3 DEF NodeSound, ServiceSound, UpSound
  <2>6. BusKeeps(x, y)
    BY <2>2, <2>3, <2>4, <2>5 DEF BusKeeps, BusSound, SameEdges
  <2> QED
    BY <2>6 DEF y
<1>3. CASE ~Bus!BringsUpAgain(x) /\ ~Bus!CyclesLink(x)
  <2> DEFINE a == Bus!AskIdentity(x)
             w == [a EXCEPT !.core.rescan = IF @ > 0 THEN @ - 1 ELSE 0]
             z == Bus!ScheduledShot(w, in)
  <2>1. y = Bus!DrainConfigResends(z, in)
    BY <1>3 DEF Bus!BootOneShots
  <2>2. BusSound(a, 1) /\ Serves(x, a)
    <3>1. Serves(x, x)
      BY DEF BusSound, Serves, SameClock, SameBus, SameEdges, SameDrives, SameSeen, SameTimes
    <3>2. Serves(x, Bus!QueueOverride(x, "deviceinfo", BusGripper))
      BY OverrideServes DEF BusSound
    <3>3. Serves(x, a)
      BY <3>1, <3>2 DEF Bus!AskIdentity
    <3> QED
      BY <3>3, ServingKeeps
  <2>3. /\ BusShape(w) /\ w.bus = a.bus /\ w.drives = a.drives /\ w.seen = a.seen
        /\ w.core.sinceArm = a.core.sinceArm /\ w.core.pending = a.core.pending
        /\ w.core.reconfigured = a.core.reconfigured
        /\ w.core.rescan = IF a.core.rescan > 0 THEN a.core.rescan - 1 ELSE 0
    <3> HIDE DEF a
    <3> QED
      BY <2>2 DEF BusSound, BusShape
  <2> HIDE DEF a, w, z, y
  <2>4. a.core.rescan \in Nat /\ a.core.sinceArm \in Nat
    BY <2>2 DEF BusSound, BusTyped
  <2>5. SettleSound(w, 0)
    BY <1>0, <2>2, <2>3, <2>4 DEF BusSound, SettleSound
  <2>6. BusTyped(w)
    BY <2>2, <2>3, <2>4 DEF BusSound, BusTyped
  <2>7. \A n \in BusNodes : NodeSound(w, n, 1)
    BY <2>2, <2>3 DEF BusSound, NodeSound, HushSound, ServiceSound, UpSound, DownSound,
                      Served, WillEdge
  <2>8. Serves(w, z) /\ \A n \in BusNodes : n \in w.bus.stored /\ n \in w.drives.up =>
                          Served(z, n, 0) \/ (n \notin z.seen.heard /\ WillEdge(z, n))
    <3>1. CASE w.core.sinceArm \in BusShots /\ ~w.bus.silent
      <4>1. z = Bus!ResendConfig(w, Bus!Checked(w), in)
        BY <3>1 DEF z, Bus!ScheduledShot, Bus!ConfigRepush
      <4>2. /\ Serves(w, z)
            /\ \A n \in Bus!Checked(w) \cap w.drives.up :
                 n \in z.drives.configured \/ n \in z.core.pending
        BY <2>3, <4>1, ResendServes
      <4>3. w.bus.stored \subseteq Bus!Checked(w)
        BY <2>6, StoredAreChecked DEF BusTyped
      <4> QED
        BY <4>2, <4>3 DEF Served
    <3>2. CASE ~(w.core.sinceArm \in BusShots /\ ~w.bus.silent)
      <4>1. z = w
        BY <3>2 DEF z, Bus!ScheduledShot
      <4>2. Serves(w, z)
        BY <2>3, <4>1 DEF Serves, SameClock, SameBus, SameEdges, SameDrives, SameSeen, SameTimes
      <4>3. w.bus.silent \/ w.core.sinceArm # Bus!LastShot
        BY <3>2, LastShotIsLate
      <4>4. w.core.sinceArm \in Nat
        BY <2>6 DEF BusTyped
      <4>5. \A n \in BusNodes : Served(w, n, 1) => Served(w, n, 0)
        BY <4>3, <4>4, LastShotIsLate DEF Served
      <4> QED
        BY <2>7, <4>1, <4>2, <4>5 DEF NodeSound, ServiceSound, UpSound
    <3> QED
      BY <3>1, <3>2
  <2>9. BusSound(w, 1)
    <3>1. SettleSound(w, 1)
      BY <1>0, <2>3, <2>4, <2>5, <2>6 DEF SettleSound, BusTyped
    <3> QED
      BY <2>3, <2>6, <2>7, <3>1 DEF BusSound
  <2>10. BusSound(z, 1)
    BY <2>8, <2>9, ServingKeeps
  <2>11. SettleSound(z, 0)
    BY <2>5, <2>8 DEF SettleSound, Serves, SameTimes
  <2>12. BusSound(z, 0)
    BY <2>8, <2>10, <2>11 DEF BusSound, NodeSound, ServiceSound, UpSound, Serves, SameBus, SameDrives
  <2>13. Serves(z, y)
    BY <2>1, <2>12, DrainResendsServes DEF BusSound
  <2>14. BusKeeps(z, y)
    BY <2>12, <2>13, ServesIsKept
  <2>15. SameEdges(x, z) /\ z.drives.up = x.drives.up
    BY <2>2, <2>3, <2>8 DEF Serves, SameEdges, SameDrives
  <2>16. BusKeeps(x, y)
    BY <2>14, <2>15 DEF BusKeeps, SameEdges
  <2> QED
    BY <2>16 DEF y
<1> QED
  BY <1>1, <1>2, <1>3

\* Errors cleared: "seen now" for every node of S, and who was not heard is hidden by it.
LEMMA ClearKeeps ==
  ASSUME NEW x, BusSound(x, 0), NEW S
  PROVE  BusKeeps(x, Bus!ClearErrors(x, S))
<1> DEFINE y == Bus!ClearErrors(x, S)
<1>0. BusLost \in Nat
  BY BusAssumption
<1>1. /\ BusShape(y) /\ y.bus.clock.age = [n \in BusNodes |-> IF n \in S THEN 0 ELSE x.bus.clock.age[n]]
      /\ y.seen.quiet = [n \in BusNodes |-> IF n \in S THEN 0 ELSE x.seen.quiet[n]]
  BY DEF BusSound, BusShape, Bus!ClearErrors, Bus!ClearLatch
<1>2. /\ y.seen.masked = x.seen.masked \cup (S \ x.seen.heard) /\ y.seen.heard = x.seen.heard
      /\ y.bus.connected = x.bus.connected /\ SameBus(x, y) /\ SameEdges(x, y)
      /\ y.drives = x.drives /\ y.core = x.core
  BY DEF BusSound, BusShape, Bus!ClearErrors, SameBus, SameEdges
<1> HIDE DEF y
<1>3. BusTyped(y)
  <2>1. /\ y.bus.clock.age \in [BusNodes -> Nat] /\ y.seen.quiet \in [BusNodes -> Nat]
        /\ \A n \in BusNodes : y.bus.clock.age[n] <= BusLost + 1 /\ y.seen.quiet[n] <= BusLost + 1
    BY <1>0, <1>1 DEF BusSound, BusTyped
  <2> QED
    BY <1>2, <2>1 DEF BusSound, BusTyped, SameBus
<1>4. SettleSound(y, 0)
  BY <1>2 DEF BusSound, SettleSound
<1>5. ASSUME NEW n \in BusNodes PROVE NodeSound(y, n, 0)
  <2>1. NodeSound(x, n, 0)
    BY DEF BusSound
  <2>2. CASE n \in S
    <3>1. y.bus.clock.age[n] = 0 /\ y.seen.quiet[n] = 0
      BY <1>1, <2>2
    <3>2. HushSound(y, n)
      BY <1>0, <3>1 DEF HushSound
    <3>3. n \in x.seen.heard \/ n \in y.seen.masked
      BY <1>2, <2>2
    <3>4. n \notin x.drives.up => n \in y.seen.masked
      BY <3>3 DEF BusSound, BusTyped
    <3> QED
      BY <1>2, <2>1, <3>2, <3>3, <3>4 DEF NodeSound, ServiceSound, UpSound, DownSound, Served, SameBus
  <2>3. CASE n \notin S
    <3>1. y.bus.clock.age[n] = x.bus.clock.age[n] /\ y.seen.quiet[n] = x.seen.quiet[n]
      BY <1>1, <2>3
    <3> QED
      BY <1>2, <2>1, <3>1 DEF NodeSound, HushSound, ServiceSound, UpSound, DownSound, Served,
                              WillEdge, SameBus
  <2> QED
    BY <2>2, <2>3
<1>6. BusKeeps(x, y)
  BY <1>1, <1>2, <1>3, <1>4, <1>5 DEF BusKeeps, BusSound
<1> QED
  BY <1>6 DEF y

\* Into FLASHING: a silent bus owes nothing until it is left.
LEMMA EnterKeeps ==
  ASSUME NEW x, BusSound(x, 0)
  PROVE  BusKeeps(x, Bus!EnterFlashing(x))
<1> DEFINE y == Bus!EnterFlashing(x)
<1>1. /\ BusShape(y) /\ SameClock(x, y) /\ SameEdges(x, y) /\ y.drives = x.drives
      /\ y.core = x.core /\ SameSeen(x, y) /\ y.bus.stored = x.bus.stored /\ y.bus.silent
  BY DEF BusSound, BusShape, Bus!EnterFlashing, SameClock, SameEdges, SameSeen
<1> HIDE DEF y
<1>2. BusTyped(y) /\ SettleSound(y, 0)
  BY <1>1 DEF BusSound, BusTyped, SettleSound, SameClock, SameSeen
<1>3. \A n \in BusNodes : NodeSound(y, n, 0)
  BY <1>1 DEF BusSound, NodeSound, HushSound, ServiceSound, UpSound, DownSound, Served, SameClock
<1>4. BusKeeps(x, y)
  BY <1>1, <1>2, <1>3 DEF BusKeeps, BusSound
<1> QED
  BY <1>4 DEF y

\* Out of FLASHING: the shots begin again, with every clock.
LEMMA LeaveKeeps ==
  ASSUME NEW x, BusSound(x, 0), NEW in
  PROVE  BusKeeps(x, Bus!LeaveFlashing(x, in))
<1> DEFINE y == [x EXCEPT !.bus.silent = FALSE, !.bus.clock = Bus!Rebase(@), !.core.sinceArm = 0,
                          !.seen.quiet = [n \in BusNodes |-> 0]]
<1>0. BusLost \in Nat /\ BusSettle \in Nat
  BY BusAssumption
<1>1. /\ BusShape(y) /\ y.bus.clock.age = [n \in BusNodes |-> 0]
      /\ y.seen.quiet = [n \in BusNodes |-> 0] /\ y.core.sinceArm = 0
  BY DEF BusSound, BusShape, Bus!Rebase
<1>2. /\ SameEdges(x, y) /\ y.drives = x.drives /\ y.seen.heard = x.seen.heard
      /\ y.bus.stored = x.bus.stored /\ y.core.rescan = x.core.rescan
      /\ y.core.reconfigured = x.core.reconfigured
  BY DEF BusSound, BusShape, SameEdges
<1>3. Bus!LeaveFlashing(x, in) = Bus!ResendConfig(y, Bus!Checked(y), in)
  BY DEF Bus!LeaveFlashing, Bus!ConfigRepush
<1> HIDE DEF y
<1>4. BusTyped(y)
  <2>1. \A n \in BusNodes : y.bus.clock.age[n] = 0 /\ y.seen.quiet[n] = 0
    BY <1>1
  <2> QED
    BY <1>0, <1>1, <1>2, <2>1 DEF BusSound, BusTyped
<1>5. SettleSound(y, 0)
  BY <1>0, <1>1, <1>2 DEF BusSound, BusTyped, SettleSound
<1>6. ASSUME NEW n \in BusNodes PROVE NodeSound(y, n, 0)
  <2>1. y.bus.clock.age[n] = 0 /\ y.seen.quiet[n] = 0
    BY <1>1
  <2>2. HushSound(y, n)
    BY <1>0, <2>1 DEF HushSound
  <2>3. Served(y, n, 0)
    BY <1>0, <1>1, LastShotIsLate DEF Served
  <2>4. DownSound(y, n)
    BY <1>1, <2>1 DEF DownSound
  <2> QED
    BY <2>2, <2>3, <2>4 DEF NodeSound, ServiceSound, UpSound
<1>7. BusSound(y, 0)
  BY <1>1, <1>4, <1>5, <1>6 DEF BusSound
<1>8. BusKeeps(y, Bus!LeaveFlashing(x, in))
  BY <1>3, <1>7, ResendServes, ServesIsKept DEF BusSound
<1> QED
  BY <1>2, <1>8 DEF BusKeeps, SameEdges

\* Another tool: its node is configured, or is hidden by what the operator did.
LEMMA FitKeeps ==
  ASSUME NEW x, BusSound(x, 0), NEW in, NEW driven
  PROVE  BusKeeps(x, Bus!FitTool(x, driven, in))
<1> DEFINE f == [x EXCEPT !.bus.clock = Bus!RefitGripper(@),
                          !.bus.stored = IF driven THEN @ \cup {BusGripper} ELSE @ \ {BusGripper},
                          !.seen.quiet = [n \in BusNodes |-> IF n = BusGripper THEN 0 ELSE @[n]]]
           y == Bus!FitTool(x, driven, in)
<1>0. BusLost \in Nat
  BY BusAssumption
<1>1. /\ BusShape(f)
      /\ f.bus.clock.age = [n \in BusNodes |-> IF n \in {BusGripper} THEN 0 ELSE x.bus.clock.age[n]]
      /\ f.seen.quiet = [n \in BusNodes |-> IF n = BusGripper THEN 0 ELSE x.seen.quiet[n]]
  BY DEF BusSound, BusShape, Bus!RefitGripper, Bus!ClearLatch
<1>2. /\ SameSeen(x, f) /\ f.bus.connected = x.bus.connected /\ f.bus.silent = x.bus.silent
      /\ SameEdges(x, f) /\ f.drives = x.drives /\ f.core = x.core
      /\ f.bus.stored = IF driven THEN x.bus.stored \cup {BusGripper}
                        ELSE x.bus.stored \ {BusGripper}
  BY DEF BusSound, BusShape, SameSeen, SameEdges
<1>3. \/ y = [f EXCEPT !.seen.masked = @ \cup {BusGripper}]
      \/ BusGripper \in x.drives.up /\ y = Bus!Configure(f, {BusGripper})
  BY DEF Bus!FitTool
<1> HIDE DEF f, y
<1>4. /\ BusShape(y) /\ SameClock(f, y) /\ SameBus(f, y) /\ SameEdges(f, y) /\ SameDrives(f, y)
      /\ y.seen.heard = f.seen.heard /\ SameTimes(f, y) /\ f.seen.masked \subseteq y.seen.masked
      /\ f.drives.configured \subseteq y.drives.configured /\ y.core.pending = f.core.pending
      /\ \/ BusGripper \in y.seen.masked
         \/ BusGripper \in y.drives.configured /\ BusGripper \in x.drives.up
  <2>1. CASE y = [f EXCEPT !.seen.masked = @ \cup {BusGripper}]
    BY <1>1, <2>1 DEF BusShape, SameClock, SameBus, SameEdges, SameDrives, SameTimes
  <2>2. CASE BusGripper \in x.drives.up /\ y = Bus!Configure(f, {BusGripper})
    <3>1. /\ Serves(f, y) /\ {BusGripper} \cap f.drives.up \subseteq y.drives.configured
          /\ y.core = f.core
      BY <1>1, <2>2, ConfigureServes
    <3> QED
      BY <1>2, <2>2, <3>1 DEF Serves, SameSeen
  <2> QED
    BY <1>3, <2>1, <2>2
<1>5. BusTyped(y)
  <2>1. /\ f.bus.clock.age \in [BusNodes -> Nat] /\ f.seen.quiet \in [BusNodes -> Nat]
        /\ \A n \in BusNodes : f.bus.clock.age[n] <= BusLost + 1 /\ f.seen.quiet[n] <= BusLost + 1
    BY <1>0, <1>1 DEF BusSound, BusTyped
  <2>2. /\ f.drives.up \subseteq BusNodes /\ f.seen.heard \subseteq f.drives.up
        /\ f.core.sinceArm \in Nat /\ f.core.rescan \in Nat
        /\ f.drives.down \in [BusNodes -> Nat] /\ \A n \in BusNodes : f.drives.down[n] <= BusStale
    BY <1>2 DEF BusSound, BusTyped, SameSeen
  <2>3. f.bus.stored \subseteq Bus!Range(BusTargets) \cup {BusGripper}
    BY <1>2 DEF BusSound, BusTyped
  <2> QED
    BY <1>4, <2>1, <2>2, <2>3 DEF BusTyped, SameClock, SameBus, SameDrives, SameTimes
<1>6. SettleSound(y, 0)
  BY <1>2, <1>4 DEF BusSound, SettleSound, SameTimes
<1>7. ASSUME NEW n \in BusNodes PROVE NodeSound(y, n, 0)
  <2>1. NodeSound(x, n, 0)
    BY DEF BusSound
  <2>2. CASE n = BusGripper
    <3>1. y.bus.clock.age[n] = 0 /\ y.seen.quiet[n] = 0
      BY <1>1, <1>4, <2>2 DEF SameClock
    <3>2. HushSound(y, n)
      BY <1>0, <3>1 DEF HushSound
    <3>3. n \in y.seen.masked \/ (n \in y.drives.configured /\ n \in y.drives.up)
      BY <1>2, <1>4, <2>2 DEF SameDrives
    <3> QED
      BY <3>2, <3>3 DEF NodeSound, ServiceSound, UpSound, DownSound, Served
  <2>3. CASE n # BusGripper
    <3>1. y.bus.clock.age[n] = x.bus.clock.age[n] /\ y.seen.quiet[n] = x.seen.quiet[n]
      BY <1>1, <1>4, <2>3 DEF SameClock
    <3>2. n \in y.bus.stored => n \in x.bus.stored
      BY <1>2, <1>4, <2>3 DEF SameBus
    <3>3. HushSound(y, n)
      BY <1>2, <1>4, <2>1, <3>1 DEF NodeSound, HushSound, SameClock
    <3>4. n \in x.bus.stored => ServiceSound(y, n, 0)
      BY <1>2, <1>4, <2>1, <3>1 DEF NodeSound, ServiceSound, UpSound, DownSound, Served,
         WillEdge, SameBus, SameDrives, SameTimes, SameSeen
    <3> QED
      BY <3>2, <3>3, <3>4 DEF NodeSound, ServiceSound
  <2> QED
    BY <2>2, <2>3
<1>8. BusKeeps(x, y)
  BY <1>2, <1>4, <1>5, <1>6, <1>7 DEF BusKeeps, BusSound, SameEdges, SameDrives
<1> QED
  BY <1>8 DEF y

\* The operator's commands.
LEMMA CommandKeeps ==
  ASSUME NEW x, BusSound(x, 0), NEW in, in.cmd \in Bus!Commands
  PROVE  BusKeeps(x, Bus!Command(x, in))
<1> DEFINE z == IF in.cmd = Bus!Nothing THEN x ELSE [x EXCEPT !.seen.cmds = @ + 1]
           y == Bus!Command(x, in)
<1>1. BusKeeps(x, z)
  <2>1. Serves(x, x) /\ Serves(x, [x EXCEPT !.seen.cmds = @ + 1])
    BY DEF BusSound, BusShape, Serves, SameClock, SameBus, SameEdges, SameDrives, SameSeen, SameTimes
  <2> QED
    BY <2>1, ServesIsKept
<1>2. \/ in.cmd.op = "none" /\ y = z
      \/ in.cmd.op = "clear" /\ y = Bus!ClearErrors(z, in.cmd.nodes)
      \/ in.cmd.op = "flash" /\ y = IF z.bus.silent THEN Bus!LeaveFlashing(z, in)
                                    ELSE Bus!EnterFlashing(z)
      \/ in.cmd.op = "fit" /\ y = Bus!FitTool(z, in.cmd.driven, in)
      \/ in.cmd.op = "rescan" /\ y = Bus!RescanBus(z)
  <2>1. in.cmd.op \in {"none", "clear", "flash", "fit", "rescan"}
    BY DEF Bus!Commands, Bus!Nothing
  <2> QED
    BY <2>1 DEF Bus!Command
<1> HIDE DEF z, y
<1>3. BusSound(z, 0)
  BY <1>1 DEF BusKeeps
<1>4. BusKeeps(z, Bus!RescanBus(z)) /\ BusKeeps(z, z)
  <2>1. Serves(z, z) /\ Serves(z, Bus!RescanBus(z))
    BY <1>3 DEF Bus!RescanBus, BusSound, BusShape, Serves, SameClock, SameBus, SameEdges,
       SameDrives, SameSeen, SameTimes
  <2> QED
    BY <1>3, <2>1, ServesIsKept
<1>5. BusKeeps(z, y)
  BY <1>2, <1>3, <1>4, ClearKeeps, EnterKeeps, LeaveKeeps, FitKeeps
<1>6. BusKeeps(x, y)
  BY <1>1, <1>5 DEF BusKeeps, SameEdges
<1> QED
  BY <1>6 DEF y

\* Between the drain and the resends a node with an edge may be unserved.
BusEdgy(x) ==
  /\ BusShape(x) /\ BusTyped(x) /\ SettleSound(x, 0)
  /\ x.bus.edges \subseteq x.drives.up /\ (x.bus.silent => x.bus.edges = {})
  /\ \A n \in BusNodes : HushSound(x, n) /\ (n \notin x.bus.edges => ServiceSound(x, n, 0))

\* A frame of a drive that was cut is an edge.
LEMMA RxKeeps ==
  ASSUME NEW x, BusSound(x, 0), x.bus.edges = {}, NEW in, in.heard \subseteq x.drives.up
  PROVE  BusEdgy(Bus!DrainRx(x, in)) /\ Bus!DrainRx(x, in).drives.up = x.drives.up
<1>1. CASE x.bus.silent
  <2>1. Bus!DrainRx(x, in) = x
    BY <1>1 DEF Bus!DrainRx
  <2> QED
    BY <2>1 DEF BusSound, BusEdgy, NodeSound
<1>2. CASE ~x.bus.silent
  <2> DEFINE S == in.heard
             edges == {n \in S : Bus!IsEdge(x.bus.clock, n, n \in x.bus.connected)}
             y == Bus!DrainRx(x, in)
  <2>0. BusLost \in Nat /\ BusStale \in Nat
    BY BusAssumption
  <2>1. /\ BusShape(y) /\ y.bus.clock.age = [n \in BusNodes |-> IF n \in S THEN 0 ELSE x.bus.clock.age[n]]
        /\ y.seen.quiet = [n \in BusNodes |-> IF n \in S THEN 0 ELSE x.seen.quiet[n]]
    BY <1>2 DEF BusSound, BusShape, Bus!DrainRx, Bus!ApplyRx, Bus!Mark
  <2>2. /\ y.bus.connected = x.bus.connected \cup S /\ y.bus.edges = x.bus.edges \cup edges
        /\ y.seen.heard = x.seen.heard \cup (S \cap x.drives.up)
        /\ y.seen.masked = x.seen.masked \ edges
    BY <1>2 DEF BusSound, BusShape, Bus!DrainRx, Bus!ApplyRx
  <2>3. SameBus(x, y) /\ y.drives = x.drives /\ y.core = x.core
    BY <1>2 DEF BusSound, BusShape, Bus!DrainRx, Bus!ApplyRx, SameBus
  <2> HIDE DEF y
  <2>4. BusTyped(y)
    <3>1. /\ y.bus.clock.age \in [BusNodes -> Nat] /\ y.seen.quiet \in [BusNodes -> Nat]
          /\ \A n \in BusNodes : y.bus.clock.age[n] <= BusLost + 1 /\ y.seen.quiet[n] <= BusLost + 1
      BY <2>0, <2>1 DEF BusSound, BusTyped
    <3>2. y.seen.heard \subseteq y.drives.up
      BY <2>2, <2>3 DEF BusSound, BusTyped
    <3> QED
      BY <2>3, <3>1, <3>2 DEF BusSound, BusTyped, SameBus
  <2>5. SettleSound(y, 0)
    BY <2>3 DEF BusSound, SettleSound
  <2>6. ASSUME NEW n \in BusNodes
        PROVE  HushSound(y, n) /\ (n \notin y.bus.edges => ServiceSound(y, n, 0))
    <3>1. NodeSound(x, n, 0)
      BY DEF BusSound
    <3>2. CASE n \in S
      <4>1. y.bus.clock.age[n] = 0 /\ y.seen.quiet[n] = 0
        BY <2>1, <3>2
      <4>2. HushSound(y, n)
        BY <2>0, <4>1 DEF HushSound
      <4>3. n \notin edges => ~WillEdge(x, n)
        <5>1. n \in x.bus.connected => x.bus.clock.age[n] # BusLost + 1
          BY <3>1 DEF NodeSound, HushSound
        <5> QED
          BY <3>2, <5>1 DEF WillEdge, Bus!IsEdge, Bus!Never
      <4>4. n \notin edges /\ n \in x.bus.stored => Served(x, n, 0)
        BY <3>1, <3>2, <4>3 DEF NodeSound, ServiceSound, UpSound
      <4>5. n \notin edges /\ n \in x.bus.stored => Served(y, n, 0)
        BY <4>4, <2>2, <2>3 DEF Served, SameBus
      <4>6. n \in y.drives.up /\ y.bus.stored = x.bus.stored
        BY <2>3, <3>2 DEF SameBus
      <4> QED
        BY <2>2, <4>2, <4>5, <4>6 DEF ServiceSound, UpSound
    <3>3. CASE n \notin S
      <4>1. y.bus.clock.age[n] = x.bus.clock.age[n] /\ y.seen.quiet[n] = x.seen.quiet[n]
        BY <2>1, <3>3
      <4>2. HushSound(y, n)
        BY <2>2, <3>1, <3>3, <4>1 DEF NodeSound, HushSound
      <4>3. /\ n \in y.seen.heard <=> n \in x.seen.heard
            /\ n \in y.seen.masked <=> n \in x.seen.masked
        BY <2>2, <3>3
      <4>4. ServiceSound(y, n, 0)
        BY <2>3, <3>1, <4>1, <4>3 DEF NodeSound, ServiceSound, UpSound, DownSound, Served,
           WillEdge, SameBus
      <4> QED
        BY <4>2, <4>4
    <3> QED
      BY <3>2, <3>3
  <2>7. y.bus.edges \subseteq y.drives.up /\ ~y.bus.silent
    BY <1>2, <2>2, <2>3 DEF SameBus
  <2>8. BusEdgy(y) /\ y.drives.up = x.drives.up
    BY <2>1, <2>3, <2>4, <2>5, <2>6, <2>7 DEF BusEdgy
  <2> QED
    BY <2>8 DEF y
<1> QED
  BY <1>1, <1>2

\* Self-heal moves the poll slot and its own arming.
LEMMA HealServes ==
  ASSUME NEW x, BusShape(x)
  PROVE  Serves(x, Bus!SelfHeal(x))
<1> DEFINE quiet == {n \in Bus!Checked(x) : Bus!Quiet(x, n)} \cap x.core.armed
           fresh == {n \in Bus!Checked(x) : Bus!Classify(x.bus.clock, n) = "fresh"}
           y == [x EXCEPT !.core.armed = (@ \ quiet) \cup fresh, !.seen.shot = @ \ fresh]
<1>1. \/ Bus!SelfHeal(x) = y
      \/ Bus!SelfHeal(x) = Bus!QueueOverride(y, "config", Bus!LastOf(quiet))
  BY DEF Bus!SelfHeal
<1> HIDE DEF quiet, fresh
<1>2. Serves(x, y)
  BY DEF BusShape, Serves, SameClock, SameBus, SameEdges, SameDrives, SameSeen, SameTimes
<1> HIDE DEF y
<1>3. Serves(y, Bus!QueueOverride(y, "config", Bus!LastOf(quiet)))
  BY <1>2, OverrideServes DEF Serves
<1> QED
  BY <1>1, <1>2, <1>3, ServesOn

\* check_errors: every edge is answered with the configuration, now or on a retry.
LEMMA CheckKeeps ==
  ASSUME NEW x, BusEdgy(x), NEW in
  PROVE  BusSound(Bus!CheckErrors(x, in), 0) /\ Bus!CheckErrors(x, in).drives.up = x.drives.up
<1>1. CASE x.bus.silent
  <2>1. Bus!CheckErrors(x, in) = x
    BY <1>1 DEF Bus!CheckErrors
  <2> QED
    BY <1>1, <2>1 DEF BusEdgy, BusSound, NodeSound
<1>2. CASE ~x.bus.silent
  <2> DEFINE h == Bus!SelfHeal(x)
             y == Bus!ResendConfig(h, x.bus.edges, in)
  <2>1. Bus!CheckErrors(x, in) = y
    BY <1>2 DEF Bus!CheckErrors
  <2>2. Serves(x, h)
    BY HealServes DEF BusEdgy
  <2> HIDE DEF h
  <2>3. /\ Serves(h, y)
        /\ \A n \in x.bus.edges \cap h.drives.up : n \in y.drives.configured \/ n \in y.core.pending
    BY <2>2, ResendServes DEF Serves
  <2> HIDE DEF y
  <2>4. Serves(x, y)
    BY <2>2, <2>3, ServesOn
  <2>5. BusTyped(y) /\ SettleSound(y, 0)
    BY <2>4 DEF BusEdgy, BusTyped, SettleSound, Serves, SameClock, SameBus, SameDrives, SameSeen,
                SameTimes
  <2>6. ASSUME NEW n \in BusNodes PROVE NodeSound(y, n, 0)
    <3>1. HushSound(y, n)
      BY <2>4 DEF BusEdgy, HushSound, Serves, SameClock
    <3>2. CASE n \in x.bus.edges
      <4>1. n \in y.drives.up /\ Served(y, n, 0)
        BY <2>2, <2>3, <2>4, <3>2 DEF BusEdgy, Served, Serves, SameDrives
      <4> QED
        BY <3>1, <4>1 DEF NodeSound, ServiceSound, UpSound
    <3>3. CASE n \notin x.bus.edges
      <4>1. ServiceSound(x, n, 0)
        BY <3>3 DEF BusEdgy
      <4>2. CASE n \in x.drives.up
        BY <2>4, <3>1, <4>1, <4>2 DEF NodeSound, ServiceSound, UpSound, Served, WillEdge, Serves,
           SameClock, SameBus, SameDrives, SameSeen, SameTimes
      <4>3. CASE n \notin x.drives.up
        BY <2>4, <3>1, <4>1, <4>3 DEF NodeSound, ServiceSound, DownSound, WillEdge, Serves,
           SameClock, SameBus, SameDrives, SameSeen, SameTimes
      <4> QED
        BY <4>2, <4>3
    <3> QED
      BY <3>2, <3>3
  <2>7. BusSound(y, 0) /\ y.drives.up = x.drives.up
    BY <2>4, <2>5, <2>6 DEF BusSound, Serves, SameDrives
  <2> QED
    BY <2>1, <2>7
<1> QED
  BY <1>1, <1>2

\* The scan and the poll slot.
LEMMA DispatchKeeps ==
  ASSUME NEW x, BusSound(x, 0), NEW in
  PROVE  BusSound(Bus!Dispatch(x, in), 0)
<1> DEFINE w == Bus!StepScan(x)
           o == w.bus.override
           v == [w EXCEPT !.bus.override = Bus!NoOverride]
           c == IF Bus!ResendAccepted(w, o.node, in) THEN Bus!Configure(v, {o.node}) ELSE v
           z == [c EXCEPT !.seen.shot = @ \cup {o.node}]
<1>0. Serves(x, x)
  BY DEF BusSound, Serves, SameClock, SameBus, SameEdges, SameDrives, SameSeen, SameTimes
<1>1. Serves(x, w)
  <2> DEFINE t == [x EXCEPT !.core.scan = Tail(@)]
  <2>1. Serves(x, t)
    BY DEF BusSound, BusShape, Serves, SameClock, SameBus, SameEdges, SameDrives, SameSeen, SameTimes
  <2>2. w = x \/ w = Bus!QueueOverride(t, "ping", Head(x.core.scan))
    BY DEF Bus!StepScan
  <2> HIDE DEF t, w
  <2>3. Serves(t, Bus!QueueOverride(t, "ping", Head(x.core.scan)))
    BY <2>1, OverrideServes DEF Serves
  <2> QED
    BY <1>0, <2>1, <2>2, <2>3, ServesOn
<1>2. Bus!Dispatch(x, in) = x \/ Bus!Dispatch(x, in) = v \/ Bus!Dispatch(x, in) = z
  BY DEF Bus!Dispatch, Bus!PollStep
<1> HIDE DEF w, o
<1>3. Serves(w, v)
  BY <1>1 DEF BusShape, Serves, SameClock, SameBus, SameEdges, SameDrives, SameSeen, SameTimes
<1> HIDE DEF v
<1>4. Serves(w, c)
  <2>1. Serves(v, Bus!Configure(v, {o.node}))
    BY <1>3, ConfigureServes DEF Serves
  <2> QED
    BY <1>3, <2>1, ServesOn
<1> HIDE DEF c
<1>5. Serves(c, z)
  BY <1>4 DEF BusShape, Serves, SameClock, SameBus, SameEdges, SameDrives, SameSeen, SameTimes
<1> HIDE DEF z
<1>6. Serves(x, v) /\ Serves(x, z)
  BY <1>1, <1>3, <1>4, <1>5, ServesOn
<1>7. BusSound(v, 0) /\ BusSound(z, 0)
  BY <1>6, ServingKeeps
<1> QED
  BY <1>2, <1>7

\* A tick.
LEMMA BusTickKeeps ==
  ASSUME BusInv, NEW in \in Bus!Inputs, Bus!Tick(in)
  PROVE  BusInv'
<1> DEFINE x1 == Bus!BeginTick(BusHere)
           x2 == Bus!BootOneShots(x1, in)
           x3 == Bus!Command(x2, in)
           x4 == Bus!DrainRx(x3, in)
           x5 == Bus!CheckErrors(x4, in)
           x6 == Bus!Dispatch(x5, in)
<1>0. /\ bus_bus' = [x6.bus EXCEPT !.edges = {}] /\ bus_core' = x6.core
      /\ bus_drives' = x6.drives /\ bus_seen' = x6.seen
  BY DEF Bus!Tick, Bus!Ticked, BusHere
<1>1. /\ in.heard \subseteq bus_drives.up /\ in.answers \subseteq bus_drives.up
      /\ in.cmd \in Bus!Commands
  BY DEF Bus!Inputs, Bus!Commands
<1>2. BusSound(BusHere, 0) /\ BusHere.bus.edges = {} /\ BusHere.drives.up = bus_drives.up
  BY DEF BusInv, BusHere
<1> HIDE DEF x1, x2, x3, x4, x5, x6
<1>3. BusSound(x1, 1) /\ x1.bus.edges = {} /\ x1.drives.up = bus_drives.up
  BY <1>2, BeginKeeps DEF x1, SameEdges
<1>4. BusSound(x2, 0) /\ x2.bus.edges = {} /\ x2.drives.up = bus_drives.up
  BY <1>1, <1>3, OneShotsKeep DEF x2, BusKeeps, SameEdges
<1>5. BusSound(x3, 0) /\ x3.bus.edges = {} /\ x3.drives.up = bus_drives.up
  BY <1>1, <1>4, CommandKeeps DEF x3, BusKeeps, SameEdges
<1>6. BusEdgy(x4) /\ x4.drives.up = bus_drives.up
  BY <1>1, <1>5, RxKeeps DEF x4
<1>7. BusSound(x5, 0)
  BY <1>6, CheckKeeps DEF x5
<1>8. BusSound(x6, 0)
  BY <1>7, DispatchKeeps DEF x6
<1>9. BusInv'
  <2> DEFINE y == [bus |-> [x6.bus EXCEPT !.edges = {}], core |-> x6.core,
                   drives |-> x6.drives, seen |-> x6.seen]
  <2>1. /\ BusShape(y) /\ SameClock(x6, y) /\ SameBus(x6, y) /\ y.drives = x6.drives
        /\ y.core = x6.core /\ y.seen = x6.seen /\ y.bus.edges = {}
    BY <1>8 DEF BusSound, BusShape, SameClock, SameBus
  <2>2. BusHere' = y
    BY <1>0 DEF BusHere
  <2> HIDE DEF y
  <2>3. BusTyped(y) /\ SettleSound(y, 0)
    BY <1>8, <2>1 DEF BusSound, BusTyped, SettleSound, SameClock, SameBus
  <2>4. \A n \in BusNodes : NodeSound(y, n, 0)
    BY <1>8, <2>1 DEF BusSound, NodeSound, HushSound, ServiceSound, UpSound, DownSound, Served,
                      WillEdge, SameClock, SameBus
  <2>5. BusSound(y, 0)
    BY <2>1, <2>3, <2>4 DEF BusSound
  <2>6. bus_bus'.edges = {}
    BY <2>1, <2>2 DEF BusHere
  <2> QED
    BY <2>2, <2>5, <2>6 DEF BusInv
<1> QED
  BY <1>9

\* A drive loses or gets back its power, or is rewritten.
LEMMA BusPowerKeeps ==
  ASSUME BusInv, NEW n \in BusNodes, Bus!PowerCut(n) \/ Bus!PowerUp(n) \/ Bus!Reflash(n)
  PROVE  BusInv'
<1> DEFINE x == BusHere
           y == [bus |-> bus_bus', core |-> bus_core', drives |-> bus_drives', seen |-> bus_seen']
<1>0. /\ BusSound(x, 0) /\ x.bus = bus_bus /\ x.core = bus_core /\ x.drives = bus_drives
      /\ x.seen = bus_seen /\ bus_bus.edges = {}
      /\ y.bus = bus_bus' /\ y.core = bus_core' /\ y.drives = bus_drives' /\ y.seen = bus_seen'
      /\ BusHere' = y /\ DOMAIN y = {"bus", "core", "drives", "seen"}
  BY DEF BusInv, BusHere
<1> HIDE DEF x, y
<1> DEFINE Cut == /\ n \in x.drives.up /\ y.drives.up = x.drives.up \ {n}
                  /\ y.drives.configured = x.drives.configured \ {n}
                  /\ y.drives.down = [x.drives.down EXCEPT ![n] = 0]
                  /\ y.seen.heard = x.seen.heard \ {n}
           Rise == /\ n \notin x.drives.up /\ x.drives.down[n] = BusStale
                   /\ y.drives.up = x.drives.up \cup {n}
                   /\ y.drives.configured = x.drives.configured
                   /\ y.drives.down = x.drives.down /\ y.seen.heard = x.seen.heard
           Flash == /\ x.bus.silent /\ n \in x.drives.up /\ y.drives.up = x.drives.up
                    /\ y.drives.configured = x.drives.configured \ {n}
                    /\ y.drives.down = x.drives.down /\ y.seen.heard = x.seen.heard \ {n}
           Rest == /\ y.bus = x.bus /\ y.core = x.core /\ BusShape(y)
                   /\ y.seen.quiet = x.seen.quiet /\ y.seen.masked = x.seen.masked
<1>a. BusShape(x)
  BY <1>0 DEF BusSound
<1>1. Rest /\ (Cut \/ Rise \/ Flash)
  <2>1. CASE Bus!PowerCut(n)
    <3>1. /\ n \in x.drives.up /\ y.bus = x.bus /\ y.core = x.core
          /\ y.drives = [x.drives EXCEPT !.up = @ \ {n}, !.configured = @ \ {n},
                                         !.down[n] = 0, !.cuts = @ + 1]
          /\ y.seen = [x.seen EXCEPT !.heard = @ \ {n}]
      BY <1>0, <2>1 DEF Bus!PowerCut
    <3>2. Rest
      BY <1>0, <1>a, <3>1 DEF BusShape
    <3>3. Cut
      BY <1>a, <3>1 DEF BusShape
    <3> QED
      BY <3>2, <3>3
  <2>2. CASE Bus!PowerUp(n)
    <3>1. /\ n \notin x.drives.up /\ x.drives.down[n] = BusStale /\ y.bus = x.bus
          /\ y.core = x.core /\ y.drives = [x.drives EXCEPT !.up = @ \cup {n}] /\ y.seen = x.seen
      BY <1>0, <2>2 DEF Bus!PowerUp
    <3>2. Rest
      BY <1>0, <1>a, <3>1 DEF BusShape
    <3>3. Rise
      BY <1>a, <3>1 DEF BusShape
    <3> QED
      BY <3>2, <3>3
  <2>3. CASE Bus!Reflash(n)
    <3>1. /\ x.bus.silent /\ n \in x.drives.up /\ y.bus = x.bus /\ y.core = x.core
          /\ y.drives = [x.drives EXCEPT !.configured = @ \ {n}, !.cuts = @ + 1]
          /\ y.seen = [x.seen EXCEPT !.heard = @ \ {n}]
      BY <1>0, <2>3 DEF Bus!Reflash
    <3>2. Rest
      BY <1>0, <1>a, <3>1 DEF BusShape
    <3>3. Flash
      BY <1>a, <3>1 DEF BusShape
    <3> QED
      BY <3>2, <3>3
  <2> QED
    BY <2>1, <2>2, <2>3
<1>2. \A m \in BusNodes \ {n} : /\ m \in y.seen.heard <=> m \in x.seen.heard
                                /\ m \in y.drives.up <=> m \in x.drives.up
                                /\ m \in y.drives.configured <=> m \in x.drives.configured
  BY <1>1
<1>3. /\ y.drives.down \in [BusNodes -> Nat]
      /\ \A m \in BusNodes : y.drives.down[m] <= BusStale
      /\ \A m \in BusNodes \ {n} : y.drives.down[m] = x.drives.down[m]
  <2>1. /\ x.drives.down \in [BusNodes -> Nat] /\ \A m \in BusNodes : x.drives.down[m] <= BusStale
        /\ BusStale \in Nat
    BY <1>0, BusAssumption DEF BusSound, BusTyped
  <2>2. y.drives.down = x.drives.down \/ y.drives.down = [x.drives.down EXCEPT ![n] = 0]
    BY <1>1
  <2> QED
    BY <2>1, <2>2
<1>4. y.drives.up \subseteq BusNodes /\ y.seen.heard \subseteq y.drives.up
  <2>1. x.drives.up \subseteq BusNodes /\ x.seen.heard \subseteq x.drives.up
    BY <1>0 DEF BusSound, BusTyped
  <2> QED
    BY <1>1, <2>1
<1>5. BusTyped(y) /\ SettleSound(y, 0)
  BY <1>0, <1>1, <1>2, <1>3, <1>4 DEF BusSound, BusTyped, SettleSound
<1>6. ASSUME NEW m \in BusNodes PROVE NodeSound(y, m, 0)
  <2>1. NodeSound(x, m, 0)
    BY <1>0 DEF BusSound
  <2>2. HushSound(y, m)
    BY <1>1, <1>2, <2>1 DEF NodeSound, HushSound
  <2>3. CASE m # n
    BY <1>1, <1>2, <1>3, <2>1, <2>2, <2>3 DEF NodeSound, ServiceSound, UpSound, DownSound, Served,
       WillEdge
  <2>4. CASE m = n
    <3>1. CASE n \in x.drives.up /\ n \notin y.drives.up
      <4>1. y.drives.down[n] = 0 /\ y.bus.clock.age[n] \in Nat
        BY <1>0, <1>1, <1>5, <3>1 DEF BusSound, BusTyped
      <4> QED
        BY <2>2, <2>4, <3>1, <4>1 DEF NodeSound, ServiceSound, DownSound
    <3>2. CASE n \notin x.drives.up /\ n \in y.drives.up
      <4>1. x.drives.down[n] = BusStale /\ n \notin y.seen.heard
        BY <1>0, <1>1, <3>2 DEF BusSound, BusTyped
      <4>2. n \in x.bus.stored => DownSound(x, n)
        BY <2>1, <2>4, <3>2 DEF NodeSound, ServiceSound
      <4>3. /\ x.bus.clock.age[n] \in Nat /\ x.core.sinceArm \in Nat /\ BusStale \in Nat
            /\ Bus!LastShot \in Nat /\ BusStale <= Bus!LastShot
        BY <1>0, BusAssumption, LastShotIsLate DEF BusSound, BusTyped
      <4>4. n \in x.bus.stored => WillEdge(x, n) \/ n \in x.seen.masked \/ x.bus.silent
                                  \/ x.core.sinceArm < Bus!LastShot
        BY <4>1, <4>2, <4>3 DEF DownSound, WillEdge
      <4>5. n \in y.bus.stored => UpSound(y, n, 0)
        BY <1>1, <1>2, <4>1, <4>3, <4>4 DEF UpSound, Served, WillEdge
      <4> QED
        BY <2>2, <2>4, <3>2, <4>5 DEF NodeSound, ServiceSound
    <3>3. CASE n \in x.drives.up /\ n \in y.drives.up
      <4>1. y.bus.silent
        BY <1>1, <3>3
      <4> QED
        BY <2>2, <2>4, <3>3, <4>1 DEF NodeSound, ServiceSound, UpSound, Served
    <3>4. ~(n \notin x.drives.up /\ n \notin y.drives.up)
      BY <1>1
    <3> QED
      BY <3>1, <3>2, <3>3, <3>4
  <2> QED
    BY <2>3, <2>4
<1>7. BusSound(y, 0)
  BY <1>1, <1>5, <1>6 DEF BusSound
<1>8. bus_bus'.edges = {}
  BY <1>0, <1>1
<1> QED
  BY <1>0, <1>7, <1>8 DEF BusInv

LEMMA BusInitially == Bus!Init => BusInv
<1> SUFFICES ASSUME Bus!Init PROVE BusInv
  OBVIOUS
<1>0. BusLost \in Nat /\ BusStale \in Nat /\ BusSettle \in Nat
  BY BusAssumption
<1>1. PICK up \in InitUps :
        bus_drives = [up |-> up, configured |-> up \cap Bus!Range(BusTargets),
                      down |-> [n \in BusNodes |-> 0], cuts |-> 0]
  BY DEF Bus!Init
<1>2. up \subseteq BusNodes /\ bus_drives.up = up
  BY <1>1, BusAssumption
<1> DEFINE age == [n \in BusNodes |-> IF n \in up THEN 0 ELSE BusLost + 1]
<1>3. /\ bus_bus = [clock |-> [Bus!ClockConfigured EXCEPT !.age = age],
                    connected |-> up, stored |-> Bus!Range(BusTargets), silent |-> FALSE,
                    override |-> Bus!NoOverride, edges |-> {}]
      /\ bus_core = [armed |-> Bus!Range(BusTargets), pending |-> {}, sinceArm |-> 0, scan |-> <<>>,
                     sinceBoot |-> 0, recovered |-> FALSE, rescan |-> 0, reconfigured |-> FALSE]
      /\ bus_seen = [heard |-> {}, masked |-> {}, shot |-> {}, cmds |-> 0, quiet |-> age]
  BY <1>2 DEF Bus!Init, Bus!Never
<1>4. age \in [BusNodes -> Nat] /\ \A n \in BusNodes : age[n] <= BusLost + 1
      /\ (n \in up => age[n] = 0)
  BY <1>0
<1> DEFINE x == BusHere
<1> HIDE DEF age
<1>5. /\ x.bus.clock.age = age /\ x.bus.connected = up /\ x.bus.stored = Bus!Range(BusTargets)
      /\ x.core.sinceArm = 0 /\ x.core.rescan = 0
      /\ x.seen.heard = {} /\ x.seen.quiet = age
  BY <1>3 DEF BusHere, Bus!ClockConfigured
<1>6. /\ x.drives.up = up /\ x.drives.down = [n \in BusNodes |-> 0]
  BY <1>1 DEF BusHere
<1>7. BusShape(x) /\ bus_bus.edges = {}
  BY <1>1, <1>3 DEF BusHere, BusShape, Bus!ClockConfigured
<1> HIDE DEF x
<1>8. BusTyped(x)
  <2>1. \A n \in BusNodes : x.drives.down[n] = 0
    BY <1>6
  <2> QED
    BY <1>0, <1>2, <1>4, <1>5, <1>6, <2>1 DEF BusTyped
<1>9. SettleSound(x, 0)
  BY <1>5 DEF SettleSound
<1>10. ASSUME NEW n \in BusNodes PROVE NodeSound(x, n, 0)
  <2>1. age[n] \in Nat /\ (n \in up => age[n] = 0)
    BY <1>4
  <2>2. HushSound(x, n)
    BY <1>0, <1>5, <2>1 DEF HushSound
  <2>3. Served(x, n, 0)
    BY <1>0, <1>5, LastShotIsLate DEF Served
  <2>4. DownSound(x, n)
    BY <1>5, <2>1 DEF DownSound
  <2> QED
    BY <2>2, <2>3, <2>4 DEF NodeSound, ServiceSound, UpSound
<1> QED
  BY <1>7, <1>8, <1>9, <1>10 DEF BusInv, BusSound, x

LEMMA BusStep == BusInv /\ [Bus!Next]_(Bus!vars) => BusInv'
<1> SUFFICES ASSUME BusInv, [Bus!Next]_(Bus!vars) PROVE BusInv'
  OBVIOUS
<1>1. CASE UNCHANGED Bus!vars
  BY <1>1 DEF Bus!vars, BusInv, BusHere, BusSound, BusShape, BusTyped, SettleSound, NodeSound,
     HushSound, ServiceSound, UpSound, DownSound, Served, WillEdge
<1>2. CASE \E in \in Bus!Inputs : Bus!Tick(in)
  BY <1>2, BusTickKeeps
<1>3. CASE \E n \in BusNodes : Bus!PowerCut(n) \/ Bus!PowerUp(n) \/ Bus!Reflash(n)
  BY <1>3, BusPowerKeeps
<1> QED
  BY <1>1, <1>2, <1>3 DEF Bus!Next

(* A drive heard from holds its configuration or is about to get it, and a silence as long
   as the lost window is reported, for any drives, windows and shots, through any number of
   power cuts, reflashes and operator commands (par6-bus hw/sched.rs FreshnessClock, par6-rt
   core.rs boot_oneshots, drain_config_resends, check_errors). *)
THEOREM DrivesStayAccounted == Bus!Spec => []DrivesAccounted
<1>1. BusInv => DrivesAccounted
  <2> SUFFICES ASSUME BusInv PROVE Bus!HeardDriveIsConfigured /\ Bus!SilenceIsReported
    BY DEF DrivesAccounted, Bus!DrivesAccounted
  <2> DEFINE x == BusHere
  <2>0. /\ BusSound(x, 0) /\ x.bus = bus_bus /\ x.core = bus_core /\ x.drives = bus_drives
        /\ x.seen = bus_seen
    BY DEF BusInv, BusHere
  <2>1. BusLost \in Nat /\ BusStale \in Nat /\ BusStale <= BusLost /\ Bus!LastShot \in Nat
    BY BusAssumption, LastShotIsLate
  <2> HIDE DEF x
  <2>2. ASSUME NEW n \in bus_seen.heard \cap bus_bus.stored
        PROVE  \/ n \in bus_drives.configured \/ n \in bus_core.pending
               \/ bus_core.sinceArm < Bus!LastShot \/ bus_bus.silent \/ n \in bus_seen.masked
    <3>1. n \in x.drives.up /\ n \in BusNodes /\ x.core.sinceArm \in Nat
      BY <2>0 DEF BusSound, BusTyped
    <3>2. Served(x, n, 0)
      BY <2>0, <3>1 DEF BusSound, NodeSound, ServiceSound, UpSound
    <3> QED
      BY <2>0, <2>1, <3>1, <3>2 DEF Served
  <2>3. ASSUME NEW n \in BusNodes, bus_seen.quiet[n] = BusLost, ~bus_bus.silent
        PROVE  Bus!Classify(bus_bus.clock, n) = "lost"
    <3>1. PICK a : a = bus_bus.clock.age[n]
      OBVIOUS
    <3>2. a \in Nat /\ a <= BusLost + 1
      BY <2>0, <3>1 DEF BusSound, BusTyped
    <3>3. a # BusLost + 1 /\ a >= BusLost
      BY <2>0, <2>1, <2>3, <3>1 DEF BusSound, NodeSound, HushSound
    <3> QED
      BY <3>1, <3>3 DEF Bus!Classify, Bus!Never
  <2>4. Bus!HeardDriveIsConfigured
    BY <2>2 DEF Bus!HeardDriveIsConfigured
  <2>5. Bus!SilenceIsReported
    BY <2>3 DEF Bus!SilenceIsReported
  <2> QED
    BY <2>4, <2>5
<1> QED
  BY <1>1, BusInitially, BusStep, PTL DEF Bus!Spec

-----------------------------------------------------------------------------
(* Homing.  A hall joint is latched at its band's edge because of what its *)
(* node's answers can still say: the invariant relates the cached answer,  *)
(* the command it answers, the band and the phase of the joint's FSM.      *)

\* The phases a hall joint passes through.
HallPhases == {"Approach", "Preclear", "Brake", "Settle", "PostMove", "Finished", "Failed"}

\* Before its first command an approach has asked for nothing; if a pre-clear saw the joint
\* off the band, it is off.
ApproachBegins(h, b, s) ==
  h.phase = "Approach" /\ h.elapsed = 0
    => /\ s.kind \notin {"hall", "reverseHall"}
       /\ h.clear => ~b.on

\* Afterwards every answer is to this approach; one that has come read off, so that the
\* band, if the joint is on it, was crossed by this approach; one that has not come is lost.
ApproachAsks(h, b, s, c) ==
  h.phase = "Approach" /\ h.elapsed # 0
    => /\ s.kind = "hall" /\ s.leg = h.leg
       /\ c.leg \in {0, h.leg}
       /\ c.leg # 0 => ~c.on
       /\ c.leg # 0 \/ h.clear => (b.on => b.crossed = h.leg)
       /\ c.leg = 0 => b.lost = h.elapsed - 1

\* A pre-clear goes on while its answers read on.
PreclearAsks(h, s, c) ==
  h.phase = "Preclear"
    => /\ h.elapsed = 0 => s.kind \notin {"hall", "reverseHall"}
       /\ h.elapsed # 0 => s.kind = "reverseHall"
       /\ c.leg # 0 => c.on

HallFsm(h, b, s, c) ==
  /\ h.phase \in HallPhases /\ h.elapsed \in Nat /\ h.leg \in Nat
  /\ h.phase \in {"Approach", "Preclear"} => h.leg # 0
  /\ ApproachBegins(h, b, s) /\ ApproachAsks(h, b, s, c) /\ PreclearAsks(h, s, c)
  /\ h.phase \in {"Brake", "Settle"} => h.latched = "edge"

\* Only the joints of the step that is homing have an FSM that runs.
OthersRest ==
  \A i \in HomeHalls :
    Home!Running(home_homers[i]) => home_run.part = "Home" /\ i \in Home!Home(home_run.step)

\* A joint counts as done by the reference of this run.
DoneIsOwn ==
  \A j \in HomeJoints :
    home_statuses[j] = "Done"
      => home_ref[j].run = home_run.count /\ (j \in HomeHalls => home_ref[j].at = "edge")

\* The fields of Homer.
HomerFields ==
  {"phase", "elapsed", "pass", "hits", "latched", "clear", "spent", "still", "at", "started",
   "postElapsed", "streak", "leg"}

HomeShapes ==
  /\ home_run.active \in BOOLEAN
  /\ DOMAIN home_run = {"active", "elapsed", "step", "part", "checkLeft", "count"}
  /\ DOMAIN home_homers = Home!Actuators /\ DOMAIN home_sent = Home!Actuators
  /\ DOMAIN home_statuses = Home!Actuators
  /\ DOMAIN home_hall = HomeHalls /\ DOMAIN home_band = HomeHalls /\ DOMAIN home_ref = HomeJoints
  /\ \A i \in HomeHalls :
       /\ DOMAIN home_homers[i] = HomerFields /\ home_homers[i].leg \in Nat
       /\ home_band[i].on \in BOOLEAN /\ home_band[i].lost \in 0..HomeLosses

HomeInv ==
  /\ HomeShapes
  /\ home_run.active
       => /\ OthersRest /\ DoneIsOwn
          /\ \A i \in HomeHalls :
               HallFsm(home_homers[i], home_band[i], home_sent[i], home_hall[i])
  /\ home_homed \in BOOLEAN
  /\ home_homed => ~home_run.active /\ Home!HomedOnOwnEvidence

-----------------------------------------------------------------------------
(* One tick of a hall joint's FSM, for every answer its node may give. *)

\* What a tick may bring of a joint on band b whose node was sent s and last answered c: the
\* band b2 it is on now, and the answer c2 the tick reads.
Heard(b, s, c, b2, c2) ==
  \E moved, answered \in BOOLEAN :
    /\ moved => s.kind \in {"hall", "reverseHall"} /\ (b.on <=> s.kind = "reverseHall")
    /\ answered => s.kind \in {"hall", "reverseHall"}
    /\ s.kind \in {"hall", "reverseHall"} /\ ~answered => b.lost < HomeLosses
    /\ b2.on = (IF moved THEN ~b.on ELSE b.on)
    /\ b2.crossed = (IF moved /\ b2.on THEN s.leg ELSE b.crossed)
    /\ b2.lost = (IF s.kind \in {"hall", "reverseHall"} /\ ~answered THEN b.lost + 1 ELSE 0)
    /\ IF answered THEN c2.on = b2.on /\ c2.leg = s.leg /\ c2.edge = (b2.crossed = s.leg)
                   ELSE c2 = c

\* What is shown of a tick's result.
Ticked(r, b2) ==
  /\ DOMAIN r.h = HomerFields
  /\ HallFsm(r.h, b2, r.cmd, r.hall)
  /\ r.event = "reference" => r.h.latched = "edge"

\* A tick whose FSM stays in a phase, or goes to one, that asks the sensor nothing.
LEMMA QuietTicked ==
  ASSUME NEW r, NEW b2, DOMAIN r.h = HomerFields,
         r.h.phase \in {"Brake", "Settle", "PostMove", "Finished", "Failed"},
         r.h.elapsed \in Nat, r.h.leg \in Nat,
         r.h.phase \in {"Brake", "Settle"} => r.h.latched = "edge",
         r.event = "reference" => r.h.latched = "edge"
  PROVE  Ticked(r, b2)
  BY DEF Ticked, HallFsm, HallPhases, ApproachBegins, ApproachAsks, PreclearAsks

LEMMA BrakeQuiet ==
  ASSUME NEW h, NEW c, DOMAIN h = HomerFields, h.elapsed \in Nat, h.leg \in Nat,
         h.phase = "Brake", h.latched = "edge", NEW b2
  PROVE  Ticked(Home!Brake(h, c), b2)
  <1> DEFINE r == Home!Brake(h, c)
  <1>1. /\ DOMAIN r.h = HomerFields /\ r.h.phase \in {"Brake", "Settle"}
        /\ r.h.elapsed \in Nat /\ r.h.leg \in Nat /\ r.h.latched = "edge" /\ r.event = "none"
    BY DEF Home!Brake, Home!Result, HomerFields
  <1> HIDE DEF r
  <1>2. Ticked(r, b2)
    BY <1>1, QuietTicked
  <1>3. QED
    BY <1>2 DEF r

LEMMA SettleQuiet ==
  ASSUME NEW h, NEW j, NEW read, NEW c, DOMAIN h = HomerFields, h.elapsed \in Nat,
         h.leg \in Nat, h.phase = "Settle", h.latched = "edge", NEW b2
  PROVE  Ticked(Home!SettleTick(h, j, read, c), b2)
  <1> DEFINE r == Home!SettleTick(h, j, read, c)
  <1>1. /\ DOMAIN r.h = HomerFields /\ r.h.phase \in {"Settle", "PostMove", "Finished", "Failed"}
        /\ r.h.elapsed \in Nat /\ r.h.leg \in Nat /\ r.h.latched = "edge"
    BY DEF Home!SettleTick, Home!FailHomer, Home!Result, HomerFields
  <1> HIDE DEF r
  <1>2. Ticked(r, b2)
    BY <1>1, QuietTicked
  <1>3. QED
    BY <1>2 DEF r

LEMMA PostMoveQuiet ==
  ASSUME NEW h, NEW read, NEW c, DOMAIN h = HomerFields, h.elapsed \in Nat, h.leg \in Nat,
         h.phase = "PostMove", NEW b2
  PROVE  Ticked(Home!PostMoveTick(h, read, c), b2)
  <1> DEFINE r == Home!PostMoveTick(h, read, c)
  <1>1. /\ DOMAIN r.h = HomerFields /\ r.h.phase \in {"PostMove", "Finished", "Failed"}
        /\ r.h.elapsed \in Nat /\ r.h.leg \in Nat /\ r.event # "reference"
    BY DEF Home!PostMoveTick, Home!FailHomer, Home!Result, HomerFields
  <1> HIDE DEF r
  <1>2. Ticked(r, b2)
    BY <1>1, QuietTicked
  <1>3. QED
    BY <1>2 DEF r

LEMMA FailQuiet ==
  ASSUME NEW h, NEW c, DOMAIN h = HomerFields, h.elapsed \in Nat, h.leg \in Nat, NEW b2
  PROVE  Ticked(Home!FailHomer(h, c), b2)
  <1> DEFINE r == Home!FailHomer(h, c)
  <1>1. /\ DOMAIN r.h = HomerFields /\ r.h.phase = "Failed"
        /\ r.h.elapsed \in Nat /\ r.h.leg \in Nat /\ r.event # "reference"
    BY DEF Home!FailHomer, Home!Result, HomerFields
  <1> HIDE DEF r
  <1>2. Ticked(r, b2)
    BY <1>1, QuietTicked
  <1>3. QED
    BY <1>2 DEF r

\* An approach: the answer that reads on is to this approach, and the joint was off the band
\* when it began or the trigger comes too early to be believed.
LEMMA ApproachTicked ==
  ASSUME NEW j \in HomeHalls, NEW h, NEW read, NEW b, NEW s, NEW c, NEW b2, NEW c2,
         DOMAIN h = HomerFields, HallFsm(h, b, s, c), h.phase = "Approach",
         b.on \in BOOLEAN, b.lost \in 0..HomeLosses, Heard(b, s, c, b2, c2)
  PROVE  Ticked(Home!ApproachTick(h, j, read, c2), b2)
  <1> DEFINE e == [h EXCEPT !.elapsed = @ + 1]
             k == Home!OwnAnswers(c2, e.elapsed = 1)
             r == Home!ApproachTick(h, j, read, c2)
  <1>1. /\ DOMAIN e = HomerFields /\ e.phase = "Approach" /\ e.elapsed = h.elapsed + 1
        /\ e.leg = h.leg /\ e.clear = h.clear /\ e.spent = h.spent
        /\ h.elapsed \in Nat /\ h.leg \in Nat /\ h.leg # 0
    BY DEF HomerFields, HallFsm
  <1>2. r = IF e.spent + e.elapsed > HomeTimeout THEN Home!FailHomer(e, c2)
            ELSE IF ~(k.leg # 0 /\ k.on) THEN Home!Result(e, "hall", k, "none")
            ELSE IF Home!BeganOnBand(e)
            THEN Home!Result([e EXCEPT !.phase = "Preclear", !.spent = Home!Spent(e), !.elapsed = 0,
                                       !.leg = @ + 1],
                             "idle", Home!NoHall, "none")
            ELSE Home!HitTick(e, j, read, k)
    BY DEF Home!ApproachTick
  <1>3. b.lost \in Nat /\ HomeLosses \in Nat /\ b.lost <= HomeLosses
        /\ HomePreclear \in Nat /\ HomePreclear >= HomeLosses + 2
    BY HomeAssumption
  <1>4. PICK moved \in BOOLEAN, answered \in BOOLEAN :
          /\ moved => s.kind \in {"hall", "reverseHall"} /\ (b.on <=> s.kind = "reverseHall")
          /\ answered => s.kind \in {"hall", "reverseHall"}
          /\ s.kind \in {"hall", "reverseHall"} /\ ~answered => b.lost < HomeLosses
          /\ b2.on = (IF moved THEN ~b.on ELSE b.on)
          /\ b2.crossed = (IF moved /\ b2.on THEN s.leg ELSE b.crossed)
          /\ b2.lost = (IF s.kind \in {"hall", "reverseHall"} /\ ~answered THEN b.lost + 1 ELSE 0)
          /\ IF answered THEN c2.on = b2.on /\ c2.leg = s.leg /\ c2.edge = (b2.crossed = s.leg)
                         ELSE c2 = c
    BY DEF Heard
  <1>5. k = IF h.elapsed = 0 THEN Home!NoHall ELSE c2
    BY <1>1 DEF Home!OwnAnswers
  <1> HIDE DEF e, k
  \* What the tick reads of this approach.
  <1>6. /\ k.leg \in {0, h.leg}
        /\ k.leg = 0 => b2.lost = h.elapsed
        /\ h.clear => (b2.on => b2.crossed = h.leg)
        /\ k.leg # 0 /\ ~k.on => (b2.on => b2.crossed = h.leg)
        /\ k.leg # 0 /\ k.on => \/ k.edge
                                \/ ~h.clear /\ h.elapsed + 1 <= HomePreclear
    <2>1. CASE h.elapsed = 0
      BY <1>1, <1>4, <1>5, <2>1 DEF HallFsm, ApproachBegins, Home!NoHall
    <2>2. CASE h.elapsed # 0
      BY <1>1, <1>3, <1>4, <1>5, <2>2 DEF HallFsm, ApproachAsks
    <2>3. QED
      BY <2>1, <2>2
  <1>7. CASE e.spent + e.elapsed > HomeTimeout
    BY <1>1, <1>2, <1>7, FailQuiet
  <1>8. CASE ~(e.spent + e.elapsed > HomeTimeout) /\ ~(k.leg # 0 /\ k.on)
    <2>1. r = [h |-> e, cmd |-> [kind |-> "hall", leg |-> e.leg], hall |-> k, event |-> "none"]
      BY <1>2, <1>8 DEF Home!Result
    <2> HIDE DEF r
    <2>2. Ticked(r, b2)
      BY <1>1, <1>6, <1>8, <2>1
         DEF Ticked, HallFsm, HallPhases, ApproachBegins, ApproachAsks, PreclearAsks
    <2>3. QED
      BY <2>2 DEF r
  <1>9. CASE ~(e.spent + e.elapsed > HomeTimeout) /\ k.leg # 0 /\ k.on /\ Home!BeganOnBand(e)
    <2>1. r = Home!Result([e EXCEPT !.phase = "Preclear", !.spent = Home!Spent(e), !.elapsed = 0,
                                    !.leg = @ + 1],
                          "idle", Home!NoHall, "none")
      BY <1>2, <1>9
    <2> HIDE DEF r
    <2>2. /\ DOMAIN r.h = HomerFields /\ r.h.phase = "Preclear" /\ r.h.elapsed = 0
          /\ r.h.leg = h.leg + 1 /\ r.cmd.kind = "idle" /\ r.hall.leg = 0 /\ r.event = "none"
      BY <1>1, <2>1 DEF Home!Result, Home!NoHall, HomerFields
    <2>3. Ticked(r, b2)
      BY <1>1, <2>2
         DEF Ticked, HallFsm, HallPhases, ApproachBegins, ApproachAsks, PreclearAsks
    <2>4. QED
      BY <2>3 DEF r
  <1>10. CASE ~(e.spent + e.elapsed > HomeTimeout) /\ k.leg # 0 /\ k.on /\ ~Home!BeganOnBand(e)
    <2>1. k.edge
      BY <1>1, <1>6, <1>10 DEF Home!BeganOnBand
    <2> DEFINE g == [e EXCEPT !.phase = "Brake", !.elapsed = 0, !.latched = "edge"]
    <2>2. r = Home!Brake(g, k)
      BY <1>2, <1>10, <2>1 DEF Home!HitTick
    <2>3. /\ DOMAIN g = HomerFields /\ g.elapsed \in Nat /\ g.leg \in Nat /\ g.phase = "Brake"
          /\ g.latched = "edge"
      BY <1>1 DEF HomerFields
    <2> HIDE DEF r, g
    <2>4. Ticked(r, b2)
      BY <2>2, <2>3, BrakeQuiet
    <2>5. QED
      BY <2>4 DEF r
  <1>11. QED
    BY <1>7, <1>8, <1>9, <1>10

\* A pre-clear: it ends on an answer that reads off, and that answer is of this tick.
LEMMA PreclearTicked ==
  ASSUME NEW h, NEW b, NEW s, NEW c, NEW b2, NEW c2,
         DOMAIN h = HomerFields, HallFsm(h, b, s, c), h.phase = "Preclear",
         b.on \in BOOLEAN, b.lost \in 0..HomeLosses, Heard(b, s, c, b2, c2)
  PROVE  Ticked(Home!PreclearTick(h, c2), b2)
  <1> DEFINE e == [h EXCEPT !.elapsed = @ + 1]
             r == Home!PreclearTick(h, c2)
  <1>1. /\ DOMAIN e = HomerFields /\ e.phase = "Preclear" /\ e.elapsed = h.elapsed + 1
        /\ e.leg = h.leg /\ h.elapsed \in Nat /\ h.leg \in Nat /\ h.leg # 0
    BY DEF HomerFields, HallFsm
  <1>2. r = IF e.spent + e.elapsed > HomeTimeout THEN Home!FailHomer(e, c2)
            ELSE IF c2.leg # 0 /\ ~c2.on
            THEN Home!Result([e EXCEPT !.phase = "Approach", !.spent = Home!Spent(e),
                                       !.elapsed = 0, !.clear = TRUE, !.still = 0, !.at = "none",
                                       !.leg = @ + 1],
                             "idle", c2, "none")
            ELSE Home!Result(e, "reverseHall", c2, "none")
    BY DEF Home!PreclearTick
  <1> HIDE DEF e, r
  <1>3. CASE e.spent + e.elapsed > HomeTimeout
    <2>1. Ticked(r, b2)
      BY <1>1, <1>2, <1>3, FailQuiet
    <2>2. QED
      BY <2>1 DEF r
  <1>4. CASE ~(e.spent + e.elapsed > HomeTimeout) /\ c2.leg # 0 /\ ~c2.on
    <2>1. ~b2.on
      BY <1>4 DEF Heard, HallFsm, PreclearAsks
    <2>2. r = Home!Result([e EXCEPT !.phase = "Approach", !.spent = Home!Spent(e),
                                    !.elapsed = 0, !.clear = TRUE, !.still = 0, !.at = "none",
                                    !.leg = @ + 1],
                          "idle", c2, "none")
      BY <1>2, <1>4
    <2>3. /\ DOMAIN r.h = HomerFields /\ r.h.phase = "Approach" /\ r.h.elapsed = 0
          /\ r.h.leg = h.leg + 1 /\ r.cmd.kind = "idle" /\ r.event = "none"
      BY <1>1, <2>2 DEF Home!Result, HomerFields
    <2>4. Ticked(r, b2)
      BY <1>1, <2>1, <2>3
         DEF Ticked, HallFsm, HallPhases, ApproachBegins, ApproachAsks, PreclearAsks
    <2>5. QED
      BY <2>4 DEF r
  <1>5. CASE ~(e.spent + e.elapsed > HomeTimeout) /\ ~(c2.leg # 0 /\ ~c2.on)
    <2>1. r = [h |-> e, cmd |-> [kind |-> "reverseHall", leg |-> e.leg], hall |-> c2,
               event |-> "none"]
      BY <1>2, <1>5 DEF Home!Result
    <2>2. Ticked(r, b2)
      BY <1>1, <1>5, <2>1
         DEF Ticked, HallFsm, HallPhases, ApproachBegins, ApproachAsks, PreclearAsks
    <2>3. QED
      BY <2>2 DEF r
  <1>6. QED
    BY <1>3, <1>4, <1>5

\* Whatever phase a running FSM is in.
LEMMA HallTicked ==
  ASSUME NEW j \in HomeHalls, NEW h, NEW read, NEW b, NEW s, NEW c, NEW b2, NEW c2,
         DOMAIN h = HomerFields, HallFsm(h, b, s, c), Home!Running(h),
         b.on \in BOOLEAN, b.lost \in 0..HomeLosses, Heard(b, s, c, b2, c2)
  PROVE  Ticked(Home!HomerTick(h, j, read, c2), b2)
  <1>1. h.phase \in {"Approach", "Preclear", "Brake", "Settle", "PostMove"}
        /\ h.elapsed \in Nat /\ h.leg \in Nat
        /\ (h.phase \in {"Brake", "Settle"} => h.latched = "edge")
    BY DEF HallFsm, HallPhases, Home!Running
  <1>2. CASE h.phase = "Approach"
    <2>1. Home!HomerTick(h, j, read, c2) = Home!ApproachTick(h, j, read, c2)
      BY <1>2 DEF Home!HomerTick
    <2>2. QED
      BY <1>2, <2>1, ApproachTicked
  <1>3. CASE h.phase = "Preclear"
    <2>1. Home!HomerTick(h, j, read, c2) = Home!PreclearTick(h, c2)
      BY <1>3 DEF Home!HomerTick
    <2>2. QED
      BY <1>3, <2>1, PreclearTicked
  <1>4. CASE h.phase = "Brake"
    <2>1. Home!HomerTick(h, j, read, c2) = Home!Brake(h, c2)
      BY <1>4 DEF Home!HomerTick
    <2>2. QED
      BY <1>1, <1>4, <2>1, BrakeQuiet
  <1>5. CASE h.phase = "Settle"
    <2>1. Home!HomerTick(h, j, read, c2) = Home!SettleTick(h, j, read, c2)
      BY <1>5 DEF Home!HomerTick
    <2>2. QED
      BY <1>1, <1>5, <2>1, SettleQuiet
  <1>6. CASE h.phase = "PostMove"
    <2>1. Home!HomerTick(h, j, read, c2) = Home!PostMoveTick(h, read, c2)
      BY <1>6 DEF Home!HomerTick
    <2>2. QED
      BY <1>1, <1>6, <2>1, PostMoveQuiet
  <1>7. QED
    BY <1>1, <1>2, <1>3, <1>4, <1>5, <1>6

-----------------------------------------------------------------------------
(* The sequence. *)

\* An FSM that does not run has nothing to keep.
LEMMA RestIsFine ==
  ASSUME NEW h, NEW b, NEW s, NEW c, NEW b2, NEW s2, NEW c2,
         HallFsm(h, b, s, c), ~Home!Running(h)
  PROVE  HallFsm(h, b2, s2, c2)
  BY DEF HallFsm, HallPhases, ApproachBegins, ApproachAsks, PreclearAsks, Home!Running

\* A tick in which no FSM runs and no reference is taken: the moves of a part.
LEMMA IdleKeeps ==
  ASSUME HomeInv, home_run.active, home_run.part # "Home",
         home_homers' = home_homers, home_ref' = home_ref, HomeShapes',
         home_run'.count = home_run.count, home_run'.part # "Home",
         \A j \in HomeJoints : home_statuses'[j] = "Done" => home_statuses[j] = "Done"
  PROVE  /\ OthersRest' /\ DoneIsOwn'
         /\ \A i \in HomeHalls :
              HallFsm(home_homers'[i], home_band'[i], home_sent'[i], home_hall'[i])
  <1>1. OthersRest' /\ \A i \in HomeHalls : ~Home!Running(home_homers[i])
    BY DEF HomeInv, OthersRest, Home!Running
  <1>2. DoneIsOwn'
    BY DEF HomeInv, DoneIsOwn
  <1>3. \A i \in HomeHalls :
          HallFsm(home_homers'[i], home_band'[i], home_sent'[i], home_hall'[i])
    BY <1>1, RestIsFine DEF HomeInv
  <1>4. QED
    BY <1>1, <1>2, <1>3

LEMMA HomeBegins == Home!Init => HomeInv
  <1> SUFFICES ASSUME Home!Init
               PROVE  HomeInv
    OBVIOUS
  <1>1. HomeHalls \subseteq HomeJoints /\ HomeLosses \in Nat
    BY HomeAssumption
  <1>2. HomeShapes
    BY <1>1 DEF Home!Init, HomeShapes, Home!Actuators, Home!FreshHomer, HomerFields, Home!IdleCommands
  <1>3. QED
    BY <1>2 DEF Home!Init, HomeInv

LEMMA HomeStarts ==
  ASSUME HomeInv, Home!Start
  PROVE  HomeInv'
  <1>1. HomeHalls \subseteq HomeJoints /\ HomeLosses \in Nat
    BY HomeAssumption
  <1>2. HomeShapes'
    BY <1>1 DEF Home!Start, HomeInv, HomeShapes, Home!Actuators, Home!FreshHomer, HomerFields,
                Home!IdleCommands
  <1>3. \A i \in HomeHalls : home_homers'[i].phase = "Finished" /\ home_homers'[i].elapsed = 0
                             /\ home_homers'[i].leg \in Nat
    BY <1>1 DEF Home!Start, HomeInv, HomeShapes, Home!Actuators, Home!FreshHomer
  <1>4. OthersRest'
    BY <1>3 DEF OthersRest, Home!Running
  <1>5. \A i \in HomeHalls :
          HallFsm(home_homers'[i], home_band'[i], home_sent'[i], home_hall'[i])
    BY <1>3 DEF HallFsm, HallPhases, ApproachBegins, ApproachAsks, PreclearAsks
  <1>6. DoneIsOwn'
    BY DEF Home!Start, DoneIsOwn, Home!Actuators
  <1>7. home_homed' = FALSE
    BY DEF Home!Start
  <1>8. QED
    BY <1>2, <1>4, <1>5, <1>6, <1>7 DEF HomeInv

LEMMA HomeAborts ==
  ASSUME HomeInv, Home!Abort
  PROVE  HomeInv'
  <1>1. HomeShapes'
    BY HomeAssumption DEF Home!Abort, HomeInv, HomeShapes, Home!Actuators, Home!IdleCommands
  <1>2. QED
    BY <1>1 DEF Home!Abort, HomeInv, HomeShapes

LEMMA HomeExpires ==
  ASSUME HomeInv, NEW late, Home!Expire(late)
  PROVE  HomeInv'
  <1>1. HomeHalls \subseteq Home!Actuators
    BY HomeAssumption DEF Home!Actuators
  <1>2. \A i \in HomeHalls : DOMAIN home_homers'[i] = HomerFields /\ home_homers'[i].leg \in Nat
    BY <1>1 DEF Home!Expire, HomeInv, HomeShapes, HomerFields
  <1>3. HomeShapes'
    BY <1>2 DEF Home!Expire, Home!EndFailed, HomeInv, HomeShapes, Home!IdleCommands
  <1>4. QED
    BY <1>3 DEF Home!Expire, Home!EndFailed, HomeInv, HomeShapes

\* What a tick leaves of the bands.
BandsTyped(bands) ==
  /\ DOMAIN bands = HomeHalls
  /\ \A i \in HomeHalls : bands[i].on \in BOOLEAN /\ bands[i].lost \in 0..HomeLosses

LEMMA MoveParts ==
  ASSUME HomeInv, home_run.active, BandsTyped(home_band'), NEW read, Home!MovePart(read)
  PROVE  HomeInv'
  <1>1. /\ home_run.part \in {"Pre", "MoveTo", "Post"} /\ home_homers' = home_homers
        /\ home_hall' = home_hall /\ home_ref' = home_ref /\ DOMAIN home_statuses' = Home!Actuators
        /\ \A j \in Home!Actuators : home_statuses'[j] \in {"Failed", home_statuses[j]}
    BY DEF Home!MovePart
  <1>2. \/ home_run' = [home_run EXCEPT !.active = FALSE] /\ home_homed' = FALSE
        \/ /\ home_homed' = home_homed
           /\ \/ home_run' = [home_run EXCEPT !.elapsed = @ + 1]
              \/ \E n : \E p \in {"GlobalPost", Home!NextPart(home_run.part)} :
                   home_run' = [home_run EXCEPT !.elapsed = @ + 1, !.part = p, !.step = n]
    BY DEF Home!MovePart, Home!EndFailed
  <1>3. DOMAIN home_sent' = Home!Actuators
    BY DEF Home!MovePart, Home!EndFailed, Home!IdleCommands
  <1>4. /\ home_run'.count = home_run.count /\ home_run'.active \in BOOLEAN
        /\ DOMAIN home_run' = DOMAIN home_run
        /\ home_run'.part # "Home"
    <2>1. CASE home_run' = [home_run EXCEPT !.active = FALSE]
      BY <1>1, <2>1 DEF HomeInv, HomeShapes
    <2>2. CASE home_run' = [home_run EXCEPT !.elapsed = @ + 1]
      BY <1>1, <2>2 DEF HomeInv, HomeShapes
    <2>3. ASSUME NEW p \in {"GlobalPost", Home!NextPart(home_run.part)}, NEW n,
                 home_run' = [home_run EXCEPT !.elapsed = @ + 1, !.part = p, !.step = n]
          PROVE  /\ home_run'.count = home_run.count /\ home_run'.active \in BOOLEAN
                 /\ DOMAIN home_run' = DOMAIN home_run /\ home_run'.part # "Home"
      <3>1. p # "Home"
        BY DEF Home!NextPart
      <3>2. QED
        BY <2>3, <3>1 DEF HomeInv, HomeShapes
    <2>4. QED
      BY <1>2, <2>1, <2>2, <2>3
  <1>5. home_homed' = FALSE
    <2>1. home_homed = FALSE
      BY DEF HomeInv
    <2>2. QED
      BY <1>2, <2>1
  <1>6. HomeShapes'
    BY <1>1, <1>3, <1>4 DEF HomeInv, HomeShapes, BandsTyped
  <1>7. \A j \in HomeJoints : home_statuses'[j] = "Done" => home_statuses[j] = "Done"
    BY <1>1 DEF Home!Actuators
  <1>8. QED
    BY <1>1, <1>4, <1>6, <1>7, <1>5, IdleKeeps DEF HomeInv

LEMMA StartParts ==
  ASSUME HomeInv, home_run.active, BandsTyped(home_band'), Home!HomeStart
  PROVE  HomeInv'
  <1>1. HomeHalls \subseteq Home!Actuators /\ HomeHalls \subseteq HomeJoints
        /\ HomeGripper \notin HomeHalls
    BY HomeAssumption DEF Home!Actuators
  <1>2. /\ home_run' = [home_run EXCEPT !.elapsed = @ + 1, !.part = "Home"]
        /\ home_run.part = "HomeStart" /\ home_sent' = Home!IdleCommands
        /\ home_hall' = home_hall /\ home_homed' = home_homed /\ home_ref' = home_ref
        /\ DOMAIN home_homers' = Home!Actuators /\ DOMAIN home_statuses' = Home!Actuators
        /\ \A j \in Home!Actuators : home_statuses'[j] \in {"Running", home_statuses[j]}
    BY DEF Home!HomeStart
  <1>3. /\ home_run'.count = home_run.count /\ home_run'.active /\ home_run'.part = "Home"
        /\ home_run'.step = home_run.step /\ DOMAIN home_run' = DOMAIN home_run
    BY <1>2 DEF HomeInv, HomeShapes
  <1>4. \A i \in HomeHalls :
          home_homers'[i] = IF i \in Home!Home(home_run.step) THEN Home!StartHomer(home_homers[i])
                            ELSE home_homers[i]
    BY <1>1 DEF Home!HomeStart
  <1>5. \A i \in HomeHalls : ~Home!Running(home_homers[i])
    BY <1>2 DEF HomeInv, OthersRest
  <1>6. \A i \in HomeHalls :
          LET h == Home!StartHomer(home_homers[i]) IN
          /\ DOMAIN h = HomerFields /\ h.leg = home_homers[i].leg + 1 /\ h.leg \in Nat
          /\ h.phase = "Approach" /\ h.elapsed = 0 /\ h.clear = FALSE
    BY DEF Home!StartHomer, Home!FreshHomer, HomeInv, HomeShapes, HomerFields
  <1>7. HomeShapes'
    BY <1>2, <1>3, <1>4, <1>6 DEF HomeInv, HomeShapes, BandsTyped, Home!IdleCommands
  <1>8. OthersRest'
    BY <1>3, <1>4, <1>5 DEF OthersRest, Home!Home
  <1>9. DoneIsOwn'
    BY <1>2, <1>3 DEF HomeInv, DoneIsOwn, Home!Actuators
  <1>10. ASSUME NEW i \in HomeHalls
         PROVE  HallFsm(home_homers'[i], home_band'[i], home_sent'[i], home_hall'[i])
    <2>1. CASE i \notin Home!Home(home_run.step)
      BY <1>4, <1>5, <2>1, RestIsFine DEF HomeInv
    <2>2. CASE i \in Home!Home(home_run.step)
      <3>1. home_sent'[i].kind = "idle"
        BY <1>1, <1>2 DEF Home!IdleCommands, Home!NoCmd
      <3>2. home_homers[i].leg \in Nat
        BY DEF HomeInv, HomeShapes
      <3>3. QED
        BY <1>4, <1>6, <2>2, <3>1, <3>2
           DEF HallFsm, HallPhases, ApproachBegins, ApproachAsks, PreclearAsks
    <2>3. QED
      BY <2>1, <2>2
  <1>11. QED
    BY <1>2, <1>3, <1>7, <1>8, <1>9, <1>10 DEF HomeInv

LEMMA LastParts ==
  ASSUME HomeInv, home_run.active, BandsTyped(home_band'), NEW read, NEW refused,
         Home!GlobalPostPart(read, refused)
  PROVE  HomeInv'
  <1>1. /\ home_run.part = "GlobalPost" /\ home_homers' = home_homers
        /\ home_hall' = home_hall /\ home_ref' = home_ref
    BY DEF Home!GlobalPostPart
  <1>2. \/ /\ home_run' = [home_run EXCEPT !.active = FALSE] /\ home_homed' = FALSE
           /\ DOMAIN home_statuses' = Home!Actuators
        \/ /\ home_homed' = home_homed /\ home_statuses' = home_statuses
           /\ \E n : home_run' = [home_run EXCEPT !.elapsed = @ + 1, !.checkLeft = n]
        \/ /\ home_run' = [home_run EXCEPT !.active = FALSE, !.elapsed = @ + 1]
           /\ home_statuses' = Home!CheckReference(refused)
           /\ home_homed' = (\A j \in HomeJoints : Home!CheckReference(refused)[j] = "Done")
    BY DEF Home!GlobalPostPart, Home!EndFailed
  <1>3. DOMAIN home_sent' = Home!Actuators
    BY DEF Home!GlobalPostPart, Home!EndFailed, Home!IdleCommands
  <1>4. /\ home_run'.count = home_run.count /\ home_run'.active \in BOOLEAN
        /\ DOMAIN home_run' = DOMAIN home_run /\ home_run'.part # "Home"
        /\ DOMAIN home_statuses' = Home!Actuators
    BY <1>1, <1>2 DEF HomeInv, HomeShapes, Home!CheckReference
  <1>5. HomeShapes'
    BY <1>1, <1>3, <1>4 DEF HomeInv, HomeShapes, BandsTyped
  <1>6. CASE /\ home_homed' = home_homed /\ home_statuses' = home_statuses
    BY <1>1, <1>4, <1>5, <1>6, IdleKeeps DEF HomeInv
  <1>7. CASE home_run' = [home_run EXCEPT !.active = FALSE] /\ home_homed' = FALSE
    BY <1>5, <1>7 DEF HomeInv, HomeShapes
  <1>8. CASE /\ home_run' = [home_run EXCEPT !.active = FALSE, !.elapsed = @ + 1]
             /\ home_homed' = (\A j \in HomeJoints : Home!CheckReference(refused)[j] = "Done")
    <2>1. ~home_run'.active /\ home_homed' \in BOOLEAN
      BY <1>8 DEF HomeInv, HomeShapes
    <2>2. ASSUME home_homed' PROVE Home!HomedOnOwnEvidence'
      <3>1. \A j \in HomeJoints : home_statuses[j] = "Done"
        BY <1>8, <2>2 DEF Home!CheckReference, Home!Actuators
      <3>2. QED
        BY <1>1, <1>4, <3>1 DEF HomeInv, DoneIsOwn, Home!HomedOnOwnEvidence
    <2>3. QED
      BY <1>5, <2>1, <2>2 DEF HomeInv
  <1>9. QED
    BY <1>2, <1>6, <1>7, <1>8

\* tick_home: the running FSMs of the step tick on the answers they are given.
LEMMA SeekParts ==
  ASSUME HomeInv, home_run.active, BandsTyped(home_band'), NEW read, NEW bit, NEW cached,
         DOMAIN cached = HomeHalls,
         \A i \in HomeHalls :
           Heard(home_band[i], home_sent[i], home_hall[i], home_band'[i], cached[i]),
         Home!HomePart(read, bit, cached)
  PROVE  HomeInv'
  <1> DEFINE group == {i \in Home!Home(home_run.step) : Home!Running(home_homers[i])}
             res == [i \in group |-> Home!HomerTick(home_homers[i], i, read[i],
                                       IF i \in HomeHalls THEN cached[i] ELSE Home!NoHall)]
             refs == {i \in group : res[i].event = "reference"}
  <1>1. HomeHalls \subseteq Home!Actuators /\ HomeHalls \subseteq HomeJoints
        /\ HomeJoints \subseteq Home!Actuators /\ HomeGripper \notin HomeJoints
    BY HomeAssumption DEF Home!Actuators
  <1>2. /\ home_run.part = "Home"
        /\ home_homers' = [i \in Home!Actuators |-> IF i \in group THEN res[i].h ELSE home_homers[i]]
        /\ home_hall' = [i \in HomeHalls |-> IF i \in group THEN res[i].hall ELSE cached[i]]
        /\ home_ref' = [j \in HomeJoints |-> IF j \in refs
                                             THEN [run |-> home_run.count, at |-> res[j].h.latched]
                                             ELSE home_ref[j]]
    BY DEF Home!HomePart
  <1>3. /\ DOMAIN home_statuses' = Home!Actuators
        /\ \A j \in HomeJoints : home_statuses'[j] = "Done" => j \in refs \/ home_statuses[j] = "Done"
    BY <1>1 DEF Home!HomePart
  <1>4. \/ /\ home_run' = [home_run EXCEPT !.active = FALSE] /\ home_homed' = FALSE
           /\ home_sent' = Home!IdleCommands
        \/ /\ home_homed' = home_homed
           /\ home_sent' = [i \in Home!Actuators |-> IF i \in group THEN res[i].cmd ELSE Home!NoCmd]
           /\ \/ home_run' = [home_run EXCEPT !.elapsed = @ + 1, !.part = @]
              \/ /\ home_run' = [home_run EXCEPT !.elapsed = @ + 1, !.part = "MoveTo"]
                 /\ \A i \in HomeHalls : i \in Home!Home(home_run.step) =>
                      ~Home!Running(IF i \in group THEN res[i].h ELSE home_homers[i])
    BY <1>1 DEF Home!HomePart, Home!EndFailed
  \* The FSMs of the hall joints.
  <1>5. ASSUME NEW i \in HomeHalls, i \in group
        PROVE  Ticked(res[i], home_band'[i])
    <2>1. res[i] = Home!HomerTick(home_homers[i], i, read[i], cached[i])
      BY <1>5
    <2>2. Ticked(Home!HomerTick(home_homers[i], i, read[i], cached[i]), home_band'[i])
      BY <1>5, HallTicked DEF HomeInv, HomeShapes
    <2>3. QED
      BY <2>1, <2>2
  <1>6. \A i \in HomeHalls : i \in group => Ticked(res[i], home_band'[i])
    BY <1>5
  <1>7. \A i \in HomeHalls :
          /\ home_homers'[i] = IF i \in group THEN res[i].h ELSE home_homers[i]
          /\ home_hall'[i] = IF i \in group THEN res[i].hall ELSE cached[i]
    BY <1>1, <1>2
  <1>8. \A i \in HomeHalls : i \notin group => ~Home!Running(home_homers[i])
    BY DEF HomeInv, OthersRest
  <1>9. \A j \in refs : j \in group
    OBVIOUS
  <1>10. \A j \in HomeJoints :
           /\ j \in refs => /\ home_ref'[j].run = home_run.count
                            /\ j \in HomeHalls => home_ref'[j].at = "edge"
           /\ j \notin refs => home_ref'[j] = home_ref[j]
    <2>1. \A j \in HomeHalls : j \in refs => res[j].event = "reference" /\ res[j].h.latched = "edge"
      BY <1>6 DEF Ticked
    <2>2. QED
      BY <1>2, <2>1
  <1> HIDE DEF group, res, refs
  <1>11. /\ home_run'.count = home_run.count /\ home_run'.active \in BOOLEAN
         /\ DOMAIN home_run' = DOMAIN home_run /\ DOMAIN home_sent' = Home!Actuators
         /\ home_run'.step = home_run.step
    BY <1>4 DEF HomeInv, HomeShapes, Home!IdleCommands
  <1>12. home_homed' = FALSE
    <2>1. home_homed = FALSE
      BY DEF HomeInv
    <2>2. QED
      BY <1>4, <2>1
  <1>13. \A i \in HomeHalls : DOMAIN home_homers'[i] = HomerFields /\ home_homers'[i].leg \in Nat
    BY <1>6, <1>7 DEF Ticked, HallFsm, HomeInv, HomeShapes
  <1>14. HomeShapes'
    BY <1>2, <1>3, <1>11, <1>13 DEF HomeInv, HomeShapes, BandsTyped
  <1>15. DoneIsOwn'
    BY <1>3, <1>10, <1>11 DEF HomeInv, DoneIsOwn
  <1>16. CASE ~home_run'.active
    BY <1>12, <1>14, <1>16 DEF HomeInv
  <1>17. CASE home_run'.active
    <2>1. /\ home_sent' = [i \in Home!Actuators |-> IF i \in group THEN res[i].cmd ELSE Home!NoCmd]
          /\ \/ home_run' = [home_run EXCEPT !.elapsed = @ + 1, !.part = @]
             \/ /\ home_run' = [home_run EXCEPT !.elapsed = @ + 1, !.part = "MoveTo"]
                /\ \A i \in HomeHalls : i \in Home!Home(home_run.step) =>
                      ~Home!Running(IF i \in group THEN res[i].h ELSE home_homers[i])
      BY <1>4, <1>17 DEF HomeInv, HomeShapes
    <2>2. ASSUME NEW i \in HomeHalls
          PROVE  HallFsm(home_homers'[i], home_band'[i], home_sent'[i], home_hall'[i])
      <3>1. CASE i \in group
        <4>1. home_sent'[i] = res[i].cmd
          BY <1>1, <2>1, <3>1
        <4>2. QED
          BY <1>6, <1>7, <3>1, <4>1 DEF Ticked
      <3>2. CASE i \notin group
        BY <1>7, <1>8, <3>2, RestIsFine DEF HomeInv
      <3>3. QED
        BY <3>1, <3>2
    <2>3. OthersRest'
      <3>1. SUFFICES ASSUME NEW i \in HomeHalls, Home!Running(home_homers'[i])
                     PROVE  home_run'.part = "Home" /\ i \in Home!Home(home_run'.step)
        BY DEF OthersRest, Home!Running, Home!Home
      <3>2. i \in group
        BY <1>7, <1>8, <3>1
      <3>3. i \in Home!Home(home_run.step)
        BY <3>2 DEF group
      <3>4. home_run' = [home_run EXCEPT !.elapsed = @ + 1, !.part = @]
        BY <1>7, <2>1, <3>1, <3>3
      <3>5. home_run'.part = "Home"
        BY <1>2, <3>4 DEF HomeInv, HomeShapes
      <3>6. QED
        BY <1>11, <3>3, <3>5
    <2>4. QED
      BY <1>12, <1>14, <1>15, <2>2, <2>3 DEF HomeInv
  <1>18. QED
    BY <1>11, <1>16, <1>17

LEMMA HomeTicks ==
  ASSUME HomeInv, Home!Tick
  PROVE  HomeInv'
  <1>1. home_run.active
    BY DEF Home!Tick
  <1>2. CASE Home!Expire(home_run.elapsed + 1 >= Home!SequenceBudget)
    BY <1>2, HomeExpires
  <1>3. CASE ~Home!Expire(home_run.elapsed + 1 >= Home!SequenceBudget)
    <2>1. PICK r \in [Home!Watched -> Home!Readings], bit \in BOOLEAN,
               refused \in SUBSET HomeJoints, answered \in SUBSET Home!Asked,
               moved \in SUBSET {i \in Home!Asked : Home!Crosses(i)} :
            /\ Home!Senses(r, answered, moved)
            /\ Home!RunPart(Home!Reads(r), bit, refused, answered, Home!Answers(answered, moved))
      BY <1>3 DEF Home!Tick
    <2> DEFINE read == Home!Reads(r)
               cached == Home!Answers(answered, moved)
    <2>2. BandsTyped(home_band')
      <3>1. SUFFICES ASSUME NEW i \in HomeHalls
                     PROVE  home_band'[i].on \in BOOLEAN /\ home_band'[i].lost \in 0..HomeLosses
        BY <2>1 DEF BandsTyped, Home!Senses
      <3>2. home_band'[i].on = Home!OnBand(i, moved)
            /\ home_band'[i].lost = IF i \in Home!Asked \ answered THEN home_band[i].lost + 1 ELSE 0
        BY <2>1 DEF Home!Senses
      <3>3. Home!OnBand(i, moved) \in BOOLEAN /\ home_band[i].lost \in 0..HomeLosses
        BY DEF HomeInv, HomeShapes, Home!OnBand
      <3>4. i \in Home!Asked \ answered => home_band[i].lost < HomeLosses
        BY <2>1 DEF Home!Senses
      <3>5. QED
        BY <3>2, <3>3, <3>4, HomeAssumption
    <2>3. ASSUME NEW i \in HomeHalls
          PROVE  Heard(home_band[i], home_sent[i], home_hall[i], home_band'[i], cached[i])
      <3>1. /\ home_band'[i].on = Home!OnBand(i, moved)
            /\ home_band'[i].crossed = Home!CrossedBy(i, moved)
            /\ home_band'[i].lost = (IF i \in Home!Asked \ answered THEN home_band[i].lost + 1 ELSE 0)
            /\ i \in Home!Asked \ answered => home_band[i].lost < HomeLosses
        BY <2>1 DEF Home!Senses
      <3>2. /\ Home!OnBand(i, moved) = (IF i \in moved THEN ~home_band[i].on ELSE home_band[i].on)
            /\ Home!CrossedBy(i, moved) = (IF i \in moved /\ Home!OnBand(i, moved)
                                           THEN home_sent[i].leg ELSE home_band[i].crossed)
        BY DEF Home!OnBand, Home!CrossedBy
      <3>3. IF i \in answered
            THEN /\ cached[i].on = Home!OnBand(i, moved) /\ cached[i].leg = home_sent[i].leg
                 /\ cached[i].edge = (Home!CrossedBy(i, moved) = home_sent[i].leg)
            ELSE cached[i] = home_hall[i]
        BY DEF Home!Answers
      <3>4. i \in Home!Asked <=> home_sent[i].kind \in {"hall", "reverseHall"}
        BY DEF Home!Asked
      <3>5. i \in moved => /\ i \in Home!Asked
                           /\ (home_band[i].on <=> home_sent[i].kind = "reverseHall")
        BY DEF Home!Crosses
      <3>6. (i \in moved) \in BOOLEAN /\ (i \in answered) \in BOOLEAN /\ (i \in answered => i \in Home!Asked)
        OBVIOUS
      <3> HIDE DEF cached
      <3>7. QED
        BY <3>1, <3>2, <3>3, <3>4, <3>5, <3>6 DEF Heard
    <2>4. DOMAIN cached = HomeHalls
      BY DEF Home!Answers
    <2> HIDE DEF cached, read
    <2>5. CASE Home!MovePart(read)
      BY <1>1, <2>2, <2>5, MoveParts
    <2>6. CASE Home!HomeStart
      BY <1>1, <2>2, <2>6, StartParts
    <2>7. CASE Home!HomePart(read, bit, cached)
      BY <1>1, <2>2, <2>3, <2>4, <2>7, SeekParts
    <2>8. CASE Home!GlobalPostPart(read, refused)
      BY <1>1, <2>2, <2>8, LastParts
    <2>9. QED
      BY <2>1, <2>5, <2>6, <2>7, <2>8 DEF Home!RunPart, read, cached
  <1>4. QED
    BY <1>2, <1>3

\* "Homed" rests on evidence of this run: whatever the script, the joints' configurations
\* and the times, the arm counts as homed only when every joint was referenced by this very
\* sequence, and a hall joint at the edge of its band, although answers are lost and an
\* earlier approach's answer may still be cached (homing.rs Homer::tick, tick_home).
THEOREM HomedStaysEarned == Home!Spec => []HomedOnOwnEvidence
  <1>1. Home!Init => HomeInv
    BY HomeBegins
  <1>2. HomeInv /\ [Home!Next]_(Home!vars) => HomeInv'
    <2>1. ASSUME HomeInv, UNCHANGED Home!vars PROVE HomeInv'
      BY <2>1 DEF Home!vars, HomeInv, HomeShapes, OthersRest, DoneIsOwn, Home!HomedOnOwnEvidence,
                  Home!Running, Home!Home, Home!Actuators
    <2>2. QED
      BY <2>1, HomeStarts, HomeAborts, HomeTicks DEF Home!Next
  <1>3. HomeInv => HomedOnOwnEvidence
    BY DEF HomeInv, HomedOnOwnEvidence, Home!HomedOnOwnEvidence
  <1>4. QED
    BY <1>1, <1>2, <1>3, PTL DEF Home!Spec

-----------------------------------------------------------------------------
(* The limits a seek runs under: the limit a drive was last sent is the one *)
(* seeking_limits remembers, and what seeks is what apply_phase_limits      *)
(* wants.                                                                   *)

\* The kinds of moves a script and plan_sequence make.
MoveKinds == {"idle", "nudge", "position", "gripper", "moveTo"}

\* The commands that push, or move an axis that has no reference yet.
Pushing == {"push", "hall", "reverse", "reverseHall", "nudge", "moveTo"}

LimitShapes ==
  /\ DOMAIN home_run = {"active", "elapsed", "step", "part", "checkLeft", "count"}
  /\ home_run.active \in BOOLEAN
  /\ home_run.part # "GlobalPost" => home_run.step \in DOMAIN HomeSteps
  /\ \A m \in DOMAIN home_moves : m.kind \in MoveKinds
  /\ DOMAIN home_limit = Home!Limited

\* The first two are what SeekUnderLimit says; the third is why: limit frames follow
\* seeking_limits.
LimitInv ==
  /\ LimitShapes
  /\ \A i \in Home!Limited :
       home_sent[i].kind \in Pushing => home_limit[i] = "seek" \/ home_statuses[i] = "Done"
  /\ ~home_run.active => home_limit = Home!Restored
  /\ home_run.active =>
       \A i \in Home!Limited : home_limit[i] = IF home_seeking[i] THEN "seek" ELSE "normal"

\* The moves of a part are of the kinds the configuration accepts.
LEMMA MovesAreKnown ==
  ASSUME NEW n, NEW p, p # "GlobalPost" => n \in DOMAIN HomeSteps
  PROVE  \A m \in DOMAIN Home!MovesOf(n, p) : m.kind \in MoveKinds
  <1>1. \A i \in DOMAIN HomeSteps : \A m \in HomeSteps[i].pre \cup HomeSteps[i].post :
          m.kind \in MoveKinds
    BY HomingConfigIsValid DEF Home!Validate, Home!ValidMoves, MoveKinds
  <1>2. \A m \in HomeGlobalPost : m.kind \in MoveKinds
    BY HomingConfigIsValid DEF Home!Validate, Home!ValidMoves, MoveKinds
  <1>3. ASSUME NEW ms, \A m \in ms : m.kind \in MoveKinds
        PROVE  \A m \in DOMAIN Home!Fresh(ms) : m.kind \in MoveKinds
    BY <1>3 DEF Home!Fresh, Home!GripperFree
  <1>4. CASE p = "Pre"
    <2>1. Home!MovesOf(n, p) = Home!Fresh(HomeSteps[n].pre)
      BY <1>4 DEF Home!MovesOf
    <2>2. QED
      BY <1>1, <1>3, <1>4, <2>1
  <1>5. CASE p = "MoveTo"
    <2>1. Home!MovesOf(n, p) = Home!Fresh({[kind |-> "moveTo", on |-> j] : j \in HomeSteps[n].moveTo})
      BY <1>5 DEF Home!MovesOf
    <2>2. \A m \in {[kind |-> "moveTo", on |-> j] : j \in HomeSteps[n].moveTo} : m.kind \in MoveKinds
      BY DEF MoveKinds
    <2>3. QED
      BY <1>3, <2>1, <2>2
  <1>6. CASE p = "Post"
    <2>1. Home!MovesOf(n, p) = Home!Fresh(HomeSteps[n].post)
      BY <1>6 DEF Home!MovesOf
    <2>2. QED
      BY <1>1, <1>3, <1>6, <2>1
  <1>7. CASE p = "GlobalPost"
    <2>1. Home!MovesOf(n, p) = Home!Fresh(HomeGlobalPost)
      BY <1>7 DEF Home!MovesOf
    <2>2. QED
      BY <1>2, <1>3, <2>1
  <1>8. CASE p \notin {"Pre", "MoveTo", "Post", "GlobalPost"}
    <2>1. Home!MovesOf(n, p) = <<>>
      BY <1>8 DEF Home!MovesOf
    <2>2. QED
      BY <2>1
  <1>9. QED
    BY <1>4, <1>5, <1>6, <1>7, <1>8

\* Limits brings a drive's limit to what the part wants of it.
LEMMA LimitsFollow ==
  ASSUME LimitInv, home_run.active
  PROVE  \A i \in Home!Limited :
           Home!ApplyLimits(Home!Wanted)[i] = IF Home!Wanted[i] THEN "seek" ELSE "normal"
  <1>1. \A i \in Home!Limited : Home!Wanted[i] \in BOOLEAN
    BY DEF Home!Wanted
  <1>2. QED
    BY <1>1 DEF LimitInv, Home!ApplyLimits

\* A step that sends nothing that pushes and restores every limit.
LEMMA RestoredIsFine ==
  ASSUME LimitShapes', ~home_run'.active, home_limit' = Home!Restored,
         home_sent' = Home!IdleCommands
  PROVE  LimitInv'
  <1>1. Home!Limited \subseteq Home!Actuators
    BY DEF Home!Limited, Home!Actuators
  <1>2. \A i \in Home!Limited : home_sent'[i].kind \notin Pushing
    BY <1>1 DEF Home!IdleCommands, Home!NoCmd, Pushing
  <1>3. QED
    BY <1>2 DEF LimitInv, Home!Restored

LEMMA LimitsBegin == Home!Init => LimitInv
  <1> SUFFICES ASSUME Home!Init
               PROVE  LimitInv
    OBVIOUS
  <1>1. Home!Limited \subseteq Home!Actuators
    BY DEF Home!Limited, Home!Actuators
  <1>2. \A i \in Home!Limited : home_sent[i].kind \notin Pushing
    BY <1>1 DEF Home!Init, Home!IdleCommands, Home!NoCmd, Pushing
  <1>3. LimitShapes
    BY HomeAssumption DEF Home!Init, LimitShapes, Home!Restored
  <1>4. QED
    BY <1>2, <1>3 DEF Home!Init, LimitInv

LEMMA LimitsStart ==
  ASSUME LimitInv, Home!Start
  PROVE  LimitInv'
  <1>1. Home!Limited \subseteq Home!Actuators
    BY DEF Home!Limited, Home!Actuators
  <1>2. \A i \in Home!Limited : home_sent'[i].kind \notin Pushing
    BY <1>1 DEF Home!Start, Home!IdleCommands, Home!NoCmd, Pushing
  <1>3. 1 \in DOMAIN HomeSteps
    BY HomeAssumption
  <1>4. \A m \in DOMAIN home_moves' : m.kind \in MoveKinds
    BY <1>3, MovesAreKnown DEF Home!Start
  <1>5. LimitShapes'
    BY <1>3, <1>4 DEF Home!Start, LimitShapes, Home!Restored
  <1>6. /\ home_run'.active
        /\ \A i \in Home!Limited : home_limit'[i] = IF home_seeking'[i] THEN "seek" ELSE "normal"
    BY DEF Home!Start, Home!Restored
  <1>7. QED
    BY <1>2, <1>5, <1>6 DEF LimitInv

LEMMA LimitsEnd ==
  ASSUME LimitInv, Home!Abort \/ \E late \in BOOLEAN : Home!Expire(late)
  PROVE  LimitInv'
  <1>1. /\ home_run' = [home_run EXCEPT !.active = FALSE] /\ home_limit' = Home!Restored
        /\ home_sent' = Home!IdleCommands /\ home_moves' = home_moves
    BY DEF Home!Abort, Home!Expire, Home!EndFailed
  <1>2. LimitShapes'
    BY <1>1 DEF LimitInv, LimitShapes, Home!Restored
  <1>3. ~home_run'.active
    BY <1>1 DEF LimitInv, LimitShapes
  <1>4. QED
    BY <1>1, <1>2, <1>3, RestoredIsFine

LEMMA LimitsOfMoves ==
  ASSUME LimitInv, home_run.active, NEW read, Home!MovePart(read)
  PROVE  LimitInv'
  <1> DEFINE after == [m \in DOMAIN home_moves |-> Home!MoveTick(m, home_moves[m], read[m.on])]
             lost == {m.on : m \in {n \in DOMAIN home_moves : Home!Expired(n, after[n])}}
             last == home_run.part = "Post" /\ home_run.step = Len(HomeSteps)
             step == IF home_run.part = "Post" THEN home_run.step + 1 ELSE home_run.step
             p == IF last THEN "GlobalPost" ELSE Home!NextPart(home_run.part)
  <1>1. home_run.part \in {"Pre", "MoveTo", "Post"} /\ home_run.step \in DOMAIN HomeSteps
    BY DEF Home!MovePart, LimitInv, LimitShapes
  <1>2. p # "GlobalPost" => step \in DOMAIN HomeSteps
    BY <1>1, HomeAssumption DEF Home!NextPart
  <1>3. \A m \in DOMAIN Home!MovesOf(step, p) : m.kind \in MoveKinds
    <2> HIDE DEF step, p
    <2>1. QED
      BY <1>2, MovesAreKnown
  <1>4. \A m \in DOMAIN after : m.kind \in MoveKinds
    BY DEF LimitInv, LimitShapes
  <1>5. CASE lost # {}
    <2>1. Home!EndFailed /\ home_moves' = after
      BY <1>5 DEF Home!MovePart
    <2> HIDE DEF after
    <2>2. LimitShapes' /\ ~home_run'.active
      BY <1>4, <2>1 DEF Home!EndFailed, LimitInv, LimitShapes, Home!Restored
    <2>3. QED
      BY <2>1, <2>2, RestoredIsFine DEF Home!EndFailed
  <1>6. CASE lost = {}
    <2>1. /\ Home!Limits
          /\ home_statuses' = [i \in Home!Actuators |-> home_statuses[i]]
          /\ home_sent' = [i \in Home!Actuators |->
                IF \E m \in DOMAIN home_moves : m.on = i /\ ~home_moves[m].done
                THEN [kind |-> (CHOOSE m \in DOMAIN home_moves : m.on = i /\ ~home_moves[m].done).kind,
                      leg |-> 0]
                ELSE Home!NoCmd]
      BY <1>6 DEF Home!MovePart
    <2>2. \/ /\ home_run' = [home_run EXCEPT !.elapsed = @ + 1, !.part = p, !.step = step]
             /\ home_moves' = Home!MovesOf(step, p)
          \/ home_run' = [home_run EXCEPT !.elapsed = @ + 1] /\ home_moves' = after
      BY <1>6 DEF Home!MovePart
    <2> HIDE DEF after, lost, p, step
    <2>3. home_run'.active /\ LimitShapes'
      BY <1>2, <1>3, <1>4, <2>1, <2>2 DEF LimitInv, LimitShapes, Home!Limits, Home!ApplyLimits
    <2>4. \A i \in Home!Limited :
            /\ home_seeking'[i] = Home!Wanted[i]
            /\ home_limit'[i] = IF Home!Wanted[i] THEN "seek" ELSE "normal"
      BY <2>1, LimitsFollow DEF Home!Limits
    <2>5. ASSUME NEW i \in Home!Limited, home_sent'[i].kind \in Pushing
          PROVE  home_limit'[i] = "seek" \/ home_statuses'[i] = "Done"
      <3>1. i \in Home!Actuators
        BY DEF Home!Limited, Home!Actuators
      <3>2. \E m \in DOMAIN home_moves : m.on = i /\ ~home_moves[m].done
        BY <2>1, <2>5, <3>1 DEF Home!NoCmd, Pushing
      <3> DEFINE m == CHOOSE m \in DOMAIN home_moves : m.on = i /\ ~home_moves[m].done
      <3>3. m \in DOMAIN home_moves /\ m.on = i /\ ~home_moves[m].done
        BY <3>2
      <3>4. m.kind \in Pushing
        BY <2>1, <2>5, <3>1, <3>2
      <3> HIDE DEF m
      <3>5. m.kind \in {"nudge", "position", "moveTo"}
        BY <3>3, <3>4 DEF LimitInv, LimitShapes, MoveKinds, Pushing
      <3>6. Home!Wanted[i] <=> home_statuses[i] # "Done"
        BY <1>1, <3>3, <3>5 DEF Home!Wanted
      <3>7. QED
        BY <2>1, <2>4, <3>1, <3>6
    <2>6. QED
      BY <2>3, <2>4, <2>5 DEF LimitInv
  <1>7. QED
    BY <1>5, <1>6

LEMMA LimitsOfStarts ==
  ASSUME LimitInv, home_run.active, Home!HomeStart
  PROVE  LimitInv'
  <1>1. Home!Limited \subseteq Home!Actuators
    BY DEF Home!Limited, Home!Actuators
  <1>2. /\ home_run' = [home_run EXCEPT !.elapsed = @ + 1, !.part = "Home"]
        /\ home_run.part = "HomeStart" /\ home_moves' = home_moves
        /\ home_sent' = Home!IdleCommands /\ Home!Limits
    BY DEF Home!HomeStart
  <1>3. \A i \in Home!Limited : home_sent'[i].kind \notin Pushing
    BY <1>1, <1>2 DEF Home!IdleCommands, Home!NoCmd, Pushing
  <1>4. home_run'.active /\ LimitShapes'
    BY <1>2 DEF LimitInv, LimitShapes, Home!Limits, Home!ApplyLimits
  <1>5. \A i \in Home!Limited :
          /\ home_seeking'[i] = Home!Wanted[i]
          /\ home_limit'[i] = IF Home!Wanted[i] THEN "seek" ELSE "normal"
    BY <1>2, LimitsFollow DEF Home!Limits
  <1>6. QED
    BY <1>3, <1>4, <1>5 DEF LimitInv

\* A joint that is referenced has its normal limit back at once; until then it seeks under
\* the reduced one.
LEMMA LimitsOfSeeks ==
  ASSUME LimitInv, home_run.active, NEW read, NEW bit, NEW cached,
         Home!HomePart(read, bit, cached)
  PROVE  LimitInv'
  <1> DEFINE group == {i \in Home!Home(home_run.step) : Home!Running(home_homers[i])}
             res == [i \in group |-> Home!HomerTick(home_homers[i], i, read[i],
                                       IF i \in HomeHalls THEN cached[i] ELSE Home!NoHall)]
             refs == {i \in group : res[i].event = "reference"}
             lost == {i \in group : res[i].event = "failed"}
             c == Home!CalTick(bit)
  <1>1. home_run.part = "Home" /\ home_run.step \in DOMAIN HomeSteps
    BY DEF Home!HomePart, LimitInv, LimitShapes
  <1>2. \A m \in DOMAIN home_moves' : m.kind \in MoveKinds
    <2>1. home_moves' \in {Home!MovesOf(home_run.step, "MoveTo"), home_moves}
      BY DEF Home!HomePart
    <2>2. \A m \in DOMAIN Home!MovesOf(home_run.step, "MoveTo") : m.kind \in MoveKinds
      BY <1>1, MovesAreKnown
    <2>3. QED
      BY <2>1, <2>2 DEF LimitInv, LimitShapes
  <1>3. CASE lost # {} \/ (home_cal.on /\ c.cal.failed)
    <2>1. Home!EndFailed
      BY <1>3 DEF Home!HomePart
    <2>2. LimitShapes' /\ ~home_run'.active
      BY <1>2, <2>1 DEF Home!EndFailed, LimitInv, LimitShapes, Home!Restored
    <2>3. QED
      BY <2>1, <2>2, RestoredIsFine DEF Home!EndFailed
  <1>4. CASE ~(lost # {} \/ (home_cal.on /\ c.cal.failed))
    <2>1. /\ home_seeking' = [i \in Home!Limited |-> Home!Wanted[i] /\ i \notin refs]
          /\ home_limit' = [i \in Home!Limited |->
                              IF i \in refs THEN "normal" ELSE Home!ApplyLimits(Home!Wanted)[i]]
          /\ home_sent' = [i \in Home!Actuators |-> IF i \in group THEN res[i].cmd ELSE Home!NoCmd]
      BY <1>4 DEF Home!HomePart
    <2>2. \E p \in {"MoveTo", home_run.part} :
            home_run' = [home_run EXCEPT !.elapsed = @ + 1, !.part = p]
      BY <1>4 DEF Home!HomePart
    <2>3. \A i \in Home!Actuators :
            /\ i \in refs => home_statuses'[i] = "Done"
            /\ home_statuses[i] = "Done" => home_statuses'[i] = "Done"
      BY <1>4 DEF Home!HomePart
    <2>4. \A i \in group : i \in Home!Home(home_run.step)
      OBVIOUS
    <2> HIDE DEF group, res, refs, lost, c
    <2>5. home_run'.active /\ LimitShapes'
      BY <1>1, <1>2, <2>1, <2>2 DEF LimitInv, LimitShapes
    <2>6. \A i \in Home!Limited :
            home_limit'[i] = IF home_seeking'[i] THEN "seek" ELSE "normal"
      <3>1. \A i \in Home!Limited : Home!Wanted[i] \in BOOLEAN
        BY DEF Home!Wanted
      <3>2. QED
        BY <2>1, <3>1, LimitsFollow
    <2>7. ASSUME NEW i \in Home!Limited, home_sent'[i].kind \in Pushing
          PROVE  home_limit'[i] = "seek" \/ home_statuses'[i] = "Done"
      <3>1. i \in Home!Actuators
        BY DEF Home!Limited, Home!Actuators
      <3>2. i \in group
        BY <2>1, <2>7, <3>1 DEF Home!NoCmd, Pushing
      <3>3. Home!Wanted[i] <=> home_statuses[i] # "Done"
        BY <1>1, <2>4, <3>2 DEF Home!Wanted
      <3>4. Home!ApplyLimits(Home!Wanted)[i] = IF Home!Wanted[i] THEN "seek" ELSE "normal"
        BY LimitsFollow
      <3>5. QED
        BY <2>1, <2>3, <3>1, <3>3, <3>4
    <2>8. QED
      BY <2>5, <2>6, <2>7 DEF LimitInv
  <1>5. QED
    BY <1>3, <1>4

LEMMA LimitsOfLast ==
  ASSUME LimitInv, home_run.active, NEW read, NEW refused, Home!GlobalPostPart(read, refused)
  PROVE  LimitInv'
  <1>1. Home!Limited \subseteq Home!Actuators
    BY DEF Home!Limited, Home!Actuators
  <1>2. \A m \in DOMAIN home_moves' : m.kind \in MoveKinds
    BY DEF Home!GlobalPostPart, LimitInv, LimitShapes
  <1>3. home_run.part = "GlobalPost" /\ home_sent' = Home!IdleCommands
        /\ \/ home_run' = [home_run EXCEPT !.active = FALSE] /\ home_limit' = Home!Restored
           \/ /\ home_run' = [home_run EXCEPT !.active = FALSE, !.elapsed = @ + 1]
              /\ home_limit' = Home!Restored
           \/ /\ \E n : home_run' = [home_run EXCEPT !.elapsed = @ + 1, !.checkLeft = n]
              /\ Home!Limits
    BY DEF Home!GlobalPostPart, Home!EndFailed
  <1>4. CASE ~home_run'.active /\ home_limit' = Home!Restored
    <2>1. LimitShapes'
      BY <1>2, <1>3, <1>4 DEF LimitInv, LimitShapes, Home!Restored, Home!Limits, Home!ApplyLimits
    <2>2. QED
      BY <1>3, <1>4, <2>1, RestoredIsFine
  <1>5. CASE Home!Limits /\ home_run'.active
    <2>1. LimitShapes'
      BY <1>2, <1>3, <1>5 DEF LimitInv, LimitShapes, Home!Limits, Home!ApplyLimits, Home!Restored
    <2>2. \A i \in Home!Limited : home_sent'[i].kind \notin Pushing
      BY <1>1, <1>3 DEF Home!IdleCommands, Home!NoCmd, Pushing
    <2>3. \A i \in Home!Limited :
            /\ home_seeking'[i] = Home!Wanted[i]
            /\ home_limit'[i] = IF Home!Wanted[i] THEN "seek" ELSE "normal"
      BY <1>5, LimitsFollow DEF Home!Limits
    <2>4. QED
      BY <1>5, <2>1, <2>2, <2>3 DEF LimitInv
  <1>6. QED
    BY <1>3, <1>4, <1>5 DEF LimitInv, LimitShapes

LEMMA LimitsTick ==
  ASSUME LimitInv, Home!Tick
  PROVE  LimitInv'
  <1>1. home_run.active
    BY DEF Home!Tick
  <1>2. CASE Home!Expire(home_run.elapsed + 1 >= Home!SequenceBudget)
    <2>1. (home_run.elapsed + 1 >= Home!SequenceBudget) = TRUE
      BY <1>2 DEF Home!Expire
    <2>2. QED
      BY <1>2, <2>1, LimitsEnd
  <1>3. CASE ~Home!Expire(home_run.elapsed + 1 >= Home!SequenceBudget)
    <2>1. PICK r \in [Home!Watched -> Home!Readings], bit \in BOOLEAN,
               refused \in SUBSET HomeJoints, answered \in SUBSET Home!Asked,
               moved \in SUBSET {i \in Home!Asked : Home!Crosses(i)} :
            Home!RunPart(Home!Reads(r), bit, refused, answered, Home!Answers(answered, moved))
      BY <1>3 DEF Home!Tick
    <2>2. QED
      BY <1>1, <2>1, LimitsOfMoves, LimitsOfStarts, LimitsOfSeeks, LimitsOfLast DEF Home!RunPart
  <1>4. QED
    BY <1>2, <1>3

\* A blind seek is gentle: whatever the script and the times, a drive is pushed towards a
\* stop, or moved without a reference, only under the seeking limit; every drive has its
\* normal limit back when the sequence ends, however it ends; and the status publishes the
\* limit the drive was sent (homing.rs apply_phase_limits, restore_all).
THEOREM SeeksStayGentle == Home!Spec => []Home!SeekUnderLimit
  <1>1. Home!Init => LimitInv
    BY LimitsBegin
  <1>2. LimitInv /\ [Home!Next]_(Home!vars) => LimitInv'
    <2>1. ASSUME LimitInv, UNCHANGED Home!vars PROVE LimitInv'
      BY <2>1 DEF Home!vars, LimitInv, LimitShapes, Home!Limited, Home!Restored
    <2>2. QED
      BY <2>1, LimitsStart, LimitsEnd, LimitsTick DEF Home!Next
  <1>3. LimitInv => Home!SeekUnderLimit
    BY DEF LimitInv, Home!SeekUnderLimit, Home!EffectiveLimit, Pushing
  <1>4. QED
    BY <1>1, <1>2, <1>3, PTL DEF Home!Spec
=============================================================================
