-------------------------- MODULE CommandPlaneProofs --------------------------
(***************************************************************************)
(* The state of the command plane keeps its shape, the software e-stop     *)
(* silences the queue, and no motion runs against geometry that went       *)
(* stale, for every queue capacity, look-ahead, set of keys and set of RT  *)
(* snapshots, and any number of commands.                                  *)
(***************************************************************************)
EXTENDS CommandPlane, ServerCoreProofs, WellFoundedInduction

-----------------------------------------------------------------------------
(* The planner's answers. *)

\* A non-empty set of naturals has a least member.
LEMMA LeastNat ==
  ASSUME NEW T, T \subseteq Nat, T # {}
  PROVE  \E m \in T : \A k \in T : m <= k
<1> DEFINE R == OpToRel(<, Nat)
<1>1. PICK m \in T : \A k \in T : ~(<<k, m>> \in R)
  <2>1. IsWellFoundedOn(R, Nat)
    BY NatLessThanWellFounded
  <2> HIDE DEF R
  <2>2. QED
    BY <2>1, WFMin
<1>2. \A k \in T : ~(k < m)
  BY <1>1 DEF OpToRel
<1>3. QED
  BY <1>2

\* A blend chain covers at least its head and at most the batch.
LEMMA CoveredRange ==
  ASSUME NEW batch \in Seq(Entry), batch # <<>>
  PROVE  Covered(batch) \in 1..Len(batch)
<1> DEFINE linked(k) == batch[k].kind = "blend" /\ batch[k + 1].kind \in {"move", "blend"}
           T == {n \in 1..Len(batch) : n < Len(batch) => ~linked(n)}
<1>1. Len(batch) \in Nat \ {0}
  BY EmptySeq
<1>2. T \subseteq Nat /\ Len(batch) \in T
  BY <1>1
<1>3. PICK n \in T : \A k \in T : n <= k
  BY <1>2, LeastNat
<1>4. ASSUME NEW k \in 1..(n - 1) PROVE linked(k)
  <2>1. n \in 1..Len(batch)
    BY <1>3
  <2>2. k \in 1..Len(batch) /\ k < n
    BY <1>1, <2>1
  <2>3. k \notin T
    BY <1>1, <1>3, <2>1, <2>2
  <2> HIDE DEF linked
  <2>4. QED
    BY <2>2, <2>3
<1>5. n \in 1..Len(batch) /\ (n < Len(batch) => ~linked(n))
  BY <1>3
<1>6. QED
  BY <1>4, <1>5 DEF Covered

-----------------------------------------------------------------------------
(* A server turn. *)

\* The invariant of the two theorems.
Inv == TypeOK /\ EstopSilencesQueue

\* A handler that holds, committed, keeps the invariant.
LEMMA CommitKeeps ==
  ASSUME Inv, NEW t, Holds(core, t), Commit(t), events' \in Seq(PlanEvents)
  PROVE  Inv'
<1>1. Latched(core)
  BY DEF Inv, EstopSilencesQueue, Latched
<1>2. CoreOK(t) /\ Latched(t)
  BY <1>1 DEF Holds
<1>3. Keeps(t, core', {"sent"}) /\ core'.sent = <<>>
  BY <1>2 DEF Commit, Keeps, Fields, CoreOK
<1>4. /\ core'.next_index = t.next_index /\ core'.next_tag = t.next_tag
      /\ core'.pending = t.pending /\ core'.executing = t.executing
      /\ core'.planning = t.planning /\ core'.blend_hold = t.blend_hold
      /\ core'.shapes = t.shapes /\ core'.pending_shapes = t.pending_shapes
      /\ core'.estop_latched = t.estop_latched
      /\ core'.tool_stops = t.tool_stops /\ core'.active_stream = t.active_stream
  BY <1>3 DEF Keeps, Fields
<1>5. <<>> \in Seq(PlanRequest)
  BY EmptySeq
<1>6. CoreOK(core')
  BY <1>2, <1>3, <1>4, <1>5 DEF Keeps, CoreOK, MarkerOK, PlanningHead
<1>7. requests' \in Seq(PlanRequest)
  BY <1>2, ConcatProperties DEF Inv, TypeOK, Commit, CoreOK
<1>8. TypeOK'
  BY <1>3, <1>6, <1>7 DEF Inv, TypeOK, Commit, planner
<1>9. EstopSilencesQueue'
  BY <1>2, <1>4 DEF EstopSilencesQueue, Latched, Quiet
<1>10. QED
  BY <1>8, <1>9 DEF Inv

\* Every handler of a client's datagram, run on an arrived core, holds.
LEMMA ClientKeeps ==
  ASSUME Inv, NEW sn \in Snaps, Client(sn)
  PROVE  Inv'
<1> DEFINE a == Arrive(core, sn)
<1>1. CoreOK(core) /\ events \in Seq(PlanEvents)
  BY DEF Inv, TypeOK
<1>2. Holds(core, a) /\ CoreOK(a)
  BY <1>1, ArriveCalms, CalmsHolds DEF Calms
<1> HIDE DEF a
<1>3. ASSUME NEW t, Holds(a, t), Commit(t), UNCHANGED events PROVE Inv'
  BY <1>1, <1>2, <1>3, HoldsTrans, CommitKeeps
<1>4. ASSUME NEW t, Calms(a, t), Commit(t), UNCHANGED events PROVE Inv'
  BY <1>3, <1>4, CalmsHolds
<1>5. "plain" \in ShapeStates /\ TRUE \in BOOLEAN
  BY DEF ShapeStates
<1>6. CASE Queued(sn)
  <2>1. PICK key \in Keys, kind \in Kinds : Commit(OnQueued(a, key, kind))
    BY <1>6 DEF Queued, a
  <2>2. Holds(a, OnQueued(a, key, kind))
    BY <1>2, InstanceAssumption, QueuedHolds
  <2>3. QED
    BY <1>3, <1>6, <2>1, <2>2 DEF Queued
<1>7. CASE Streamed(sn)
  <2>1. PICK stream \in Streams, ok \in BOOLEAN, standoff \in BOOLEAN :
           Commit(OnFaf(a, stream, ok, standoff))
    BY <1>7 DEF Streamed, a
  <2>2. Holds(a, OnFaf(a, stream, ok, standoff))
    BY <1>2, InstanceAssumption, FafHolds
  <2>3. QED
    BY <1>3, <1>7, <2>1, <2>2 DEF Streamed
<1>8. CASE Estop(sn)
  BY <1>2, <1>3, <1>8, EstopHolds DEF Estop, a
<1>9. CASE Stop(sn)
  <2>1. PICK clear_queue \in BOOLEAN : Commit(OnStop(a, clear_queue))
    BY <1>9 DEF Stop, a
  <2>2. Calms(a, OnStop(a, clear_queue))
    BY <1>2, <1>5, SystemCalms
  <2>3. QED
    BY <1>4, <1>9, <2>1, <2>2 DEF Stop
<1>10. CASE Pause(sn)
  <2>1. PICK on \in BOOLEAN : Commit(OnPause(a, on))
    BY <1>10 DEF Pause, a
  <2>2. Calms(a, OnPause(a, on))
    BY <1>2, LatchesCalm
  <2>3. QED
    BY <1>4, <1>10, <2>1, <2>2 DEF Pause
<1>11. CASE Teleport(sn)
  <2>1. Calms(a, OnTeleport(a))
    BY <1>2, <1>5, SystemCalms
  <2>2. QED
    BY <1>4, <1>11, <2>1 DEF Teleport, a
<1>12. CASE Reset(sn)
  BY <1>2, <1>3, <1>12, ResetHolds DEF Reset, a
<1>13. CASE ResetState(sn)
  <2>1. Calms(a, OnResetState(a))
    BY <1>2, <1>5, SystemCalms
  <2>2. QED
    BY <1>4, <1>13, <2>1 DEF ResetState, a
<1>14. CASE BusSwap(sn)
  <2>1. Calms(a, OnBusSwap(a))
    BY <1>2, <1>5, SystemCalms
  <2>2. QED
    BY <1>4, <1>14, <2>1 DEF BusSwap, a
<1>15. CASE SetShapes(sn)
  <2>1. PICK set \in ShapeSets : Commit(OnSetShapes(a, set))
    BY <1>15 DEF SetShapes, a
  <2>2. Calms(a, OnSetShapes(a, set))
    BY <1>2, <1>5, InstanceAssumption, SystemCalms DEF ShapeStates
  <2>3. QED
    BY <1>4, <1>15, <2>1, <2>2 DEF SetShapes
<1>16. QED
  BY <1>6, <1>7, <1>8, <1>9, <1>10, <1>11, <1>12, <1>13, <1>14, <1>15 DEF Client

\* A poll and a planner event keep the invariant.
LEMMA PollAndEventKeep ==
  ASSUME Inv, NEW sn \in Snaps, Poll(sn) \/ PlanEvent(sn)
  PROVE  Inv'
<1> DEFINE a == Arrive(core, sn)
           ev == Head(events)
<1>1. CoreOK(core) /\ events \in Seq(PlanEvents)
  BY DEF Inv, TypeOK
<1>2. Holds(core, a) /\ CoreOK(a)
  BY <1>1, ArriveCalms, CalmsHolds DEF Calms
<1> HIDE DEF a
<1>3. CASE Poll(sn)
  <2>1. Holds(a, Pump(a))
    BY <1>2, PumpCalms, CalmsHolds
  <2>2. QED
    BY <1>1, <1>2, <1>3, <2>1, HoldsTrans, CommitKeeps DEF Poll, a
<1>4. CASE PlanEvent(sn)
  <2>1. ev \in PlanEvents /\ events' \in Seq(PlanEvents)
    BY <1>1, <1>4, HeadTailProperties DEF PlanEvent
  <2> HIDE DEF ev
  <2>2. Holds(a, OnPlanEvent(a, ev))
    <3>1. CASE ev \in [op : {"Started"}, index : Nat \ {0}, taken : Nat]
      <4>1. ev.op = "Started" /\ ev.taken \in Nat
        BY <3>1
      <4>2. OnPlanEvent(a, ev) = OnPlanStarted(a, ev.index, ev.taken)
        BY <4>1 DEF OnPlanEvent
      <4>3. QED
        BY <1>2, <4>1, <4>2, PlanStartedHolds
    <3>2. CASE ev \in [op : {"Rejected"}, index : Nat \ {0}]
      <4>1. ev.op = "Rejected"
        BY <3>2
      <4>2. OnPlanEvent(a, ev) = OnPlanRejected(a, ev.index)
        BY <4>1 DEF OnPlanEvent
      <4>3. QED
        BY <1>2, <4>2, PlanRejectedCalms, CalmsHolds
    <3>3. CASE ev \in [op : {"Outcome"}, index : Nat, ok : BOOLEAN, changed : BOOLEAN]
      <4> DEFINE o == OnOutcome(a, ev.index, ev.ok, ev.changed)
      <4>1. ev.op = "Outcome" /\ ev.ok \in BOOLEAN /\ ev.changed \in BOOLEAN
        BY <3>3
      <4>2. OnPlanEvent(a, ev) = Pump(o)
        BY <4>1 DEF OnPlanEvent
      <4>3. Calms(a, o)
        BY <1>2, <4>1, OutcomeCalms
      <4>4. Calms(o, Pump(o))
        BY <4>3, PumpCalms DEF Calms
      <4>5. QED
        BY <4>2, <4>3, <4>4, CalmsTrans, CalmsHolds
    <3>4. CASE ev \in [op : {"ToolOutcome"}, index : Nat, ok : BOOLEAN]
      <4>1. ev.op = "ToolOutcome" /\ ev.ok \in BOOLEAN
        BY <3>4
      <4>2. OnPlanEvent(a, ev) = OnToolOutcome(a, ev.index, ev.ok)
        BY <4>1 DEF OnPlanEvent
      <4>3. QED
        BY <1>2, <4>1, <4>2, ToolOutcomeCalms, CalmsHolds
    <3>5. CASE ev \in [op : {"ToolStarted", "ShapesApplied"}, tag : Nat, ok : BOOLEAN]
      <4>1. ev.op \in {"ToolStarted", "ShapesApplied"} /\ ev.ok \in BOOLEAN
        BY <3>5
      <4>2. CASE ev.op = "ToolStarted"
        <5>1. OnPlanEvent(a, ev) = OnToolStarted(a, ev.tag, ev.ok)
          BY <4>2 DEF OnPlanEvent
        <5>2. QED
          BY <1>2, <4>1, <5>1, ToolStartedCalms, CalmsHolds
      <4>3. CASE ev.op = "ShapesApplied"
        <5>1. OnPlanEvent(a, ev) = OnShapesApplied(a, ev.tag, ev.ok)
          BY <4>3 DEF OnPlanEvent
        <5>2. QED
          BY <1>2, <4>1, <5>1, ShapesAppliedCalms, CalmsHolds
      <4>4. QED
        BY <4>1, <4>2, <4>3
    <3>6. CASE ev \in [op : {"ToolFitted"}, changed : BOOLEAN]
      <4>1. ev.op = "ToolFitted" /\ ev.changed \in BOOLEAN
        BY <3>6
      <4>2. OnPlanEvent(a, ev) = AdoptToolSelection(a, ev.changed)
        BY <4>1 DEF OnPlanEvent
      <4>3. QED
        BY <1>2, <4>1, <4>2, AdoptCalms, CalmsHolds
    <3>7. QED
      BY <2>1, <3>1, <3>2, <3>3, <3>4, <3>5, <3>6 DEF PlanEvents
  <2>3. Holds(core, OnPlanEvent(a, ev))
    BY <1>2, <2>2, HoldsTrans
  <2>4. QED
    BY <1>4, <2>1, <2>3, CommitKeeps DEF PlanEvent, a, ev
<1>5. QED
  BY <1>3, <1>4

\* The deadline of a blend hold passing keeps the invariant.
LEMMA HoldExpiresKeeps ==
  ASSUME Inv, HoldExpires
  PROVE  Inv'
<1>1. CoreOK(core)
  BY DEF Inv, TypeOK
<1>2. Keeps(core, core', {"blend_hold"}) /\ core'.blend_hold = "expired"
  BY <1>1 DEF HoldExpires, Keeps, Fields, CoreOK
<1>3. /\ core'.next_index = core.next_index /\ core'.next_tag = core.next_tag
      /\ core'.pending = core.pending /\ core'.executing = core.executing
      /\ core'.planning = core.planning /\ core'.sent = core.sent
      /\ core'.shapes = core.shapes /\ core'.pending_shapes = core.pending_shapes
      /\ core'.estop_latched = core.estop_latched
      /\ core'.tool_stops = core.tool_stops /\ core'.active_stream = core.active_stream
  BY <1>2 DEF Keeps, Fields
<1>4. CoreOK(core')
  BY <1>1, <1>2, <1>3 DEF Keeps, CoreOK, MarkerOK, PlanningHead
<1>5. TypeOK'
  BY <1>3, <1>4 DEF Inv, TypeOK, HoldExpires, planner
<1>6. EstopSilencesQueue'
  BY <1>3 DEF Inv, EstopSilencesQueue, Quiet
<1>7. QED
  BY <1>5, <1>6 DEF Inv

-----------------------------------------------------------------------------
(* A planner step: the core is untouched, the messages keep their types. *)

\* What a planner step has to keep.
PlannerTypes ==
  /\ requests \in Seq(PlanRequest)
  /\ events \in Seq(PlanEvents)
  /\ inflight \in [index : Nat, kind : QueuedKinds \cup {"none"}]
  /\ tool_stop \in Nat /\ invalidated \in Nat

\* Servicing one request, or polling, keeps the types.
LEMMA PlannerKeeps ==
  ASSUME Inv, Planner
  PROVE  Inv'
<1>1. PlannerTypes
  BY DEF Inv, TypeOK, PlannerTypes
<1>2. ASSUME NEW op, Takes(op)
      PROVE  /\ Head(requests) \in PlanRequest /\ Head(requests).op = op
             /\ Tail(requests) \in Seq(PlanRequest)
  BY <1>1, <1>2, HeadTailProperties DEF Takes, PlannerTypes
<1>3. NoFlight \in [index : Nat, kind : QueuedKinds \cup {"none"}]
  BY DEF NoFlight
<1>4. ASSUME NEW e \in PlanEvents PROVE Append(events, e) \in Seq(PlanEvents)
  BY <1>1, AppendProperties, SMTT(40) DEF PlannerTypes
<1>5. CASE ServiceStart
  <2> DEFINE batch == Head(requests).batch
             head == batch[1]
  <2>1. /\ batch \in Seq(Entry) /\ batch # <<>>
        /\ Tail(requests) \in Seq(PlanRequest)
    <3>1. Takes("Start")
      BY <1>5, Zenon DEF ServiceStart
    <3>2. /\ Head(requests) \in PlanRequest /\ Head(requests).op = "Start"
          /\ Tail(requests) \in Seq(PlanRequest)
      BY <1>2, <3>1, Zenon
    <3>3. QED
      BY <3>2 DEF PlanRequest
  <2>2. head \in Entry
    BY <2>1
  <2>3. Covered(batch) \in Nat
    BY <2>1, CoveredRange, SMTT(40)
  <2> HIDE DEF batch
  <2>4. CASE /\ inflight' = [index |-> head.index, kind |-> head.kind]
             /\ \E changed \in BOOLEAN :
                  events' = events \o Fitted(head.kind, changed) \o
                    <<[op |-> "Started", index |-> head.index, taken |-> Covered(batch)]>>
    <3>1. PICK changed \in BOOLEAN :
            events' = events \o Fitted(head.kind, changed) \o
                <<[op |-> "Started", index |-> head.index, taken |-> Covered(batch)]>>
      BY <2>4
    <3>2. [op |-> "Started", index |-> head.index, taken |-> Covered(batch)] \in PlanEvents
      BY <2>2, <2>3 DEF PlanEvents, Entry
    <3>3. Fitted(head.kind, changed) \in Seq(PlanEvents)
      <4>1. [op |-> "ToolFitted", changed |-> TRUE] \in PlanEvents
        BY DEF PlanEvents
      <4>2. QED
        BY <4>1 DEF Fitted
    <3>4. <<[op |-> "Started", index |-> head.index, taken |-> Covered(batch)]>> \in Seq(PlanEvents)
      BY <3>2
    <3>5. events' \in Seq(PlanEvents)
      BY <1>1, <3>1, <3>3, <3>4, ConcatProperties DEF PlannerTypes
    <3>6. inflight' \in [index : Nat, kind : QueuedKinds \cup {"none"}]
      BY <2>2, <2>4, SMTT(40) DEF Entry
    <3>7. PlannerTypes'
      BY <1>1, <1>5, <2>1, <3>5, <3>6, SMTT(40) DEF PlannerTypes, ServiceStart
    <3>8. QED
      BY <1>5, <3>7 DEF Inv, TypeOK, PlannerTypes, EstopSilencesQueue, ServiceStart
  <2>5. CASE /\ UNCHANGED inflight
             /\ events' = Append(events, [op |-> "Rejected", index |-> head.index])
    <3>1. [op |-> "Rejected", index |-> head.index] \in PlanEvents
      BY <2>2, SMTT(40) DEF PlanEvents, Entry
    <3>2. PlannerTypes'
      BY <1>1, <1>4, <1>5, <2>1, <2>5, <3>1 DEF PlannerTypes, ServiceStart
    <3>3. QED
      BY <1>5, <3>2 DEF Inv, TypeOK, PlannerTypes, EstopSilencesQueue, ServiceStart
  <2>6. QED
    BY <1>5, <2>4, <2>5 DEF ServiceStart, batch
<1>6. CASE ServiceCancel
  BY <1>1, <1>2, <1>3, <1>6
     DEF Inv, TypeOK, PlannerTypes, EstopSilencesQueue, ServiceCancel
<1>7. CASE ServiceStartTool
  <2>1. /\ Head(requests).tag \in Nat /\ Head(requests).index \in Nat
        /\ Tail(requests) \in Seq(PlanRequest)
    BY <1>2, <1>7 DEF ServiceStartTool, PlanRequest
  <2>2. ASSUME NEW ok \in BOOLEAN
        PROVE  [op |-> "ToolStarted", tag |-> Head(requests).tag, ok |-> ok] \in PlanEvents
    BY <2>1 DEF PlanEvents
  <2>3. PlannerTypes'
    BY <1>1, <1>4, <1>7, <2>1, <2>2 DEF PlannerTypes, ServiceStartTool
  <2>4. QED
    BY <1>7, <2>3 DEF Inv, TypeOK, PlannerTypes, EstopSilencesQueue, ServiceStartTool
<1>8. CASE ServiceCancelTool
  BY <1>1, <1>2, <1>8
     DEF Inv, TypeOK, PlannerTypes, EstopSilencesQueue, ServiceCancelTool
<1>9. CASE ServiceSetShapes
  <2>1. Head(requests).tag \in Nat /\ Tail(requests) \in Seq(PlanRequest)
    BY <1>2, <1>9 DEF ServiceSetShapes, PlanRequest
  <2>2. ASSUME NEW ok \in BOOLEAN
        PROVE  [op |-> "ShapesApplied", tag |-> Head(requests).tag, ok |-> ok] \in PlanEvents
    BY <2>1 DEF PlanEvents
  <2>3. inflight.index \in Nat
    BY <1>1 DEF PlannerTypes
  <2>4. PlannerTypes'
    BY <1>1, <1>3, <1>4, <1>9, <2>1, <2>2, <2>3 DEF PlannerTypes, ServiceSetShapes
  <2>5. QED
    BY <1>9, <2>4 DEF Inv, TypeOK, PlannerTypes, EstopSilencesQueue, ServiceSetShapes
<1>10. CASE PollOutcome
  <2>1. ASSUME NEW i \in Nat, NEW ok \in BOOLEAN, NEW changed \in BOOLEAN
        PROVE  [op |-> "Outcome", index |-> i, ok |-> ok, changed |-> changed] \in PlanEvents
    BY DEF PlanEvents
  <2>2. inflight.index \in Nat /\ invalidated \in Nat
    BY <1>1 DEF PlannerTypes
  <2>3. PlannerTypes'
    <3>1. PICK ok \in BOOLEAN, changed \in BOOLEAN :
            \/ /\ events' = Append(events, [op |-> "Outcome", index |-> invalidated,
                                            ok |-> FALSE, changed |-> FALSE])
               /\ invalidated' = 0 /\ UNCHANGED inflight
            \/ /\ events' = Append(events, [op |-> "Outcome", index |-> inflight.index,
                                            ok |-> ok, changed |-> changed])
               /\ inflight' = NoFlight /\ UNCHANGED invalidated
      BY <1>10 DEF PollOutcome
    <3>2. events' \in Seq(PlanEvents)
      <4>1. [op |-> "Outcome", index |-> invalidated, ok |-> FALSE, changed |-> FALSE]
               \in PlanEvents
        BY <2>1, <2>2
      <4>2. [op |-> "Outcome", index |-> inflight.index, ok |-> ok, changed |-> changed]
               \in PlanEvents
        BY <2>1, <2>2
      <4>3. QED
        BY <1>4, <3>1, <4>1, <4>2
    <3>3. /\ inflight' \in [index : Nat, kind : QueuedKinds \cup {"none"}]
          /\ invalidated' \in Nat
      BY <1>1, <1>3, <3>1 DEF PlannerTypes
    <3>4. QED
      BY <1>1, <1>10, <3>2, <3>3 DEF PlannerTypes, PollOutcome
  <2>4. QED
    BY <1>10, <2>3 DEF Inv, TypeOK, PlannerTypes, EstopSilencesQueue, PollOutcome
<1>11. CASE PollTool
  <2>1. ASSUME NEW ok \in BOOLEAN
        PROVE  [op |-> "ToolOutcome", index |-> tool_stop, ok |-> ok] \in PlanEvents
    BY <1>1 DEF PlanEvents, PlannerTypes
  <2>2. PlannerTypes'
    BY <1>1, <1>4, <1>11, <2>1 DEF PlannerTypes, PollTool
  <2>3. QED
    BY <1>11, <2>2 DEF Inv, TypeOK, PlannerTypes, EstopSilencesQueue, PollTool
<1>12. CASE DriveToolChanged
  <2>1. [op |-> "ToolFitted", changed |-> TRUE] \in PlanEvents
    BY DEF PlanEvents
  <2>2. PlannerTypes'
    BY <1>1, <1>4, <1>12, <2>1 DEF PlannerTypes, DriveToolChanged, planner
  <2>3. QED
    BY <1>12, <2>2 DEF Inv, TypeOK, PlannerTypes, EstopSilencesQueue, DriveToolChanged
<1>13. QED
  BY <1>5, <1>6, <1>7, <1>8, <1>9, <1>10, <1>11, <1>12 DEF Planner

-----------------------------------------------------------------------------
(* The theorems. *)

\* The core starts well-formed and quiet.
LEMMA InitInv == Init => Inv
<1> SUFFICES ASSUME Init PROVE Inv
  OBVIOUS
<1>1. PICK sn \in Snaps : core = InitCore(sn)
  BY DEF Init
<1>2. /\ DOMAIN core = Fields
      /\ core.next_index = 1 /\ core.next_tag = 0 /\ core.pending = <<>>
      /\ core.executing = NoCmd /\ core.planning = 0 /\ core.blend_hold = "none"
      /\ core.shapes = "plain" /\ core.pending_shapes = {} /\ core.sent = <<>>
      /\ core.estop_latched = FALSE
  BY <1>1 DEF InitCore, Fields
<1>3. <<>> \in Seq(Entry) /\ <<>> \in Seq(PlanRequest) /\ <<>> \in Seq(PlanEvents)
         /\ Len(<<>>) = 0
  BY EmptySeq
<1>4. CoreOK(core)
  BY <1>2, <1>3, CapacityAssumption DEF CoreOK, MarkerOK, NoCmd, ShapeStates
<1>5. EstopSilencesQueue
  BY <1>2 DEF EstopSilencesQueue
<1>6. TypeOK
  BY <1>2, <1>3, <1>4 DEF Init, TypeOK, NoFlight
<1>7. QED
  BY <1>5, <1>6 DEF Inv

\* One step of the server or of the planner keeps the invariant.
LEMMA NextInv == Inv /\ [Next]_vars => Inv'
<1> SUFFICES ASSUME Inv, [Next]_vars PROVE Inv'
  OBVIOUS
<1>1. ASSUME NEW sn \in Snaps, Client(sn) PROVE Inv'
  BY <1>1, ClientKeeps
<1>2. ASSUME NEW sn \in Snaps, Poll(sn) \/ PlanEvent(sn) PROVE Inv'
  BY <1>2, PollAndEventKeep
<1>3. CASE HoldExpires
  BY <1>3, HoldExpiresKeeps
<1>4. CASE Planner
  BY <1>4, PlannerKeeps
<1>5. CASE UNCHANGED vars
  BY <1>5 DEF vars, Inv, TypeOK, EstopSilencesQueue
<1>6. QED
  BY <1>1, <1>2, <1>3, <1>4, <1>5 DEF Next

\* The command plane keeps its shape: the marker of the head being planned
\* never outlives it, the queue never exceeds its capacity, and the planner is
\* never sent an empty batch.
THEOREM CommandPlaneTypes == Spec => []TypeOK
<1>1. Inv => TypeOK
  BY DEF Inv
<1>2. QED
  BY <1>1, InitInv, NextInv, PTL DEF Spec

\* While the software e-stop is latched, no command that moves is queued,
\* executing, settling or streaming, whatever the planner answers late and
\* whatever clients send.
THEOREM EstopIsSilent == Spec => []EstopSilencesQueue
<1>1. Inv => EstopSilencesQueue
  BY DEF Inv
<1>2. QED
  BY <1>1, InitInv, NextInv, PTL DEF Spec

-----------------------------------------------------------------------------
(* Stale geometry.  The gate refuses arm motion while held geometry is stale   *)
(* or declared and not applied yet, so the invariant is about both.            *)

AtRisk(s) == s.shapes = "stale" \/ \E p \in s.pending_shapes : p.set # "plain"

NoArmMotion(s) ==
  /\ \A c \in Elems(s.pending) : ~IsArmMotion(c.kind)
  /\ ~IsArmMotion(s.executing.kind)
  /\ s.active_stream = "none"

\* While geometry is at risk and its stop has run, no arm motion is in the engine.
Safe(s) == AtRisk(s) /\ ~s.attachment_stop_pending => NoArmMotion(s)

SameShapes(s, t) ==
  /\ DOMAIN t = Fields
  /\ t.shapes = s.shapes /\ t.pending_shapes = s.pending_shapes
  /\ t.attachment_stop_pending = s.attachment_stop_pending

\* A calming method brings no arm motion in.
LEMMA CalmsNoArm ==
  ASSUME NEW s, NEW t, Calms(s, t), NoArmMotion(s)
  PROVE  NoArmMotion(t)
  BY DEF Calms, Quieter, NoArmMotion, NoCmd, IsArmMotion

\* A quiet engine has no arm motion.
LEMMA QuietNoArm ==
  ASSUME NEW s, Quiet(s)
  PROVE  NoArmMotion(s)
  BY DEF Quiet, NoArmMotion, IsArmMotion

\* SameShapes composes.
LEMMA SameShapesTrans ==
  ASSUME NEW s, NEW t, NEW u, SameShapes(s, t), SameShapes(t, u)
  PROVE  SameShapes(s, u)
  BY DEF SameShapes

\* The engine's own methods leave the geometry alone.
LEMMA EngineShapes ==
  ASSUME NEW s, DOMAIN s = Fields
  PROVE  /\ SameShapes(s, s)
         /\ \A req : SameShapes(s, Send(s, req))
         /\ SameShapes(s, DropActive(s))
         /\ SameShapes(s, DropPending(s))
         /\ SameShapes(s, DropToolStops(s))
         /\ SameShapes(s, DropActiveToolAction(s))
         /\ \A x : SameShapes(s, [s EXCEPT !.active_stream = x])
         /\ \A x : SameShapes(s, [s EXCEPT !.standing_error = x])
         /\ \A done : SameShapes(s, AdvanceCompleted(s, done))
         /\ \A l, r : SameShapes(s, PushComplete(s, l, r))
<1>1. SameShapes(s, s)
  BY DEF SameShapes
<1>2. ASSUME NEW req PROVE SameShapes(s, Send(s, req))
  BY DEF SameShapes, Send, Fields
<1>3. SameShapes(s, DropActive(s)) /\ SameShapes(s, DropPending(s))
  BY DEF SameShapes, DropActive, DropPending, Fields
<1>4. SameShapes(s, DropToolStops(s))
  BY <1>1 DEF SameShapes, DropToolStops, Send, Fields
<1>5. SameShapes(s, DropActiveToolAction(s))
  <2>1. CASE RunsTool(s)
    BY <2>1 DEF SameShapes, DropActiveToolAction, Send, Fields
  <2>2. CASE ~RunsTool(s) /\ StartsTool(s)
    BY <2>2 DEF SameShapes, DropActiveToolAction, Send, Fields
  <2>3. CASE ~RunsTool(s) /\ ~StartsTool(s)
    BY <1>1, <2>3 DEF DropActiveToolAction
  <2>4. QED
    BY <2>1, <2>2, <2>3
<1>6. ASSUME NEW x
      PROVE  /\ SameShapes(s, [s EXCEPT !.active_stream = x])
             /\ SameShapes(s, [s EXCEPT !.standing_error = x])
  BY DEF SameShapes, Fields
<1>7. ASSUME NEW done PROVE SameShapes(s, AdvanceCompleted(s, done))
  BY DEF SameShapes, AdvanceCompleted, Fields
<1>8. ASSUME NEW l, NEW r PROVE SameShapes(s, PushComplete(s, l, r))
  BY DEF SameShapes, PushComplete, Fields
<1>9. QED
  BY <1>1, <1>2, <1>3, <1>4, <1>5, <1>6, <1>7, <1>8

\* Cancelling leaves the geometry alone.
LEMMA CancelShapes ==
  ASSUME NEW s, DOMAIN s = Fields
  PROVE  /\ \A l : SameShapes(s, CompleteCancelled(s, l))
         /\ SameShapes(s, DropPlanned(s))
         /\ SameShapes(s, CancelActiveMotion(s))
         /\ SameShapes(s, CancelAllMotion(s))
         /\ SameShapes(s, CancelPlanned(s))
<1>1. ASSUME NEW a, NEW l, SameShapes(s, a) PROVE SameShapes(s, CompleteCancelled(a, l))
  <2>1. SameShapes(a, AdvanceCompleted(a, Elems(l)))
    BY <1>1, EngineShapes DEF SameShapes
  <2>2. SameShapes(AdvanceCompleted(a, Elems(l)), CompleteCancelled(a, l))
    BY <2>1, EngineShapes DEF SameShapes, CompleteCancelled
  <2>3. QED
    BY <1>1, <2>1, <2>2, SameShapesTrans
<1>2. SameShapes(s, s)
  BY EngineShapes
<1> DEFINE a == Send(s, [op |-> "Cancel"])
           b == DropActive(a)
           c == DropToolStops(b)
           d == [c EXCEPT !.active_stream = "none"]
<1>3. SameShapes(s, a)
  BY EngineShapes
<1> HIDE DEF a
<1>4. SameShapes(s, b)
  BY <1>3, EngineShapes, SameShapesTrans DEF SameShapes
<1>5. SameShapes(s, DropPending(b))
  <2> HIDE DEF b
  <2>1. SameShapes(b, DropPending(b))
    BY <1>4, EngineShapes DEF SameShapes
  <2>2. QED
    BY <1>4, <2>1, SameShapesTrans
<1>6. SameShapes(s, d)
  <2> HIDE DEF b
  <2>1. SameShapes(b, c)
    BY <1>4, EngineShapes DEF SameShapes
  <2> HIDE DEF c
  <2>2. SameShapes(c, d)
    BY <2>1, EngineShapes DEF SameShapes
  <2>3. QED
    BY <1>4, <2>1, <2>2, SameShapesTrans
<1>7. DropPlanned(s) = DropPending(b) /\ DropActiveMotion(s) = d
  BY DEF DropPlanned, DropActiveMotion, a
<1> HIDE DEF b, d
<1>8. SameShapes(d, DropPending(d))
  BY <1>6, EngineShapes DEF SameShapes
<1>9. SameShapes(s, DropPending(d))
  BY <1>6, <1>8, SameShapesTrans
<1>10. QED
  BY <1>1, <1>2, <1>5, <1>6, <1>7, <1>9 DEF CancelActiveMotion, CancelAllMotion, CancelPlanned

\* Latches and pauses leave the geometry alone.
LEMMA LatchShapes ==
  ASSUME NEW s, DOMAIN s = Fields
  PROVE  /\ SameShapes(s, ClearPause(s))
         /\ SameShapes(s, OnMotionAccepted(s))
         /\ \A busy : SameShapes(s, LatchRefusal(s, busy))
         /\ \A sn : SameShapes(s, RefreshSnapshot(s, sn))
         /\ \A on : SameShapes(s, OnPause(s, on))
<1>1. SameShapes(s, ClearPause(s)) /\ SameShapes(s, OnMotionAccepted(s))
  BY DEF SameShapes, ClearPause, OnMotionAccepted, Fields
<1>2. ASSUME NEW busy PROVE SameShapes(s, LatchRefusal(s, busy))
  BY EngineShapes DEF LatchRefusal
<1>3. ASSUME NEW sn PROVE SameShapes(s, RefreshSnapshot(s, sn))
  BY DEF SameShapes, RefreshSnapshot, Fields
<1>4. ASSUME NEW on PROVE SameShapes(s, OnPause(s, on))
  BY DEF SameShapes, OnPause, Fields
<1>5. QED
  BY <1>1, <1>2, <1>3, <1>4

\* `t` is at risk and past its stop only if `s` was.
Mild(s, t) ==
  AtRisk(t) /\ ~t.attachment_stop_pending => AtRisk(s) /\ ~s.attachment_stop_pending

\* A method under which safe geometry stays safe.
Guards(s, t) == Safe(s) => Safe(t)

\* A calming method that puts nothing more at risk guards.
LEMMA CalmsGuards ==
  ASSUME NEW s, NEW t, Calms(s, t), Mild(s, t)
  PROVE  Guards(s, t)
  BY CalmsNoArm DEF Guards, Mild, Safe

\* A method that leaves the geometry alone puts nothing more at risk.
LEMMA SameShapesMild ==
  ASSUME NEW s, NEW t, SameShapes(s, t)
  PROVE  Mild(s, t)
  BY DEF SameShapes, Mild, AtRisk

\* Guards composes, and an engine without arm motion is safe.
LEMMA GuardsTrans ==
  ASSUME NEW s, NEW t, NEW u
  PROVE  /\ Guards(s, t) /\ Guards(t, u) => Guards(s, u)
         /\ NoArmMotion(u) => Guards(s, u)
         /\ Guards(s, s)
  BY DEF Guards, Safe

\* A new attachment epoch makes stale what was attached, and orders the stop
\* with it.
LEMMA InvalidateMild ==
  ASSUME NEW s, CoreOK(s)
  PROVE  Mild(s, InvalidateAttachments(s))
<1> DEFINE t == InvalidateAttachments(s)
           stale(p) == [p EXCEPT !.set = IF @ = "attached" THEN "stale" ELSE @]
<1>1. /\ t.shapes = IF s.shapes = "attached" THEN "stale" ELSE s.shapes
      /\ t.pending_shapes = {stale(p) : p \in s.pending_shapes}
  BY DEF InvalidateAttachments, CoreOK, Fields
<1>2. "attachment_stop_pending" \in DOMAIN s
  BY DEF CoreOK, Fields
<1>3. t.attachment_stop_pending <=> (s.attachment_stop_pending \/ s.shapes # "plain")
  BY <1>2 DEF InvalidateAttachments
<1> SUFFICES Mild(s, t)
  OBVIOUS
<1> HIDE DEF t
<1>4. CASE s.shapes # "plain"
  BY <1>3, <1>4 DEF Mild
<1>5. CASE s.shapes = "plain"
  <2>1. ASSUME NEW p \in s.pending_shapes, stale(p).set # "plain" PROVE p.set # "plain"
    <3>1. p \in [tag : Nat, set : ShapeStates]
      BY DEF CoreOK
    <3>2. QED
      BY <2>1, <3>1
  <2> HIDE DEF stale
  <2>2. AtRisk(t) => AtRisk(s)
    BY <1>1, <1>5, <2>1 DEF AtRisk
  <2>3. ~t.attachment_stop_pending => ~s.attachment_stop_pending
    BY <1>3
  <2>4. QED
    BY <2>2, <2>3 DEF Mild
<1>6. QED
  BY <1>4, <1>5

\* stop_invalid_attachments runs the stop a new epoch ordered.
LEMMA StopInvalidGuards ==
  ASSUME NEW s, CoreOK(s)
  PROVE  Guards(s, StopInvalidAttachments(s))
<1> DEFINE t == IF s.shapes = "attached" /\ ~ReferencedAndLive(s.snap)
                THEN InvalidateAttachments(s) ELSE s
           u == [t EXCEPT !.attachment_stop_pending = FALSE]
           c == CancelAllMotion(u)
           v == [c EXCEPT !.standing_error = Unattributed("attachment")]
<1>1. CoreOK(t) /\ Guards(s, t)
  BY InvalidateCalms, InvalidateMild, CalmsGuards, GuardsTrans DEF Calms
<1>2. StopInvalidAttachments(s) = IF t.attachment_stop_pending THEN v ELSE t
  BY DEF StopInvalidAttachments
<1> HIDE DEF t
<1>3. Keeps(t, u, Bookkeeping)
  BY <1>1 DEF Keeps, Fields, Bookkeeping, CoreOK
<1> HIDE DEF u
<1>4. CoreOK(u)
  BY <1>1, <1>3, BookkeepingCalms DEF Calms
<1>5. CoreOK(c) /\ Quiet(c)
  BY <1>4, CancelAllMotionQuiets DEF Calms
<1> HIDE DEF c
<1>6. v.pending = c.pending /\ v.executing = c.executing /\ v.active_stream = c.active_stream
  BY <1>5 DEF CoreOK, Fields
<1>7. NoArmMotion(v)
  BY <1>5, <1>6, QuietNoArm DEF NoArmMotion
<1> HIDE DEF v
<1>8. QED
  BY <1>1, <1>2, <1>7, GuardsTrans

\* What every handler does first guards.
LEMMA ArriveGuards ==
  ASSUME NEW s, NEW sn, CoreOK(s)
  PROVE  Guards(s, Arrive(s, sn))
<1> DEFINE r == RefreshSnapshot(s, sn)
<1>1. DOMAIN s = Fields
  BY DEF CoreOK
<1>2. Calms(s, r)
  <2>1. Keeps(s, r, Bookkeeping)
    BY <1>1 DEF RefreshSnapshot, Keeps, Fields, Bookkeeping
  <2>2. QED
    BY <2>1, BookkeepingCalms
<1>3. SameShapes(s, r)
  BY <1>1, LatchShapes
<1> HIDE DEF r
<1>4. Guards(s, r)
  BY <1>2, <1>3, SameShapesMild, CalmsGuards
<1>5. Guards(r, StopInvalidAttachments(r))
  BY <1>2, StopInvalidGuards DEF Calms
<1>6. QED
  BY <1>4, <1>5, GuardsTrans DEF Arrive, r

\* pump stops what is invalid, then offers the head: the geometry stays.
LEMMA PumpGuards ==
  ASSUME NEW s0, CoreOK(s0)
  PROVE  Guards(s0, Pump(s0))
<1> DEFINE s == StopInvalidAttachments(s0)
           t == Pump(s0)
<1>1. CoreOK(s) /\ Guards(s0, s)
  BY StopInvalidCalms, StopInvalidGuards DEF Calms
<1>2. t \in {s, [s EXCEPT !.blend_hold = "none"], [s EXCEPT !.blend_hold = "armed"], OfferHead(s)}
  BY DEF Pump
<1> HIDE DEF t
<1> HIDE DEF s
<1>3. ASSUME NEW u, Keeps(s, u, {"blend_hold", "planning", "sent"}) PROVE Guards(s, u)
  BY <1>3 DEF Keeps, Fields, Guards, Safe, AtRisk, NoArmMotion
<1>4. ASSUME NEW x
      PROVE  Guards(s, [s EXCEPT !.blend_hold = x])
  <2>1. Keeps(s, [s EXCEPT !.blend_hold = x], {"blend_hold", "planning", "sent"})
    BY <1>1 DEF Keeps, Fields, CoreOK
  <2>2. QED
    BY <1>3, <2>1
<1>5. Guards(s, OfferHead(s))
  <2>1. Keeps(s, OfferHead(s), {"blend_hold", "planning", "sent"})
    BY <1>1 DEF OfferHead, Send, Keeps, Fields, CoreOK
  <2>2. QED
    BY <1>3, <2>1
<1>6. QED
  BY <1>1, <1>2, <1>4, <1>5, GuardsTrans DEF t

\* fail_command leaves the geometry alone.
LEMMA FailShapes ==
  ASSUME NEW s, NEW index, NEW blended, DOMAIN s = Fields
  PROVE  SameShapes(s, FailCommand(s, index, blended))
<1> DEFINE a == AdvanceCompleted(s, {index})
           b == [a EXCEPT !.standing_error = [code |-> "failed", index |-> index],
                          !.action_state = "error"]
           c == DropPending(b)
           d == PushComplete(c, <<index>>, "failed")
<1>1. SameShapes(s, a)
  BY EngineShapes
<1> HIDE DEF a
<1>2. SameShapes(a, b)
  BY <1>1 DEF SameShapes, Fields
<1> HIDE DEF b
<1>3. SameShapes(b, c)
  BY <1>2, EngineShapes DEF SameShapes
<1> HIDE DEF c
<1>4. SameShapes(c, d)
  BY <1>3, EngineShapes DEF SameShapes
<1> HIDE DEF d
<1>5. SameShapes(d, CompleteCancelled(d, blended \o Indices(s.pending)))
  BY <1>4, CancelShapes DEF SameShapes
<1>6. QED
  BY <1>1, <1>2, <1>3, <1>4, <1>5, SameShapesTrans DEF FailCommand, a, b, c, d

\* A refused plan fails its command: the geometry stays.
LEMMA PlanRejectedGuards ==
  ASSUME NEW s, NEW index, CoreOK(s)
  PROVE  Guards(s, OnPlanRejected(s, index))
<1> DEFINE u == [s EXCEPT !.planning = 0, !.pending = Tail(@)]
           v == [s EXCEPT !.planning = 0]
           f == FailCommand(u, s.pending[1].index, <<>>)
<1>1. DOMAIN s = Fields
  BY DEF CoreOK
<1>2. SameShapes(s, s) /\ SameShapes(s, u) /\ SameShapes(s, v)
  BY <1>1 DEF SameShapes, Fields
<1> HIDE DEF u
<1>3. SameShapes(u, f)
  BY <1>2, FailShapes DEF SameShapes
<1>4. SameShapes(s, f)
  BY <1>2, <1>3, SameShapesTrans
<1>5. OnPlanRejected(s, index) \in {s, v, f}
  BY DEF OnPlanRejected, u
<1> HIDE DEF v, f
<1>6. Calms(s, OnPlanRejected(s, index)) /\ SameShapes(s, OnPlanRejected(s, index))
  BY <1>2, <1>4, <1>5, PlanRejectedCalms
<1>7. QED
  BY <1>6, SameShapesMild, CalmsGuards

\* An outcome changes the geometry only by the tool it reports.
LEMMA OutcomeGuards ==
  ASSUME NEW s, NEW index, NEW ok \in BOOLEAN, NEW changed \in BOOLEAN, CoreOK(s)
  PROVE  Guards(s, OnOutcome(s, index, ok, changed))
<1> DEFINE ex == s.executing
           t == [s EXCEPT !.executing = NoCmd]
           a == AdvanceCompleted(t, {ex.index} \cup Elems(ex.blended))
           b == [a EXCEPT !.action_state = "idle"]
           swap == ex.kind = "select" /\ changed
           u == AdoptToolSelection(b, swap)
           p == PushComplete(u, <<ex.index>> \o ex.blended, "ok")
           f == FailCommand(t, ex.index, ex.blended)
<1>1. SameShapes(s, t)
  BY DEF SameShapes, CoreOK, Fields
<1>2. CoreOK(t)
  <2>1. /\ Keeps(s, t, {"planning", "pending", "executing"})
        /\ t.planning = s.planning /\ t.pending = s.pending /\ t.executing = NoCmd
    BY DEF Keeps, Fields, CoreOK
  <2>2. /\ DOMAIN t = Fields
        /\ t.next_index = s.next_index /\ t.next_tag = s.next_tag
        /\ t.blend_hold = s.blend_hold
        /\ t.shapes = s.shapes /\ t.pending_shapes = s.pending_shapes
        /\ t.sent = s.sent
    BY <2>1 DEF Keeps, Fields
  <2> HIDE DEF t
  <2>3. QED
    BY <2>1, <2>2 DEF CoreOK, MarkerOK, PlanningHead, NoCmd
<1> HIDE DEF t
<1>3. SameShapes(t, f)
  BY <1>1, FailShapes DEF SameShapes
<1>4. SameShapes(s, f)
  BY <1>1, <1>3, SameShapesTrans, SMTT(40)
<1>5. SameShapes(t, a) /\ Keeps(t, a, Bookkeeping)
  BY <1>2, EngineShapes, ZenonT(60) DEF CoreOK, AdvanceCompleted, Keeps, Fields, Bookkeeping
<1> HIDE DEF a
<1>6. CoreOK(a)
  BY <1>2, <1>5, BookkeepingCalms DEF Calms
<1>7. SameShapes(a, b) /\ Keeps(a, b, Bookkeeping)
  BY <1>6 DEF SameShapes, CoreOK, Keeps, Fields, Bookkeeping
<1> HIDE DEF b
<1>8. CoreOK(b)
  BY <1>6, <1>7, BookkeepingCalms DEF Calms
<1>9. Mild(b, u) /\ DOMAIN u = Fields
  <2>1. SameShapes(b, b)
    BY <1>7 DEF SameShapes
  <2>2. u \in {b, InvalidateAttachments(b)}
    BY DEF AdoptToolSelection
  <2>3. QED
    BY <1>8, <2>1, <2>2, InvalidateMild, InvalidateCalms, SameShapesMild DEF Calms, CoreOK
<1> HIDE DEF u
<1>10. SameShapes(u, p)
  BY <1>9, EngineShapes
<1> HIDE DEF p
<1>11. Mild(s, p)
  <2>1. Mild(s, b)
    BY <1>1, <1>5, <1>7, SameShapesTrans, SameShapesMild
  <2>2. Mild(u, p)
    BY <1>10, SameShapesMild
  <2>3. QED
    BY <1>9, <2>1, <2>2 DEF Mild
<1>12. Mild(s, s) /\ Mild(s, f)
  BY <1>4, SameShapesMild DEF Mild
<1>13. OnOutcome(s, index, ok, changed) \in {s, p, f}
  BY DEF OnOutcome, t, a, b, u, p
<1> HIDE DEF f
<1>14. QED
  BY <1>11, <1>12, <1>13, OutcomeCalms, CalmsGuards

\* A tool stop that ends, whatever its verdict, leaves the geometry alone up to
\* the pump that follows.
LEMMA ToolStopEndGuards ==
  ASSUME NEW s, NEW rest, NEW stops, NEW ok \in BOOLEAN, CoreOK(s), s.tool_stops # <<>>
  PROVE  Guards(s, Pump(FinishToolStops([s EXCEPT !.tool_stops = rest], stops, ok)))
<1> DEFINE u == [s EXCEPT !.tool_stops = rest]
           a == AdvanceCompleted(u, Elems(Indices(stops)))
           p == PushComplete(a, Indices(stops), IF ok THEN "ok" ELSE "failed")
           f == FinishToolStops(u, stops, ok)
<1>1. Keeps(s, u, {"tool_stops"}) /\ SameShapes(s, u)
  BY DEF Keeps, SameShapes, Fields, CoreOK
<1> HIDE DEF u
<1>2. Calms(s, u)
  BY <1>1, ToolStopsCalm
<1>3. Calms(u, f)
  BY <1>2, FinishToolStopsCalms DEF Calms
<1>4. SameShapes(u, a)
  BY <1>1, EngineShapes DEF SameShapes
<1> HIDE DEF a
<1>5. SameShapes(a, p)
  BY <1>4, EngineShapes DEF SameShapes
<1>6. f = IF ok THEN p
          ELSE [p EXCEPT !.standing_error =
                            [code |-> "failed", index |-> stops[Len(stops)].index],
                         !.action_state = "error"]
  BY DEF FinishToolStops, a
<1> HIDE DEF p, f
<1>7. SameShapes(p, f)
  BY <1>5, <1>6 DEF SameShapes, Fields
<1>8. Guards(s, f) /\ CoreOK(f)
  BY <1>1, <1>2, <1>3, <1>4, <1>5, <1>7, SameShapesTrans, SameShapesMild, CalmsTrans, CalmsGuards
     DEF Calms
<1>9. QED
  BY <1>8, PumpGuards, GuardsTrans DEF f, u

\* The planner's answers about tool stops guard.
LEMMA ToolEventGuards ==
  ASSUME NEW s, NEW x, NEW ok \in BOOLEAN, CoreOK(s)
  PROVE  Guards(s, OnToolStarted(s, x, ok)) /\ Guards(s, OnToolOutcome(s, x, ok))
<1>1. Guards(s, OnToolStarted(s, x, ok))
  <2> DEFINE at == {k \in 1..Len(s.tool_stops) : s.tool_stops[k].tag = x}
             k == CHOOSE k \in at : \A j \in at : k <= j
             m == [s EXCEPT !.tool_stops[k].tag = 0]
             rest == SubSeq(s.tool_stops, 1, k - 1) \o SubSeq(s.tool_stops, k + 1, Len(s.tool_stops))
             e == Pump(FinishToolStops([s EXCEPT !.tool_stops = rest],
                                       <<s.tool_stops[k]>>, FALSE))
  <2>1. CASE at = {}
    BY <2>1, GuardsTrans DEF OnToolStarted
  <2>2. CASE at # {} /\ ok
    <3>1. OnToolStarted(s, x, ok) = m
      BY <2>2 DEF OnToolStarted
    <3> HIDE DEF at, k
    <3>2. SameShapes(s, m)
      BY DEF SameShapes, Fields, CoreOK
    <3> HIDE DEF m
    <3>3. QED
      BY <3>1, <3>2, ToolStartedCalms, SameShapesMild, CalmsGuards
  <2>3. CASE at # {} /\ ~ok
    <3>1. s.tool_stops # <<>>
      BY <2>3
    <3>2. OnToolStarted(s, x, ok) = e
      BY <2>3 DEF OnToolStarted
    <3> HIDE DEF at, k, rest
    <3>3. Guards(s, e)
      BY <3>1, ToolStopEndGuards
    <3>4. QED
      BY <3>2, <3>3
  <2>4. QED
    BY <2>1, <2>2, <2>3
<1>2. Guards(s, OnToolOutcome(s, x, ok))
  <2> DEFINE at == {k \in 1..Len(s.tool_stops) :
                      s.tool_stops[k].index = x /\ s.tool_stops[k].tag = 0}
             k == CHOOSE k \in at : \A j \in at : k <= j
             rest == SubSeq(s.tool_stops, k + 1, Len(s.tool_stops))
             stops == SubSeq(s.tool_stops, 1, k)
             e == Pump(FinishToolStops([s EXCEPT !.tool_stops = rest], stops, ok))
  <2>1. CASE at = {}
    BY <2>1, GuardsTrans DEF OnToolOutcome
  <2>2. CASE at # {}
    <3>1. s.tool_stops # <<>>
      BY <2>2
    <3>2. OnToolOutcome(s, x, ok) = e
      BY <2>2 DEF OnToolOutcome
    <3> HIDE DEF at, k, rest, stops
    <3>3. Guards(s, e)
      BY <3>1, ToolStopEndGuards
    <3>4. QED
      BY <3>2, <3>3
  <2>3. QED
    BY <2>1, <2>2
<1>3. QED
  BY <1>1, <1>2

\* Geometry the planner applied was at risk while it was pending.
LEMMA ShapesAppliedGuards ==
  ASSUME NEW s, NEW tag, NEW ok \in BOOLEAN, CoreOK(s)
  PROVE  Guards(s, OnShapesApplied(s, tag, ok))
<1> DEFINE p == {q \in s.pending_shapes : q.tag = tag}
           q0 == CHOOSE q \in p : TRUE
           t == [s EXCEPT !.pending_shapes = @ \ p,
                          !.shapes = IF ok THEN q0.set ELSE @]
<1>1. CASE p = {}
  BY <1>1, GuardsTrans DEF OnShapesApplied
<1>2. CASE p # {}
  <2>1. q0 \in s.pending_shapes
    BY <1>2
  <2>2. OnShapesApplied(s, tag, ok) = t
    BY <1>2 DEF OnShapesApplied
  <2> HIDE DEF q0
  <2>3. /\ t.pending_shapes = s.pending_shapes \ p
        /\ t.shapes = IF ok THEN q0.set ELSE s.shapes
        /\ t.attachment_stop_pending = s.attachment_stop_pending
    BY DEF Fields, CoreOK
  <2> HIDE DEF t
  <2>4. AtRisk(t) => AtRisk(s)
    BY <2>1, <2>3 DEF AtRisk
  <2>5. Mild(s, t)
    BY <2>3, <2>4 DEF Mild
  <2>6. QED
    BY <2>2, <2>5, ShapesAppliedCalms, CalmsGuards
<1>3. QED
  BY <1>1, <1>2

\* A started plan executes a command that was queued: no arm motion enters.
LEMMA PlanStartedGuards ==
  ASSUME NEW s, NEW index, NEW taken \in Nat, CoreOK(s)
  PROVE  Guards(s, OnPlanStarted(s, index, taken))
<1> DEFINE n == Lesser(Greater(taken, 1), Len(s.pending))
           u == [s EXCEPT !.planning = 0]
           ex == [index |-> s.pending[1].index, kind |-> s.pending[1].kind,
                  blended |-> Indices(SubSeq(s.pending, 2, n))]
           t == [s EXCEPT !.planning = 0,
                          !.pending = SubSeq(@, n + 1, Len(@)),
                          !.action_state = "executing",
                          !.executing = ex]
<1>1. CASE s.planning # index
  BY <1>1, GuardsTrans DEF OnPlanStarted
<1>2. CASE s.planning = index /\ s.pending = <<>>
  <2>1. Keeps(s, u, {"planning"})
    BY DEF Keeps, Fields, CoreOK
  <2> HIDE DEF u
  <2>2. Guards(s, u)
    BY <2>1 DEF Keeps, Fields, Guards, Safe, AtRisk, NoArmMotion
  <2>3. QED
    BY <1>2, <2>2 DEF OnPlanStarted, u
<1>3. CASE s.planning = index /\ s.pending # <<>>
  <2>1. s.pending \in Seq(Entry)
    BY DEF CoreOK
  <2>2. n \in 1..Len(s.pending)
    <3>1. Len(s.pending) \in Nat \ {0}
      BY <1>3, <2>1, EmptySeq
    <3>2. QED
      BY <3>1 DEF Lesser, Greater
  <2>3. OnPlanStarted(s, index, taken) = t
    BY <1>3 DEF OnPlanStarted
  <2>4. s.pending[1] \in Elems(s.pending)
    BY <2>1, <2>2 DEF Elems
  <2>5. ex.kind = s.pending[1].kind
    OBVIOUS
  <2> HIDE DEF n, ex
  <2>6. /\ t.pending = SubSeq(s.pending, n + 1, Len(s.pending))
        /\ t.executing = ex /\ t.active_stream = s.active_stream /\ SameShapes(s, t)
    BY DEF SameShapes, Fields, CoreOK
  <2> HIDE DEF t
  <2>7. Elems(t.pending) \subseteq Elems(s.pending)
    BY <2>1, <2>2, <2>6 DEF Elems
  <2>8. NoArmMotion(s) => NoArmMotion(t)
    BY <2>4, <2>5, <2>6, <2>7 DEF NoArmMotion
  <2>9. QED
    BY <2>3, <2>6, <2>8, SameShapesMild DEF Guards, Mild, Safe
<1>4. QED
  BY <1>1, <1>2, <1>3

\* on_queued: no arm motion passes the gate while geometry is at risk, and a
\* tool stop is none.
LEMMA QueuedGuards ==
  ASSUME NEW s, NEW key, NEW kind \in QueuedKinds \cup {"stop"}, CoreOK(s)
  PROVE  Guards(s, OnQueued(s, key, kind))
<1> DEFINE a == Accept(s, key)
           e == [index |-> s.next_index, kind |-> kind]
           b == [a EXCEPT !.active_stream = "none", !.pending = Append(@, e)]
<1>1. Calms(s, a) /\ a.pending = s.pending
  BY AcceptCalms
<1>2. SameShapes(s, a)
  <2> DEFINE u == [s EXCEPT !.next_index = @ + 1,
                            !.dedup = DedupInsert(@, key, s.next_index)]
  <2>1. SameShapes(s, u)
    BY DEF SameShapes, Fields, CoreOK
  <2> HIDE DEF u
  <2>2. SameShapes(u, OnMotionAccepted(u))
    BY <2>1, LatchShapes DEF SameShapes
  <2>3. QED
    BY <2>1, <2>2, SameShapesTrans DEF Accept, u
<1> HIDE DEF a
<1>3. CASE DedupHas(s, key) \/ GateRefuses(s, kind)
  BY <1>3, GuardsTrans DEF OnQueued
<1>4. CASE ~(DedupHas(s, key) \/ GateRefuses(s, kind)) /\ kind = "stop"
  <2> DEFINE d == DropActiveToolAction(a)
             t == CompleteCancelled(d, DroppedActiveToolAction(a))
             tag == t.next_tag + 1
             u == [t EXCEPT !.next_tag = tag,
                            !.tool_stops = Append(@, [index |-> s.next_index, tag |-> tag])]
             v == Send(u, [op |-> "StartTool", tag |-> tag, index |-> s.next_index])
  <2>1. Calms(a, d) /\ SameShapes(a, d)
    BY <1>1, <1>2, DropToolActionCalms, EngineShapes DEF Calms, SameShapes
  <2> HIDE DEF d
  <2>2. Calms(d, t) /\ SameShapes(d, t)
    BY <2>1, CompleteCancelledCalms, CancelShapes DEF Calms, SameShapes
  <2>3. OnQueued(s, key, kind) = v
    BY <1>4 DEF OnQueued, StartToolStop, a, d
  <2> HIDE DEF t
  <2>4. Keeps(t, u, {"next_tag", "tool_stops", "sent"})
    BY <2>2 DEF Calms, CoreOK, Keeps, Fields
  <2> HIDE DEF u
  <2>5. Keeps(t, v, {"next_tag", "tool_stops", "sent"})
    BY <2>4 DEF Send, Keeps, Fields
  <2> HIDE DEF v
  <2>6. Guards(t, v)
    BY <2>5 DEF Keeps, Fields, Guards, Safe, AtRisk, NoArmMotion
  <2>7. Guards(s, t)
    BY <1>1, <1>2, <2>1, <2>2, SameShapesTrans, SameShapesMild, CalmsTrans, CalmsGuards
  <2>8. QED
    BY <2>3, <2>6, <2>7, GuardsTrans
<1>5. CASE /\ ~(DedupHas(s, key) \/ GateRefuses(s, kind)) /\ kind # "stop"
           /\ Len(s.pending) >= QueueCapacity
  BY <1>5, GuardsTrans DEF OnQueued
<1>6. CASE /\ ~(DedupHas(s, key) \/ GateRefuses(s, kind)) /\ kind # "stop"
           /\ ~(Len(s.pending) >= QueueCapacity)
  <2>1. e \in Entry /\ e.kind = kind
    BY <1>6 DEF Entry, CoreOK
  <2>2. AtRisk(s) => ~IsArmMotion(kind)
    BY <1>6 DEF GateRefuses, AtRisk
  <2>3. OnQueued(s, key, kind) = Pump(b)
    BY <1>6 DEF OnQueued, a, b
  <2> HIDE DEF e
  <2>4. /\ Keeps(a, b, {"active_stream", "pending"})
        /\ b.active_stream = "none" /\ b.pending = Append(s.pending, e)
    BY <1>1 DEF Keeps, Fields, Calms, CoreOK
  <2> HIDE DEF b
  <2>5. SameShapes(a, b) /\ b.executing = a.executing
    BY <2>4 DEF Keeps, SameShapes, Fields
  <2>6. CoreOK(b)
    <3>1. /\ b.pending \in Seq(Entry) /\ Len(b.pending) = Len(s.pending) + 1
          /\ s.pending # <<>> => b.pending[1] = s.pending[1]
          /\ b.pending # <<>>
      <4>1. s.pending \in Seq(Entry)
        BY DEF CoreOK
      <4>2. QED
        BY <2>1, <2>4, <4>1, AppendProperties
    <3>2. Len(b.pending) <= QueueCapacity
      <4>1. Len(s.pending) \in Nat
        BY DEF CoreOK
      <4>2. QED
        BY <1>6, <3>1, <4>1, CapacityAssumption
    <3>3. /\ DOMAIN b = Fields
          /\ b.next_index = a.next_index /\ b.next_tag = a.next_tag
          /\ b.executing = a.executing /\ b.planning = a.planning
          /\ b.blend_hold = a.blend_hold
          /\ b.shapes = a.shapes /\ b.pending_shapes = a.pending_shapes
          /\ b.sent = a.sent
      BY <2>4 DEF Keeps, Fields
    <3>4. MarkerOK(b)
      <4>1. MarkerOK(a)
        BY <1>1 DEF Calms, CoreOK
      <4>2. QED
        BY <1>1, <3>1, <3>3, <4>1 DEF MarkerOK, PlanningHead
    <3>5. QED
      BY <1>1, <3>1, <3>2, <3>3, <3>4 DEF Calms, CoreOK
  <2>7. NoArmMotion(s) /\ ~IsArmMotion(kind) => NoArmMotion(b)
    <3>1. \A c \in Elems(b.pending) : c \in Elems(s.pending) \/ c = e
      <4>1. s.pending \in Seq(Entry)
        BY DEF CoreOK
      <4>2. QED
        BY <2>1, <2>4, <4>1, AppendProperties DEF Elems
    <3>2. b.executing \in {s.executing, NoCmd}
      BY <1>1, <2>5 DEF Calms, Quieter
    <3>3. ~IsArmMotion(NoCmd.kind)
      BY DEF NoCmd, IsArmMotion
    <3>4. QED
      BY <2>1, <2>4, <3>1, <3>2, <3>3 DEF NoArmMotion
  <2>8. Guards(s, b)
    BY <1>2, <2>2, <2>5, <2>7, SameShapesTrans, SameShapesMild DEF Guards, Mild, Safe
  <2>9. QED
    BY <2>3, <2>6, <2>8, PumpGuards, GuardsTrans
<1>7. QED
  BY <1>3, <1>4, <1>5, <1>6

\* on_faf: no stream passes the gate while geometry is at risk.
LEMMA FafGuards ==
  ASSUME NEW s, NEW stream \in {"jogj", "jogl", "servo"}, NEW ok \in BOOLEAN,
         NEW standoff \in BOOLEAN, CoreOK(s)
  PROVE  Guards(s, OnFaf(s, stream, ok, standoff))
<1>1. DOMAIN s = Fields
  BY DEF CoreOK
<1>2. CASE GateRefuses(s, stream)
  <2>1. MotionInFlight(s) \in BOOLEAN
    BY DEF MotionInFlight
  <2>2. Calms(s, LatchRefusal(s, MotionInFlight(s)))
    BY <2>1, LatchesCalm
  <2>3. SameShapes(s, LatchRefusal(s, MotionInFlight(s)))
    BY <1>1, LatchShapes
  <2>4. QED
    BY <1>2, <2>2, <2>3, SameShapesMild, CalmsGuards DEF OnFaf
<1>3. CASE ~GateRefuses(s, stream)
  <2>1. ~AtRisk(s)
    BY <1>3 DEF GateRefuses, AtRisk, IsArmMotion
  <2>2. ASSUME NEW t, SameShapes(s, t) PROVE Guards(s, t)
    BY <2>1, <2>2 DEF SameShapes, Guards, Safe, AtRisk
  <2>3. CASE s.active_stream = stream
    <3> DEFINE t == [s EXCEPT !.active_stream = IF standoff THEN @ ELSE "none"]
               busy == t.executing # NoCmd \/ t.pending # <<>>
    <3>1. SameShapes(s, OnMotionAccepted(s)) /\ SameShapes(s, t)
      BY <1>1, LatchShapes DEF SameShapes, Fields
    <3> HIDE DEF t
    <3>2. SameShapes(t, LatchRefusal(t, busy))
      BY <3>1, LatchShapes DEF SameShapes
    <3>3. OnFaf(s, stream, ok, standoff) =
            IF ok THEN OnMotionAccepted(s) ELSE LatchRefusal(t, busy)
      BY <1>3, <2>3 DEF OnFaf, t
    <3>4. QED
      BY <2>2, <3>1, <3>2, <3>3, SameShapesTrans
  <2>4. CASE s.active_stream # stream
    <3> DEFINE n == [s EXCEPT !.active_stream = "none"]
               d == DropPlanned(n)
               w == [d EXCEPT !.active_stream = IF ok \/ standoff THEN stream ELSE "none"]
               t == CompleteCancelled(w, DroppedPlanned(s))
    <3>1. SameShapes(s, n)
      BY <1>1, EngineShapes
    <3> HIDE DEF n
    <3>2. SameShapes(n, d)
      BY <3>1, CancelShapes DEF SameShapes
    <3> HIDE DEF d
    <3>3. SameShapes(d, w)
      BY <3>2 DEF SameShapes, Fields
    <3> HIDE DEF w
    <3>4. SameShapes(w, t)
      BY <3>3, CancelShapes DEF SameShapes
    <3> HIDE DEF t
    <3>5. SameShapes(s, t) /\ DOMAIN t = Fields
      BY <3>1, <3>2, <3>3, <3>4, SameShapesTrans DEF SameShapes
    <3>6. \/ OnFaf(s, stream, ok, standoff) = OnMotionAccepted(t)
          \/ \E busy \in BOOLEAN : OnFaf(s, stream, ok, standoff) = LatchRefusal(t, busy)
      BY <1>3, <2>4 DEF OnFaf, MotionInFlight, n, d, w, t
    <3>7. SameShapes(t, OnFaf(s, stream, ok, standoff))
      BY <3>5, <3>6, LatchShapes
    <3>8. QED
      BY <2>2, <3>5, <3>7, SameShapesTrans
  <2>5. QED
    BY <2>3, <2>4
<1>4. QED
  BY <1>2, <1>3

\* The system commands guard: a new epoch orders the stop, and geometry is
\* declared attached only over an engine with nothing in it.
LEMMA SystemGuards ==
  ASSUME NEW s, NEW clear_queue \in BOOLEAN, NEW set \in ShapeStates, CoreOK(s)
  PROVE  /\ Guards(s, OnStop(s, clear_queue))
         /\ Guards(s, OnTeleport(s))
         /\ Guards(s, OnEstop(s))
         /\ Guards(s, OnReset(s))
         /\ Guards(s, OnBusSwap(s))
         /\ Guards(s, OnResetState(s))
         /\ Guards(s, OnSetShapes(s, set))
         /\ \A on : Guards(s, OnPause(s, on))
<1> DEFINE i == InvalidateAttachments(s)
           c == CancelAllMotion(s)
           ci == CancelAllMotion(i)
<1>1. DOMAIN s = Fields
  BY DEF CoreOK
<1>2. CoreOK(i) /\ Guards(s, i)
  BY InvalidateCalms, InvalidateMild, CalmsGuards DEF Calms
<1>3. CoreOK(c) /\ NoArmMotion(c)
  BY CancelAllMotionQuiets, QuietNoArm DEF Calms
<1> HIDE DEF i
<1>4. CoreOK(ci) /\ NoArmMotion(ci)
  BY <1>2, CancelAllMotionQuiets, QuietNoArm DEF Calms
<1> HIDE DEF c, ci
<1>5. ASSUME NEW t, NEW u, NoArmMotion(t),
             u.pending = t.pending, u.executing = t.executing,
             u.active_stream = t.active_stream
      PROVE  NoArmMotion(u) /\ Guards(s, u)
  BY <1>5, GuardsTrans DEF NoArmMotion
<1>6. Guards(s, OnStop(s, clear_queue))
  <2> DEFINE t == ClearPause(c)
             u == [t EXCEPT !.standing_error = Unattributed("cancelled")]
  <2>1. SameShapes(s, CancelActiveMotion(s)) /\ Calms(s, CancelActiveMotion(s))
    BY <1>1, CancelShapes, CancelActiveMotionCalms
  <2>2. Guards(s, CancelActiveMotion(s))
    BY <2>1, SameShapesMild, CalmsGuards
  <2>3. /\ DOMAIN t = Fields /\ t.pending = c.pending /\ t.executing = c.executing
        /\ t.active_stream = c.active_stream
    BY <1>3 DEF ClearPause, CoreOK, Fields
  <2> HIDE DEF t
  <2>4. u.pending = t.pending /\ u.executing = t.executing /\ u.active_stream = t.active_stream
    BY <2>3 DEF Fields
  <2>5. OnStop(s, clear_queue) \in {CancelActiveMotion(s), t, u}
    BY DEF OnStop, t, c
  <2> HIDE DEF u
  <2>6. Guards(s, t) /\ Guards(s, u)
    BY <1>3, <1>5, <2>3, <2>4
  <2>7. QED
    BY <2>2, <2>5, <2>6
<1>7. Guards(s, OnTeleport(s))
  <2> DEFINE n == [s EXCEPT !.active_stream = "none"]
             d == CancelPlanned(n)
             t == [d EXCEPT !.teleport_homed = TRUE]
  <2>1. SameShapes(s, n)
    BY <1>1, EngineShapes
  <2> HIDE DEF n
  <2>2. SameShapes(n, d)
    BY <2>1, CancelShapes DEF SameShapes
  <2> HIDE DEF d
  <2>3. SameShapes(d, t)
    BY <2>2 DEF SameShapes, Fields
  <2> HIDE DEF t
  <2>4. SameShapes(t, OnMotionAccepted(t))
    BY <2>3, LatchShapes DEF SameShapes
  <2>5. SameShapes(s, OnMotionAccepted(t)) /\ SameShapes(s, s)
    BY <1>1, <2>1, <2>2, <2>3, <2>4, SameShapesTrans DEF SameShapes
  <2>6. OnTeleport(s) \in {s, OnMotionAccepted(t)}
    BY DEF OnTeleport, n, d, t
  <2>7. SameShapes(s, OnTeleport(s)) /\ Calms(s, OnTeleport(s))
    BY <2>5, <2>6, SystemCalms
  <2>8. QED
    BY <2>7, SameShapesMild, CalmsGuards
<1>8. Guards(s, OnEstop(s))
  <2> DEFINE u == [s EXCEPT !.estop_latched = TRUE, !.standing_error = Unattributed("estop")]
             t == CancelAllMotion(u)
  <2>1. Keeps(s, u, {"estop_latched", "standing_error"})
    BY <1>1 DEF Keeps, Fields
  <2> HIDE DEF u
  <2>2. CoreOK(u)
    <3>1. /\ DOMAIN u = Fields
          /\ u.next_index = s.next_index /\ u.next_tag = s.next_tag
          /\ u.pending = s.pending /\ u.executing = s.executing
          /\ u.planning = s.planning /\ u.blend_hold = s.blend_hold
          /\ u.shapes = s.shapes /\ u.pending_shapes = s.pending_shapes
          /\ u.sent = s.sent
      BY <2>1 DEF Keeps, Fields
    <3>2. QED
      BY <3>1 DEF CoreOK, MarkerOK, PlanningHead
  <2>3. CoreOK(t) /\ NoArmMotion(t)
    BY <2>2, CancelAllMotionQuiets, QuietNoArm DEF Calms
  <2> HIDE DEF t
  <2>4. /\ ClearPause(t).pending = t.pending /\ ClearPause(t).executing = t.executing
        /\ ClearPause(t).active_stream = t.active_stream
    BY <2>3 DEF ClearPause, CoreOK, Fields
  <2>5. QED
    BY <1>5, <2>3, <2>4 DEF OnEstop, t, u
<1>9. Guards(s, OnReset(s))
  <2>1. Keeps(i, OnReset(s), {"estop_latched", "standing_error", "action_state"})
    BY <1>2 DEF OnReset, i, Keeps, CoreOK, Fields
  <2>2. Guards(i, OnReset(s))
    BY <2>1 DEF Keeps, Fields, Guards, Safe, AtRisk, NoArmMotion
  <2>3. QED
    BY <1>2, <2>2, GuardsTrans
<1>10. Guards(s, OnBusSwap(s))
  BY <1>4, GuardsTrans DEF OnBusSwap, ci, i
<1>11. Guards(s, OnResetState(s))
  <2> DEFINE t == [ci EXCEPT !.standing_error = NoError, !.action_state = "idle"]
             u == ClearPause(t)
             v == DeferProgramShapes(u, "plain")
  <2>1. /\ DOMAIN t = Fields /\ t.pending = ci.pending /\ t.executing = ci.executing
        /\ t.active_stream = ci.active_stream
    BY <1>4 DEF CoreOK, Fields
  <2> HIDE DEF t
  <2>2. /\ DOMAIN u = Fields /\ u.pending = t.pending /\ u.executing = t.executing
        /\ u.active_stream = t.active_stream
    BY <2>1 DEF ClearPause, Fields
  <2> HIDE DEF u
  <2>3. v.pending = u.pending /\ v.executing = u.executing /\ v.active_stream = u.active_stream
    BY <2>2 DEF DeferProgramShapes, Send, Fields
  <2>4. OnResetState(s) = v
    BY DEF OnResetState, v, u, t, ci, i
  <2> HIDE DEF v
  <2>5. QED
    BY <1>4, <1>5, <2>1, <2>2, <2>3, <2>4
<1>12. Guards(s, OnSetShapes(s, set))
  <2> DEFINE t == DeferProgramShapes(s, set)
  <2>1. CASE AttachmentShapesRefused(s, set)
    BY <2>1, GuardsTrans DEF OnSetShapes
  <2>2. CASE ~AttachmentShapesRefused(s, set)
    <3>1. /\ t.shapes = s.shapes /\ t.pending = s.pending /\ t.executing = s.executing
          /\ t.active_stream = s.active_stream
          /\ t.attachment_stop_pending = s.attachment_stop_pending
          /\ t.pending_shapes = s.pending_shapes \cup {[tag |-> s.next_tag + 1, set |-> set]}
      BY <1>1 DEF DeferProgramShapes, Send, Fields
    <3> HIDE DEF t
    <3>2. CASE set = "plain"
      <4>1. AtRisk(t) => AtRisk(s)
        BY <3>1, <3>2 DEF AtRisk
      <4>2. Guards(s, t)
        BY <3>1, <4>1 DEF Guards, Safe, NoArmMotion
      <4>3. QED
        BY <2>2, <4>2 DEF OnSetShapes, t
    <3>3. CASE set # "plain"
      <4>1. s.executing = NoCmd /\ s.active_stream = "none" /\ s.pending = <<>>
        BY <2>2, <3>3 DEF AttachmentShapesRefused
      <4>2. NoArmMotion(t)
        BY <3>1, <4>1, EmptySeq DEF NoArmMotion, NoCmd, IsArmMotion, Elems
      <4>3. QED
        BY <2>2, <4>2, GuardsTrans DEF OnSetShapes, t
    <3>4. QED
      BY <3>2, <3>3
  <2>3. QED
    BY <2>1, <2>2
<1>13. ASSUME NEW on PROVE Guards(s, OnPause(s, on))
  <2>1. Keeps(s, OnPause(s, on), {"execution_paused"})
    BY <1>1 DEF OnPause, Keeps, Fields
  <2>2. QED
    BY <2>1 DEF Keeps, Fields, Guards, Safe, AtRisk, NoArmMotion
<1>14. QED
  BY <1>6, <1>7, <1>8, <1>9, <1>10, <1>11, <1>12, <1>13

\* A turn of the server task keeps the geometry safe.
LEMMA TurnSafe ==
  ASSUME Inv, Safe(core), NEW sn \in Snaps, Client(sn) \/ Poll(sn) \/ PlanEvent(sn)
  PROVE  Safe(core')
<1> DEFINE a == Arrive(core, sn)
           ev == Head(events)
<1>1. CoreOK(core) /\ events \in Seq(PlanEvents)
  BY DEF Inv, TypeOK
<1>2. Guards(core, a) /\ CoreOK(a)
  BY <1>1, ArriveCalms, ArriveGuards DEF Calms
<1> HIDE DEF a
<1>3. ASSUME NEW t, DOMAIN t = Fields, Guards(a, t), Commit(t) PROVE Safe(core')
  <2>1. Safe(t)
    BY <1>2, <1>3 DEF Guards
  <2>2. Keeps(t, core', {"sent"})
    BY <1>3 DEF Commit, Keeps, Fields
  <2>3. QED
    BY <2>1, <2>2 DEF Keeps, Fields, Safe, AtRisk, NoArmMotion
<1>4. ASSUME NEW t, Calms(a, t) \/ Holds(a, t) PROVE DOMAIN t = Fields
  BY <1>4 DEF Calms, Holds, CoreOK
<1>5. "plain" \in ShapeStates /\ TRUE \in BOOLEAN
  BY DEF ShapeStates
<1>6. CASE Queued(sn)
  <2>1. PICK key \in Keys, kind \in Kinds : Commit(OnQueued(a, key, kind))
    BY <1>6 DEF Queued, a
  <2>2. kind \in QueuedKinds \cup {"stop"}
    BY InstanceAssumption
  <2>3. QED
    BY <1>2, <1>3, <1>4, <2>1, <2>2, QueuedHolds, QueuedGuards
<1>7. CASE Streamed(sn)
  <2>1. PICK stream \in Streams, ok \in BOOLEAN, standoff \in BOOLEAN :
           Commit(OnFaf(a, stream, ok, standoff))
    BY <1>7 DEF Streamed, a
  <2>2. stream \in {"jogj", "jogl", "servo"}
    BY InstanceAssumption
  <2>3. QED
    BY <1>2, <1>3, <1>4, <2>1, <2>2, FafHolds, FafGuards
<1>8. CASE Estop(sn)
  BY <1>2, <1>3, <1>4, <1>5, <1>8, EstopHolds, SystemGuards DEF Estop, a
<1>9. CASE Stop(sn)
  <2>1. PICK clear_queue \in BOOLEAN : Commit(OnStop(a, clear_queue))
    BY <1>9 DEF Stop, a
  <2>2. QED
    BY <1>2, <1>3, <1>4, <1>5, <2>1, SystemCalms, SystemGuards
<1>10. CASE Pause(sn)
  <2>1. PICK on \in BOOLEAN : Commit(OnPause(a, on))
    BY <1>10 DEF Pause, a
  <2>2. Guards(a, OnPause(a, on))
    BY <1>2, <1>5, SystemGuards
  <2>3. QED
    BY <1>2, <1>3, <1>4, <2>1, <2>2, LatchesCalm
<1>11. CASE Teleport(sn)
  BY <1>2, <1>3, <1>4, <1>5, <1>11, SystemCalms, SystemGuards DEF Teleport, a
<1>12. CASE Reset(sn)
  BY <1>2, <1>3, <1>4, <1>5, <1>12, ResetHolds, SystemGuards DEF Reset, a
<1>13. CASE ResetState(sn)
  BY <1>2, <1>3, <1>4, <1>5, <1>13, SystemCalms, SystemGuards DEF ResetState, a
<1>14. CASE BusSwap(sn)
  BY <1>2, <1>3, <1>4, <1>5, <1>14, SystemCalms, SystemGuards DEF BusSwap, a
<1>15. CASE SetShapes(sn)
  <2>1. PICK set \in ShapeSets : Commit(OnSetShapes(a, set))
    BY <1>15 DEF SetShapes, a
  <2>2. set \in ShapeStates
    BY InstanceAssumption DEF ShapeStates
  <2>3. QED
    BY <1>2, <1>3, <1>4, <1>5, <2>1, <2>2, SystemCalms, SystemGuards
<1>16. CASE Poll(sn)
  BY <1>2, <1>3, <1>4, <1>16, PumpCalms, PumpGuards DEF Poll, a
<1>17. CASE PlanEvent(sn)
  <2>1. ev \in PlanEvents /\ Commit(OnPlanEvent(a, ev))
    BY <1>1, <1>17, HeadTailProperties DEF PlanEvent, a
  <2> HIDE DEF ev
  <2>2. ASSUME NEW t, t = OnPlanEvent(a, ev), DOMAIN t = Fields, Guards(a, t)
        PROVE  Safe(core')
    BY <1>3, <2>1, <2>2
  <2>3. CASE ev \in [op : {"Started"}, index : Nat \ {0}, taken : Nat]
    <3>1. ev.op = "Started" /\ ev.taken \in Nat
      BY <2>3
    <3>2. OnPlanEvent(a, ev) = OnPlanStarted(a, ev.index, ev.taken)
      BY <3>1 DEF OnPlanEvent
    <3>3. QED
      BY <1>2, <1>4, <2>2, <3>1, <3>2, PlanStartedHolds, PlanStartedGuards
  <2>4. CASE ev \in [op : {"Rejected"}, index : Nat \ {0}]
    <3>1. ev.op = "Rejected"
      BY <2>4
    <3>2. OnPlanEvent(a, ev) = OnPlanRejected(a, ev.index)
      BY <3>1 DEF OnPlanEvent
    <3>3. QED
      BY <1>2, <1>4, <2>2, <3>2, PlanRejectedCalms, PlanRejectedGuards
  <2>5. CASE ev \in [op : {"Outcome"}, index : Nat, ok : BOOLEAN, changed : BOOLEAN]
    <3> DEFINE o == OnOutcome(a, ev.index, ev.ok, ev.changed)
    <3>1. ev.op = "Outcome" /\ ev.ok \in BOOLEAN /\ ev.changed \in BOOLEAN
      BY <2>5
    <3>2. OnPlanEvent(a, ev) = Pump(o)
      BY <3>1 DEF OnPlanEvent
    <3>3. CoreOK(o) /\ Guards(a, o)
      BY <1>2, <3>1, OutcomeCalms, OutcomeGuards DEF Calms
    <3> HIDE DEF o
    <3>4. CoreOK(Pump(o)) /\ Guards(a, Pump(o))
      BY <3>3, PumpCalms, PumpGuards, GuardsTrans DEF Calms
    <3>5. QED
      BY <2>2, <3>2, <3>4 DEF CoreOK
  <2>6. CASE ev \in [op : {"ToolOutcome"}, index : Nat, ok : BOOLEAN]
    <3>1. ev.op = "ToolOutcome" /\ ev.ok \in BOOLEAN
      BY <2>6
    <3>2. OnPlanEvent(a, ev) = OnToolOutcome(a, ev.index, ev.ok)
      BY <3>1 DEF OnPlanEvent
    <3>3. QED
      BY <1>2, <1>4, <2>2, <3>1, <3>2, ToolOutcomeCalms, ToolEventGuards
  <2>7. CASE ev \in [op : {"ToolStarted", "ShapesApplied"}, tag : Nat, ok : BOOLEAN]
    <3>1. ev.op \in {"ToolStarted", "ShapesApplied"} /\ ev.ok \in BOOLEAN
      BY <2>7
    <3>2. CASE ev.op = "ToolStarted"
      <4>1. OnPlanEvent(a, ev) = OnToolStarted(a, ev.tag, ev.ok)
        BY <3>2 DEF OnPlanEvent
      <4>2. QED
        BY <1>2, <1>4, <2>2, <3>1, <4>1, ToolStartedCalms, ToolEventGuards
    <3>3. CASE ev.op = "ShapesApplied"
      <4>1. OnPlanEvent(a, ev) = OnShapesApplied(a, ev.tag, ev.ok)
        BY <3>3 DEF OnPlanEvent
      <4>2. QED
        BY <1>2, <1>4, <2>2, <3>1, <4>1, ShapesAppliedCalms, ShapesAppliedGuards
    <3>4. QED
      BY <3>1, <3>2, <3>3
  <2>8. CASE ev \in [op : {"ToolFitted"}, changed : BOOLEAN]
    <3> DEFINE t == AdoptToolSelection(a, ev.changed)
    <3>1. ev.op = "ToolFitted" /\ ev.changed \in BOOLEAN
      BY <2>8
    <3>2. OnPlanEvent(a, ev) = t
      BY <3>1 DEF OnPlanEvent
    <3>3. t \in {a, InvalidateAttachments(a)} /\ Calms(a, t)
      BY <1>2, <3>1, AdoptCalms DEF AdoptToolSelection
    <3> HIDE DEF t
    <3>4. Mild(a, t)
      BY <1>2, <3>3, InvalidateMild DEF Mild
    <3>5. QED
      BY <1>4, <2>2, <3>2, <3>3, <3>4, CalmsGuards
  <2>9. QED
    BY <2>1, <2>3, <2>4, <2>5, <2>6, <2>7, <2>8 DEF PlanEvents
<1>18. QED
  BY <1>6, <1>7, <1>8, <1>9, <1>10, <1>11, <1>12, <1>13, <1>14, <1>15, <1>16, <1>17 DEF Client

\* Once attached geometry has gone stale and its stop has run, no arm motion is
\* queued, executing or streaming against it, whatever the clients send and
\* whatever geometry is on its way through the planner.
THEOREM GeometryIsFresh == Spec => []NoMotionOnStaleGeometry
<1>1. Init => Safe(core)
  <2> SUFFICES ASSUME Init PROVE Safe(core)
    OBVIOUS
  <2>1. PICK sn \in Snaps : core = InitCore(sn)
    BY DEF Init
  <2>2. core.shapes = "plain" /\ core.pending_shapes = {}
    BY <2>1 DEF InitCore
  <2>3. QED
    BY <2>2 DEF Safe, AtRisk
<1>2. Inv /\ Safe(core) /\ [Next]_vars => Safe(core)'
  <2> SUFFICES ASSUME Inv, Safe(core), [Next]_vars PROVE Safe(core')
    OBVIOUS
  <2>1. CASE HoldExpires
    <3>1. Keeps(core, core', {"blend_hold"})
      BY <2>1, SMTT(40) DEF Inv, TypeOK, CoreOK, HoldExpires, Keeps, Fields
    <3>2. QED
      BY <3>1 DEF Keeps, Fields, Safe, AtRisk, NoArmMotion
  <2>2. CASE Planner
    <3>1. core' = core
      BY <2>2 DEF Planner, ServiceStart, ServiceCancel, ServiceStartTool,
                  ServiceCancelTool, ServiceSetShapes, PollOutcome, PollTool, DriveToolChanged
    <3>2. QED
      BY <3>1
  <2>3. CASE UNCHANGED vars
    BY <2>3 DEF vars
  <2>4. QED
    BY <2>1, <2>2, <2>3, TurnSafe DEF Next
<1>3. Safe(core) => NoMotionOnStaleGeometry
  BY DEF Safe, AtRisk, NoArmMotion, NoMotionOnStaleGeometry
<1>4. QED
  BY <1>1, <1>2, <1>3, InitInv, NextInv, PTL DEF Spec
=============================================================================
